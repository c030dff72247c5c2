---------------------------- MODULE StateMachine ----------------------------
(***************************************************************************)
(* engine/core/state_machine.py: the node states, the mandatory transition *)
(* table and the validity test every optimistic update goes through.       *)
(***************************************************************************)

NodeState == {"NOT_STARTED", "READY", "IN_PROGRESS", "COMPLETED", "BLOCKED",
              "INVALID", "AWAITING_APPROVAL", "NEEDS_HUMAN", "SUSPENDED",
              "FAILED", "SKIPPED"}

NodeType == {"TASK", "QA", "GATE"}

VALID_TRANSITIONS ==
  [NOT_STARTED       |-> {"READY", "BLOCKED", "INVALID", "SKIPPED"},
   READY             |-> {"IN_PROGRESS", "BLOCKED", "INVALID"},
   IN_PROGRESS       |-> {"COMPLETED", "FAILED", "INVALID", "NEEDS_HUMAN",
                          "SUSPENDED", "AWAITING_APPROVAL", "READY"},
   COMPLETED         |-> {"INVALID"},
   BLOCKED           |-> {"READY", "NOT_STARTED", "INVALID"},
   INVALID           |-> {"READY", "NOT_STARTED", "BLOCKED"},
   AWAITING_APPROVAL |-> {"COMPLETED", "INVALID"},
   NEEDS_HUMAN       |-> {"IN_PROGRESS", "INVALID", "FAILED"},
   SUSPENDED         |-> {"READY", "INVALID", "FAILED"},
   FAILED            |-> {"READY", "INVALID"},
   SKIPPED           |-> {"READY", "INVALID"}]

IsValid(from, to) == to \in VALID_TRANSITIONS[from]

\* The states that satisfy a dependency (_DONE in dag_advancer.py).
Done == {"COMPLETED", "SKIPPED"}

\* The states of a dependency that block its dependents (any_failed).
Failing == {"FAILED", "NEEDS_HUMAN", "INVALID"}

\* The states an advance leaves alone.
Settled == {"IN_PROGRESS", "COMPLETED", "SKIPPED", "AWAITING_APPROVAL",
            "NEEDS_HUMAN", "SUSPENDED"}

\* The states that are promoted to READY once every dependency is done.
Restartable == {"NOT_STARTED", "BLOCKED", "INVALID"}
=============================================================================
