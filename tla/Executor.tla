------------------------------ MODULE Executor ------------------------------
(***************************************************************************)
(* engine/skills/executor.py and executor_cascade.py: what an executor     *)
(* task does to the database between its launch and its return.  Prompts,  *)
(* model calls and content checks are choices; the guards, the order of    *)
(* the writes, the artifact versions, the QA stamps and the cascade that   *)
(* follows an approval are kept.  No write here looks at nodes.version,    *)
(* and none but the two marked ones advances it.                           *)
(***************************************************************************)
EXTENDS DagAdvancer

CONSTANTS
  Outcome,    \* the ways the work on a node may end, a subset of Outcomes
  Verify,     \* the TASKs of the phase VERIFY
  BuildGate,  \* the gates between BUILD and VERIFY
  MaxRounds   \* bound: a prompt is over budget below this version of its row

\* "pass": a TASK's output is valid, or a QA's programmatic checks succeed;
\* "build": a TASK's output is generated without a model;
\* "approve": the model's verdict on a TASK is PASS; "reject_*": a FAIL, by
\* what it does to the QA's own row; "limit": an API limit; "token": the
\* node's token budget is spent; "budget": the prompt is over the budget of a
\* call; "defect": a TASK of VERIFY finds defects in what it tests; "error":
\* any other exception.
Outcomes == {"pass", "build", "approve", "error", "limit", "token",
             "budget", "defect", "reject_kept", "reject_invalid",
             "reject_completed"}

ASSUME OutcomeAssumption ==
  /\ Outcome \subseteq Outcomes
  /\ {"approve", "error"} \intersect Outcome # {}
  /\ \A n \in Verify : n \in Node /\ Type[n] = "TASK"
  /\ \A n \in BuildGate : n \in Node /\ Type[n] = "GATE"
  /\ MaxRounds \in Nat

VARIABLES
  stall,  \* nodes table: stall_count
  art,    \* artifacts.current_version of a node's artifact, 0 when it has none
  stamp,  \* artifact_qa_stamps: the version a QA's stored PASS judged, 0 if none
  casc    \* the background cascade task on a QA node

execVars == <<stall, art, stamp, casc>>
vars == <<engine, execVars>>

RunPc == {"free", "queued", "stall", "suspend", "pair", "deps", "block",
          "inspect", "stamp", "work", "pass", "build", "approve", "revive",
          "cascade", "early", "early_pair", "early_gate", "reject_invalid",
          "reject_completed", "reject_kept", "over", "defects", "defects_qa",
          "defects_gate", "limit", "return", "fail", "cas", "reload"}

NoCascade(n) == [pc |-> "idle", row |-> InitialRow(n)]

Init ==
  /\ EngineInit
  /\ stall = [n \in Node |-> 0]
  /\ art = [n \in Node |-> 0]
  /\ stamp = [n \in Node |-> 0]
  /\ casc = [n \in Node |-> NoCascade(n)]

-----------------------------------------------------------------------------
(* Guards *)

\* Guards 1 and 2: two stalls, or a spent token budget, suspend the node.
StallGuard(r) ==
  /\ run[r].pc = "stall"
  /\ \/ stall[run[r].node] >= 2 /\ Goto(r, "suspend")
     \/ stall[run[r].node] < 2 /\ Goto(r, "pair")
     \/ "token" \in Outcome /\ Goto(r, "suspend")
  /\ UNCHANGED <<node, dag, queue, adv, execVars>>

\* A QA waits while its TASK is out of the normal path.
PairGuard(r) ==
  LET n == run[r].node
  IN  /\ run[r].pc = "pair"
      /\ Goto(r, IF Type[n] = "QA" /\ node[Pair[n]].state \in
                      {"SUSPENDED", "FAILED", "BLOCKED", "INVALID", "NEEDS_HUMAN"}
                 THEN "block" ELSE "deps")
      /\ UNCHANGED <<node, dag, queue, adv, execVars>>

\* The dependencies are read again, from the table this time.
DepGuard(r) ==
  LET n == run[r].node
  IN  /\ run[r].pc = "deps"
      /\ Goto(r, IF ~DepsDone(node, n) THEN "block"
                 ELSE IF Type[n] = "QA" THEN "inspect" ELSE "work")
      /\ UNCHANGED <<node, dag, queue, adv, execVars>>

\* The guards' writes and their early return.
SuspendWrite(r) ==
  /\ run[r].pc = "suspend"
  /\ Write(run[r].node, "SUSPENDED")
  /\ Goto(r, "return")
  /\ UNCHANGED <<dag, queue, adv, execVars>>

BlockWrite(r) ==
  /\ run[r].pc = "block"
  /\ Write(run[r].node, "BLOCKED")
  /\ Goto(r, "return")
  /\ UNCHANGED <<dag, queue, adv, execVars>>

-----------------------------------------------------------------------------
(* The work on a TASK *)

\* _save_artifact: the output becomes the artifact's current version.
SaveArtifact(n) == [art EXCEPT ![n] = @ + 1]

\* pre_call_check refuses the prompt.
OverBudget(r) ==
  /\ "budget" \in Outcome
  /\ node[run[r].node].version < MaxRounds

\* The context or the model call raises.
CallFails(r) ==
  \/ "error" \in Outcome /\ Goto(r, "fail")
  \/ "limit" \in Outcome /\ Goto(r, "limit")

\* The model call, the save of the output under a new version, and the
\* checks that may still fail after the save.
Work(r) ==
  LET n == run[r].node
  IN  /\ run[r].pc = "work"
      /\ Type[n] = "TASK"
      /\ \/ art' = SaveArtifact(n) /\ Goto(r, "pass")
         \/ "error" \in Outcome /\ art' = SaveArtifact(n) /\ Goto(r, "fail")
         \/ OverBudget(r) /\ Goto(r, "over") /\ UNCHANGED art
         \/ CallFails(r) /\ UNCHANGED art
      /\ UNCHANGED <<node, dag, queue, adv, stall, stamp, casc>>

\* A TASK over budget is NOT_STARTED when another phase could lend tokens
\* (module PhaseBudget), else BLOCKED.  The executor returns: no retry is
\* counted, and the advancer promotes either state again.
BudgetWrite(r) ==
  /\ run[r].pc = "over"
  /\ \E s \in {"NOT_STARTED", "BLOCKED"} : Write(run[r].node, s)
  /\ Goto(r, "return")
  /\ UNCHANGED <<dag, queue, adv, execVars>>

\* A TASK whose output is generated by program: saved and completed with no
\* call, no validation and none of the steps after step 11.
BuildProgrammatic(r) ==
  /\ run[r].pc = "work"
  /\ Type[run[r].node] = "TASK"
  /\ "build" \in Outcome
  /\ art' = SaveArtifact(run[r].node)
  /\ Goto(r, "build")
  /\ UNCHANGED <<node, dag, queue, adv, stall, stamp, casc>>

\* Step 10-2, _defect_cascade: the analysis of a test report names COMPLETED
\* TASKs at fault.  Which of them it names, and which failure_reasons tell were
\* sent back twice before and are passed over, is a choice; when none is left,
\* or the analysis fails, the TASK goes on to step 11.
FindDefects(r) ==
  /\ run[r].pc = "pass"
  /\ run[r].node \in Verify
  /\ "defect" \in Outcome
  /\ \E targets \in SUBSET {t \in Node : Type[t] = "TASK" /\ node[t].state = "COMPLETED"} :
       /\ targets # {}
       /\ run' = [run EXCEPT ![r].pc = "defects", ![r].targets = targets,
                             ![r].todo = targets]
  /\ UNCHANGED <<node, dag, queue, adv, execVars>>

\* Mutant: the QAs of the TASKs at fault are forgotten.
SendBackAlone(r) ==
  /\ run[r].pc = "defects"
  /\ \E t \in run[r].todo :
       /\ WriteBump(t, "INVALID")
       /\ run' = [run EXCEPT ![r].pc = IF run[r].todo = {t} THEN "defects_gate" ELSE @,
                             ![r].todo = @ \ {t}]
  /\ UNCHANGED <<dag, queue, adv, execVars>>

\* One UPDATE per TASK at fault, whatever it is by then ...
SendBack(r) ==
  /\ run[r].pc = "defects"
  /\ \E t \in run[r].todo :
       /\ WriteBump(t, "INVALID")
       /\ run' = IF run[r].todo = {t}
                 THEN [run EXCEPT ![r].pc = "defects_qa", ![r].todo = run[r].targets]
                 ELSE [run EXCEPT ![r].todo = @ \ {t}]
  /\ UNCHANGED <<dag, queue, adv, execVars>>

\* ... then one for the QA of each, if it is COMPLETED ...
SendBackQa(r) ==
  /\ run[r].pc = "defects_qa"
  /\ \E t \in run[r].todo :
       /\ IF node[Pair[t]].state = "COMPLETED" THEN WriteBump(Pair[t], "INVALID")
                                               ELSE UNCHANGED node
       /\ run' = [run EXCEPT ![r].pc = IF run[r].todo = {t} THEN "defects_gate" ELSE @,
                             ![r].todo = @ \ {t}]
  /\ UNCHANGED <<dag, queue, adv, execVars>>

\* ... and the gates between BUILD and VERIFY; the executor raises.
SendBackGate(r) ==
  /\ run[r].pc = "defects_gate"
  /\ node' = [n \in Node |->
                IF n \in BuildGate /\ node[n].state = "COMPLETED"
                THEN [node[n] EXCEPT !.state = "INVALID", !.version = @ + 1]
                ELSE node[n]]
  /\ run' = [run EXCEPT ![r].pc = "fail", ![r].targets = {}]
  /\ UNCHANGED <<dag, queue, adv, execVars>>

\* Step 11: COMPLETED, whatever the row holds by now.
Complete(r) ==
  /\ run[r].pc \in {"pass", "build", "approve"}
  /\ Write(run[r].node, "COMPLETED")
  /\ Goto(r, IF run[r].pc = "approve" THEN "cascade"
             ELSE IF run[r].pc = "pass" /\ Type[run[r].node] = "TASK" THEN "revive"
             ELSE "return")
  /\ UNCHANGED <<dag, queue, adv, execVars>>

\* Mutant: the QA is reopened whatever its state.
ReviveQaAlways(r) ==
  /\ run[r].pc = "revive"
  /\ WriteBump(Pair[run[r].node], "NOT_STARTED")
  /\ Goto(r, "return")
  /\ UNCHANGED <<dag, queue, adv, execVars>>

\* Step 11-0a: a completed TASK reopens its BLOCKED or SKIPPED QA (marked:
\* this write advances the version).
ReviveQa(r) ==
  LET q == Pair[run[r].node]
  IN  /\ run[r].pc = "revive"
      /\ IF node[q].state \in {"BLOCKED", "SKIPPED"}
         THEN WriteBump(q, "NOT_STARTED") ELSE UNCHANGED node
      /\ Goto(r, "return")
      /\ UNCHANGED <<dag, queue, adv, execVars>>

-----------------------------------------------------------------------------
(* The work on a QA *)

\* What the programmatic checks of a QA decide, if they decide at all.
CheckResults ==
  {"stamp"} \union (Outcome \intersect {"pass", "reject_invalid", "reject_completed"})

\* Mutant: the version before the current one is read.
InspectPrevious(r) ==
  /\ run[r].pc = "inspect"
  /\ \E next \in CheckResults :
       run' = [run EXCEPT ![r].pc = next, ![r].seen = art[Pair[run[r].node]] - 1]
  /\ UNCHANGED <<node, dag, queue, adv, execVars>>

\* The TASK's current artifact is read; programmatic checks may decide.
Inspect(r) ==
  /\ run[r].pc = "inspect"
  /\ \E next \in CheckResults :
       run' = [run EXCEPT ![r].pc = next, ![r].seen = art[Pair[run[r].node]]]
  /\ UNCHANGED <<node, dag, queue, adv, execVars>>

\* The stamp cache: an earlier PASS of this QA stands for the new verdict.
CheckStamp(r) ==
  LET q == run[r].node
  IN  /\ run[r].pc = "stamp"
      /\ run' = IF stamp[q] > 0
                THEN [run EXCEPT ![r].pc = "pass", ![r].seen = stamp[q]]
                ELSE [run EXCEPT ![r].pc = "work"]
      /\ UNCHANGED <<node, dag, queue, adv, execVars>>

\* _save_qa_stamp, when its statements succeed: the newest stamp counts.
SaveStamp(q, version) == [stamp EXCEPT ![q] = version]

\* The model's verdict; an approval is stamped at once.  A QA over budget is
\* approved without a model when it has passed the structural checks, and
\* otherwise closed before its TASK is sent back.
Judge(r) ==
  LET q == run[r].node
  IN  /\ run[r].pc = "work"
      /\ Type[q] = "QA"
      /\ \/ /\ "approve" \in Outcome
            /\ stamp' = SaveStamp(q, run[r].seen)
            /\ Goto(r, "approve")
         \/ CallFails(r) /\ UNCHANGED stamp
         \/ /\ OverBudget(r)
            /\ \/ Goto(r, "pass")
               \/ "reject_completed" \in Outcome /\ Goto(r, "reject_completed")
            /\ UNCHANGED stamp
         \/ "reject_kept" \in Outcome /\ Goto(r, "reject_kept") /\ UNCHANGED stamp
      /\ UNCHANGED <<node, dag, queue, adv, stall, art, casc>>

\* A failed check first marks the QA itself: INVALID in the structural
\* checks, COMPLETED in the checks of programmatic output.  The model's own
\* verdict leaves the QA row alone.
RejectSelf(r) ==
  LET q == run[r].node
  IN  /\ run[r].pc = "reject_invalid"
      /\ Write(q, "INVALID")
      /\ stall' = [stall EXCEPT ![q] = @ + 1]
      /\ Goto(r, "reject_kept")
      /\ UNCHANGED <<dag, queue, adv, art, stamp, casc>>

RejectCompleted(r) ==
  /\ run[r].pc = "reject_completed"
  /\ Write(run[r].node, "COMPLETED")
  /\ Goto(r, "reject_kept")
  /\ UNCHANGED <<dag, queue, adv, execVars>>

\* Then it sends the paired TASK back, and the executor raises.
RejectTask(r) ==
  LET t == Pair[run[r].node]
  IN  /\ run[r].pc = "reject_kept"
      /\ Write(t, "INVALID")
      /\ stall' = [stall EXCEPT ![t] = @ + 1]
      /\ Goto(r, "fail")
      /\ UNCHANGED <<dag, queue, adv, art, stamp, casc>>

-----------------------------------------------------------------------------
(* Step 11-1: the cascade below an approved TASK.  Its only successor is   *)
(* the QA that has just completed.                                         *)

GatesOf(q) == {g \in Node : Type[g] = "GATE" /\ q \in Deps[g]}

\* COMPLETED gates of the phase go back to NOT_STARTED.
ReopenGates(q) ==
  node' = [n \in Node |->
             IF n \in GatesOf(q) /\ node[n].state = "COMPLETED"
             THEN [node[n] EXCEPT !.state = "NOT_STARTED"] ELSE node[n]]

\* A first version looks for successors that completed "too early"; a later
\* one whose text differs starts a background task.
Cascade(r) ==
  LET q     == run[r].node
      first == art[Pair[q]] < 2
  IN  /\ run[r].pc = "cascade"
      /\ \/ /\ first
            /\ Goto(r, IF node[q].state = "COMPLETED" THEN "early" ELSE "return")
            /\ UNCHANGED casc
         \/ /\ ~first
            /\ Goto(r, "return")
            /\ casc' \in {casc, [casc EXCEPT ![q].pc = "read"]}
      /\ UNCHANGED <<node, dag, queue, adv, stall, art, stamp>>

\* _invalidate_early_completed_downstreams, one UPDATE at a time: the QA,
\* its pair, the gates of the phase.
EarlyInvalidate(r) ==
  LET q == run[r].node
  IN  /\ run[r].pc = "early"
      /\ node' = IF node[q].state = "COMPLETED"
                 THEN [node EXCEPT ![q].state = "INVALID", ![q].retry = 0]
                 ELSE node
      /\ Goto(r, "early_pair")
      /\ UNCHANGED <<dag, queue, adv, execVars>>

EarlyResetPair(r) ==
  LET t == Pair[run[r].node]
  IN  /\ run[r].pc = "early_pair"
      /\ IF node[t].state # "SKIPPED" THEN Write(t, "NOT_STARTED")
                                      ELSE UNCHANGED node
      /\ Goto(r, "early_gate")
      /\ UNCHANGED <<dag, queue, adv, execVars>>

EarlyReopenGates(r) ==
  /\ run[r].pc = "early_gate"
  /\ ReopenGates(run[r].node)
  /\ Goto(r, "return")
  /\ UNCHANGED <<dag, queue, adv, execVars>>

\* _cascade_for_node in the background, once the change is classified:
\* phase2_apply_invalid reads the row, then writes it if it has not changed
\* (marked: this write advances the version).
CascadeRead(q) ==
  /\ casc[q].pc = "read"
  /\ casc' = [casc EXCEPT ![q] =
                [pc |-> IF IsValid(node[q].state, "INVALID") /\ node[q].state # "SKIPPED"
                        THEN "apply" ELSE "retry",
                 row |-> node[q]]]
  /\ UNCHANGED <<engine, stall, art, stamp>>

CascadeApply(q) ==
  /\ casc[q].pc = "apply"
  /\ IF casc[q].row.version = node[q].version THEN WriteBump(q, "INVALID")
                                              ELSE UNCHANGED node
  /\ casc' = [casc EXCEPT ![q].pc = "retry"]
  /\ UNCHANGED <<dag, queue, adv, run, stall, art, stamp>>

CascadeResetRetry(q) ==
  /\ casc[q].pc = "retry"
  /\ node' = IF node[q].state = "INVALID" THEN [node EXCEPT ![q].retry = 0]
                                          ELSE node
  /\ casc' = [casc EXCEPT ![q].pc = "gate"]
  /\ UNCHANGED <<dag, queue, adv, run, stall, art, stamp>>

CascadeReopenGates(q) ==
  /\ casc[q].pc = "gate"
  /\ ReopenGates(q)
  /\ casc' = [casc EXCEPT ![q].pc = "enqueue"]
  /\ UNCHANGED <<dag, queue, adv, run, stall, art, stamp>>

CascadeEnqueue(q) ==
  /\ casc[q].pc = "enqueue"
  /\ queue' = queue + 1
  /\ casc' = [casc EXCEPT ![q] = NoCascade(q)]
  /\ UNCHANGED <<node, dag, adv, run, stall, art, stamp>>

CascadeForNode(q) ==
  \/ CascadeRead(q) \/ CascadeApply(q) \/ CascadeResetRetry(q)
  \/ CascadeReopenGates(q) \/ CascadeEnqueue(q)

-----------------------------------------------------------------------------

ExecuteNode(r) ==
  \/ StallGuard(r) \/ PairGuard(r) \/ DepGuard(r)
  \/ SuspendWrite(r) \/ BlockWrite(r)
  \/ Work(r) \/ BuildProgrammatic(r) \/ BudgetWrite(r)
  \/ FindDefects(r) \/ SendBack(r) \/ SendBackQa(r) \/ SendBackGate(r)
  \/ Complete(r) \/ ReviveQa(r)
  \/ Inspect(r) \/ CheckStamp(r) \/ Judge(r)
  \/ RejectSelf(r) \/ RejectCompleted(r) \/ RejectTask(r)
  \/ Cascade(r) \/ EarlyInvalidate(r) \/ EarlyResetPair(r) \/ EarlyReopenGates(r)

Execute(r) == ExecuteNode(r) \/ (RunNodeSafe(r) /\ UNCHANGED execVars)

\* The consumer's one-second poll of an empty queue.
Poll ==
  /\ adv.pc = "wait"
  /\ queue = 0
  /\ UNCHANGED vars

Next ==
  \/ Advance /\ UNCHANGED execVars
  \/ \E r \in Run : Execute(r)
  \/ \E q \in Node : CascadeForNode(q)
  \/ Poll

Spec == Init /\ [][Next]_vars

\* Every task of the event loop that can run is eventually scheduled.
\* asyncio.Semaphore hands its slots out in arrival order: SF on Acquire.
Fairness ==
  /\ WF_vars(Advance /\ UNCHANGED execVars)
  /\ \A r \in Run : WF_vars(Execute(r)) /\ SF_vars(Acquire(r) /\ UNCHANGED execVars)
  /\ \A q \in Node : WF_vars(CascadeForNode(q))

FairSpec == Spec /\ Fairness
-----------------------------------------------------------------------------
(* Properties *)

Advancer == [pc : {"wait", "load", "eval", "cas", "reload"},
             snap : [Node -> Row], i : Nat \ {0}, count : Nat,
             to : NodeState, launch : Launch, tries : 0..2]

Task == [pc : RunPc, node : Node, row : Row, to : NodeState,
         tries : 0..2, seen : Nat, targets : SUBSET Node, todo : SUBSET Node]

CascadeTask == [pc : {"idle", "read", "apply", "retry", "gate", "enqueue"},
                row : Row]

\* The columns, the in-memory copies and the control states keep their types.
TypeOK ==
  /\ node \in [Node -> Row]
  /\ stall \in [Node -> Nat]
  /\ art \in [Node -> Nat]
  /\ stamp \in [Node -> Nat]
  /\ dag \in {"RUNNING", "PAUSED", "COMPLETED"}
  /\ queue \in Nat
  /\ adv \in Advancer
  /\ adv.pc \in {"cas", "reload"} => adv.i <= Len(Order)
  /\ run \in [Run -> Task]
  /\ casc \in [Node -> CascadeTask]

\* _transition_node raises InvalidTransitionError out of the whole cycle: the
\* advancer never attempts a transition the table forbids, not even on the row
\* it has adopted after a conflict.
AdvanceLegal ==
  adv.pc = "cas" => IsValid(adv.snap[Order[adv.i]].state, adv.to)

\* MAX_CONCURRENT_NODES: no more executors run at once than the semaphore has
\* slots, however many tasks a stale count has launched.
SlotsBounded == Cardinality(Holding) <= MaxConcurrent

\* A gate is decided by the advancer alone and never executed, although the
\* automatic retry of FAILED nodes does not look at the node type.
GatesNeverRun ==
  \A r \in Run : run[r].pc # "free" => Type[run[r].node] # "GATE"

\* A launched task that has not written the result of its node yet.
Owns(r) == run[r].pc \in {"queued", "stall", "suspend", "pair", "deps", "block",
                          "inspect", "stamp", "work", "pass", "build", "approve",
                          "over", "defects", "defects_qa", "defects_gate"}

\* A node is executed by one task at a time.
OneOwner ==
  \A r1, r2 \in Run :
    r1 # r2 /\ Owns(r1) /\ Owns(r2) => run[r1].node # run[r2].node

\* A defect cascade that has chosen TASK t and not yet reached its QA.
SendingBack(t) ==
  \E r \in Run :
    t \in CASE run[r].pc = "defects"    -> run[r].targets
           [] run[r].pc = "defects_qa" -> run[r].todo
           [] OTHER                    -> {}

\* Rule 9: an approved QA vouches for a finished TASK.  A TASK whose defects a
\* test has found is sent back before its QA, a statement later.
ApprovedTaskDone ==
  \A q \in Node : Type[q] = "QA" /\ node[q].state = "COMPLETED"
                   => node[Pair[q]].state \in Done \/ SendingBack(Pair[q])

\* No failure is counted after the last allowed attempt.
RetryBounded == \A n \in Node : node[n].retry <= MaxRetries

\* The comment on _in_progress_count: no more than MAX_CONCURRENT_NODES
\* executions are claimed at once, whatever the age of the snapshot.
ClaimsBounded ==
  Cardinality({n \in Node : Type[n] # "GATE" /\ node[n].state = "IN_PROGRESS"})
    <= MaxConcurrent

Quiescent ==
  /\ adv.pc = "wait" /\ queue = 0
  /\ \A r \in Run : run[r].pc = "free"
  /\ \A q \in Node : casc[q].pc = "idle"

\* When nothing is left to do, a node that could run was left behind only by
\* an execution that an API limit or a stall suspended.
NothingStranded ==
  Quiescent /\ dag # "PAUSED" =>
    \A n \in Node :
      node[n].state \in Restartable \union {"READY", "IN_PROGRESS"} /\ DepsDone(node, n)
        => \E m \in Node : node[m].state = "SUSPENDED"

\* Every state change of the table is one VALID_TRANSITIONS allows.
RuleEight ==
  [][\A n \in Node : node'[n].state # node[n].state
                     => IsValid(node[n].state, node'[n].state)]_vars

\* A DAG is marked COMPLETED only when its nodes are.
CompletedIsDone ==
  [][dag # "COMPLETED" /\ dag' = "COMPLETED" =>
       \A n \in Node : Type[n] # "GATE" => node[n].state \in Done]_vars

\* A QA is approved by a verdict on the TASK's current artifact.
ApprovalIsCurrent ==
  [][\A r \in Run : Type[run[r].node] = "QA" /\ run[r].pc \in {"pass", "approve"}
        /\ run'[r].pc # run[r].pc => run[r].seen = art[Pair[run[r].node]]]_vars

\* A gate opens only when the nodes it waits for are done in the table.
GateJustified ==
  [][\A n \in Node : Type[n] = "GATE" /\ node'[n].state # node[n].state
        /\ node'[n].state \in {"AWAITING_APPROVAL", "COMPLETED"}
        => DepsDone(node, n)]_vars

\* Every DAG comes to rest.  (Without "budget", that is: a TASK that stays over
\* its budget goes round and round.)
Terminates == <>[]Quiescent

\* The legend of the states: a node over its budget becomes SUSPENDED, and so
\* waits for an operator instead of running over its budget again.
OverBudgetSuspends ==
  \A n \in Node :
    (\E r \in Run : run[r].pc = "over" /\ run[r].node = n) ~> node[n].state = "SUSPENDED"

\* Without failures every DAG is carried through to COMPLETED, although each
\* first approval sends its own TASK and QA back once.
Converges ==
  <>[](dag = "COMPLETED" /\ \A n \in Node : node[n].state \in Done)
=============================================================================
