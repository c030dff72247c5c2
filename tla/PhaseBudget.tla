---------------------------- MODULE PhaseBudget ----------------------------
(***************************************************************************)
(* Token budgets of the phases: BudgetEnforcer (src/engine/core/           *)
(* budget_enforcer.py) checks a prompt before the call and records what    *)
(* the call used; when the check fails the executor asks try_budget_realloc*)
(* (src/engine/core/budget_scaler.py) to move budget from another phase    *)
(* and runs the node again.  The reallocation reads and writes in five     *)
(* statements without a transaction.  Amounts are in 100 000 tokens.       *)
(***************************************************************************)
EXTENDS FiniteSets, Integers

CONSTANTS Node,
          PhaseOf,         \* [node -> its phase]
          Allotted,        \* [phase -> its limit at first]
          Shortage,        \* what the executor asks for
          MaxReallocs,     \* MAX_REALLOC_PER_ENGAGEMENT
          MaxUse           \* bound: what one call uses

Phase == {"DEFINE", "DESIGN", "BUILD", "VERIFY", "DELIVER"}
Donors == <<"DELIVER", "VERIFY", "DEFINE">>

ASSUME BudgetAssumption ==
  /\ IsFiniteSet(Node) /\ Node # {}
  /\ PhaseOf \in [Node -> Phase] /\ Allotted \in [Phase -> Nat]
  /\ {Shortage, MaxReallocs, MaxUse} \subseteq Nat

VARIABLES override,   \* engagements.phase_budget_override
          usage,      \* agent_token_usage, summed by phase
          log,        \* rows of budget_realloc_log
          long,       \* the nodes whose prompt is past max_input
          node        \* [Node -> its state and what its reallocation has read]

budgetVars == <<override, usage, log, long, node>>

Unused == [p \in Phase |-> 0]

Fresh == [state |-> "NOT_STARTED", usage |-> Unused, override |-> Unused]

BudgetInit ==
  /\ override = Allotted /\ usage = Unused /\ log = 0
  /\ long \in SUBSET Node /\ node = [n \in Node |-> Fresh]

Is(n, state) == node[n].state = state
Becomes(n, state) == node' = [node EXCEPT ![n] = [Fresh EXCEPT !.state = state]]

\* pre_call_check, level 1: the estimate against max_input; the limit of the
\* phase is not looked at.
PreCall(n) == /\ Is(n, "NOT_STARTED")
              /\ Becomes(n, IF n \in long THEN "over" ELSE "calling")
              /\ UNCHANGED <<override, usage, log, long>>

\* post_call_record: the use is recorded and then compared with the limit; the
\* executor has saved the artifact and only logs the error.
Record(n) == /\ Is(n, "calling") /\ Becomes(n, "COMPLETED")
             /\ \E used \in 1..MaxUse :
                  usage' = [usage EXCEPT ![PhaseOf[n]] = @ + used]
             /\ UNCHANGED <<override, log, long>>

(***************************************************************************)
(* try_budget_realloc, one step for each statement.                        *)
(***************************************************************************)
\* Mutant: the number of earlier reallocations does not matter.
MayReallocAlways == TRUE

MayRealloc == log < MaxReallocs

Count(n) == /\ Is(n, "over") /\ Becomes(n, IF MayRealloc THEN "counted" ELSE "BLOCKED")
            /\ UNCHANGED <<override, usage, log, long>>
ReadUsage(n) == /\ Is(n, "counted")
                /\ node' = [node EXCEPT ![n].state = "used", ![n].usage = usage]
                /\ UNCHANGED <<override, usage, log, long>>
ReadLimit(n) == /\ Is(n, "used")
                /\ node' = [node EXCEPT ![n].state = "read", ![n].override = override]
                /\ UNCHANGED <<override, usage, log, long>>

Available(n, p) == node[n].override[p] - node[n].usage[p]
\* The phases with a fifth more than the shortage to spare, by what they have;
\* of two that have as much the first.
Able(n) == {i \in 1..3 : /\ Donors[i] # PhaseOf[n]
                         /\ 10 * Available(n, Donors[i]) > 12 * Shortage}
Chosen(n, i) == /\ i \in Able(n)
                /\ \A j \in Able(n) :
                     LET more == Available(n, Donors[i]) - Available(n, Donors[j])
                     IN  more > 0 \/ (more = 0 /\ i <= j)
\* One and a half times the shortage moves, more than was asked of the donor.
Transfer == (3 * Shortage) \div 2

Write(n) == /\ Is(n, "read")
            /\ \E i \in 1..3 :
                 /\ Chosen(n, i)
                 /\ override' = [node[n].override EXCEPT ![Donors[i]] = @ - Transfer,
                                                        ![PhaseOf[n]] = @ + Transfer]
            /\ Becomes(n, "moved")
            /\ UNCHANGED <<usage, log, long>>
NoDonor(n) == /\ Is(n, "read") /\ Able(n) = {} /\ Becomes(n, "BLOCKED")
              /\ UNCHANGED <<override, usage, log, long>>
\* The row of the log, and the executor's reset of the node.
Log(n) == /\ Is(n, "moved") /\ log' = log + 1 /\ Becomes(n, "NOT_STARTED")
          /\ UNCHANGED <<override, usage, long>>

BudgetNext == \E n \in Node : \/ PreCall(n) \/ Record(n) \/ Count(n) \/ ReadUsage(n)
                              \/ ReadLimit(n) \/ Write(n) \/ NoDonor(n) \/ Log(n)

BudgetSpec == BudgetInit /\ [][BudgetNext]_budgetVars

(***************************************************************************)
(* Properties.                                                             *)
(***************************************************************************)
Total(limits) == limits["DEFINE"] + limits["DESIGN"] + limits["BUILD"]
                   + limits["VERIFY"] + limits["DELIVER"]

\* Reallocation moves budget and makes none, and runs nodes again a bounded
\* number of times: whatever reallocations interleave and overwrite each
\* other, the limits add up to the engagement's budget, and each node can add
\* at most one row past the two that are allowed.
BudgetKept == /\ Total(override) = Total(Allotted)
              /\ log <= MaxReallocs + Cardinality(Node) - 1
=============================================================================
