--------------------------- MODULE OperatedProofs ---------------------------
(***************************************************************************)
(* Proofs about the engine with operators at work: for every graph, every  *)
(* outcome and every number of requests at once, types, the semaphore, the *)
(* separation of gates from tasks, and that an approval decides the row    *)
(* its handler has read.                                                   *)
(***************************************************************************)
EXTENDS ExecutorProofs, Revision

\* Where a handler writes the row of a TASK, or of its QA, without a new version.
OnTask == {"feedback_qa", "retry_qa", "reopen_qa", "skip_pair",
           "revise_take", "revise_call", "revise_save", "revise_cascade", "revise_dag",
           "revise_end", "revise_mend", "revise_qa", "revise_run",
           "edit_save", "edit_judge", "edit_cascade", "edit_enqueue", "edit_end",
           "edit_mend", "edit_qa", "revalidate_pair", "revalidate_qa"}

\* Where it does not.
Elsewhere == {"idle", "enqueue", "feedback", "skip", "retry_full", "retry_read", "retry_again",
              "retry_check", "retry_write", "suspend", "resume", "start_dag", "start", "repair",
              "repair_dag", "revalidate"}

\* Where it has a list of TASKs to make again.
Revalidating == {"revalidate", "revalidate_pair", "revalidate_qa"}

HandlerPc == {"approve", "feedback_task"} \union Elsewhere \union OnTask

Handler == [pc : HandlerPc, node : Node, row : Row, todo : SUBSET Node, seen : Nat]

Local(h) ==
  /\ h.pc \in OnTask => Type[h.node] = "TASK"
  /\ h.pc \in {"feedback_task", "feedback_qa"} => h.todo \subseteq Build
  /\ h.pc \in Revalidating => \A t \in h.todo : Type[t] = "TASK"

HandlerTypes == op \in [Client -> Handler] /\ \A c \in Client : Local(op[c])

\* The handler has read a gate that waits for approval, and the row is as it was
\* or has had a version since.
Shown ==
  \A c \in Client : op[c].pc = "approve" =>
    LET n == op[c].node
    IN  /\ IsGate(n)
        /\ op[c].row.state = "AWAITING_APPROVAL"
        /\ op[c].row.version <= node[n].version
        /\ op[c].row.version = node[n].version => node[n] = op[c].row

\* Only gates wait for approval, and only the advancer makes them.
Awaits ==
  /\ \A r \in Run : run[r].to # "AWAITING_APPROVAL"
  /\ \A n \in Node : node[n].state = "AWAITING_APPROVAL" => IsGate(n)
  /\ adv.pc \in {"cas", "reload"} /\ adv.to = "AWAITING_APPROVAL" => IsGate(Order[adv.i])

OperatedInv == TypeOK /\ SlotsBounded /\ GatesApart /\ HandlerTypes /\ Shown /\ Awaits

\* What a step may do to the rows: versions only grow, only a gate comes to
\* wait for approval, and one that waits is not touched under its version.
RowMoves ==
  \A n \in Node :
    /\ node[n].version <= node'[n].version
    /\ node'[n].state = "AWAITING_APPROVAL" => IsGate(n)
    /\ /\ IsGate(n) /\ node[n].state = "AWAITING_APPROVAL"
       /\ node'[n].version = node[n].version
       => node'[n] = node[n]

\* ... and an operator makes no gate FAILED.
Moved ==
  /\ node' \in [Node -> Row]
  /\ RowMoves
  /\ \A n \in Node : IsGate(n) => node'[n].state \in GateState

-----------------------------------------------------------------------------
(* Rows *)

LEMMA RowsStay ==
  ASSUME TypeOK, Awaits, UNCHANGED node
  PROVE  RowMoves
BY DEF TypeOK, Awaits, RowMoves, Row

\* One row is written.
LEMMA OneRow ==
  ASSUME TypeOK, Awaits, node' \in [Node -> Row], NEW m \in Node,
         \A n \in Node \ {m} : node'[n] = node[n],
         node[m].version <= node'[m].version,
         node'[m].state = "AWAITING_APPROVAL" => IsGate(m),
         IsGate(m) /\ node[m].state = "AWAITING_APPROVAL"
           /\ node'[m].version = node[m].version => node'[m] = node[m]
  PROVE  RowMoves
<1>1. \A n \in Node : node[n].version \in Nat
  BY DEF TypeOK, Row
<1> QED BY <1>1 DEF Awaits, RowMoves

LEMMA Writes ==
  ASSUME TypeOK, Awaits, NEW m \in Node, NEW s \in NodeState
  PROVE  /\ Write(m, s) /\ ~IsGate(m) /\ s # "AWAITING_APPROVAL" => RowMoves
         /\ WriteBump(m, s) /\ (s = "AWAITING_APPROVAL" => IsGate(m)) => RowMoves
<1>0. node \in [Node -> Row] /\ node[m] \in Row /\ node[m].version \in Nat
  BY DEF TypeOK, Row
<1>1. ASSUME Write(m, s) /\ ~IsGate(m) /\ s # "AWAITING_APPROVAL" PROVE RowMoves
  <2>1. node' \in [Node -> Row]
    BY <1>0, <1>1, WriteType
  <2>2. /\ \A n \in Node \ {m} : node'[n] = node[n]
        /\ node'[m].state = s /\ node'[m].version = node[m].version
    BY <1>0, <1>1 DEF Write, Row
  <2> QED BY <1>0, <1>1, <2>1, <2>2, OneRow
<1>2. ASSUME WriteBump(m, s) /\ (s = "AWAITING_APPROVAL" => IsGate(m)) PROVE RowMoves
  <2>1. node' \in [Node -> Row]
    BY <1>0, <1>2, WriteType
  <2>2. /\ \A n \in Node \ {m} : node'[n] = node[n]
        /\ node'[m].state = s /\ node'[m].version = node[m].version + 1
    BY <1>0, <1>2 DEF WriteBump, Row
  <2> QED BY <1>0, <1>2, <2>1, <2>2, OneRow
<1> QED BY <1>1, <1>2

LEMMA ReopenMoves ==
  ASSUME TypeOK, Awaits, NEW q, ReopenGates(q)
  PROVE  RowMoves
<1>1. \A n \in Node : node[n] \in Row /\ node[n].version \in Nat
  BY DEF TypeOK, Row
<1>2. \A n \in Node :
        \/ node'[n] = node[n]
        \/ /\ node[n].state = "COMPLETED"
           /\ node'[n].state = "NOT_STARTED" /\ node'[n].version = node[n].version
  BY <1>1 DEF ReopenGates, Row
<1> QED BY <1>1, <1>2 DEF Awaits, RowMoves

-----------------------------------------------------------------------------
(* The engine *)

LEMMA RunMoves ==
  ASSUME TypeOK, GatesApart, Awaits, NEW r \in Run, RunNodeSafe(r)
  PROVE  RowMoves
<1> DEFINE n == run[r].node
<1>1. n \in Node /\ ~IsGate(n) /\ run[r] \in Task /\ node \in [Node -> Row]
  <2>1. run[r].pc # "free"
    BY DEF RunNodeSafe, Acquire, Success, LimitReached, CountRetry, RunTransition, RunReload
  <2> QED BY <2>1, TaskNode DEF GatesApart, TypeOK
<1>2. CASE UNCHANGED node
  BY <1>2, RowsStay
<1>3. CASE LimitReached(r)
  BY <1>1, <1>3, Writes DEF LimitReached, NodeState
<1>4. CASE CountRetry(r)
  <2>1. node' = [node EXCEPT ![n].retry = run[r].row.retry + 1]
    BY <1>4 DEF CountRetry
  <2>2. run[r].row.retry + 1 \in Nat
    BY <1>1 DEF Task, Row
  <2>3. \A x \in Nat : node' = [node EXCEPT ![n].retry = x] =>
          /\ node' \in [Node -> Row]
          /\ \A m \in Node \ {n} : node'[m] = node[m]
          /\ node'[n].state = node[n].state /\ node'[n].version = node[n].version
    BY <1>1 DEF Row
  <2>4. node[n].version \in Nat /\ node[n].state # "AWAITING_APPROVAL"
    BY <1>1 DEF Row, Awaits
  <2>5. /\ node' \in [Node -> Row]
        /\ \A m \in Node \ {n} : node'[m] = node[m]
        /\ node'[n].state = node[n].state /\ node'[n].version = node[n].version
    BY <2>1, <2>2, <2>3
  <2> HIDE DEF n
  <2> QED BY <1>1, <2>4, <2>5, OneRow
<1>5. CASE RunTransition(r)
  <2>1. CASE WriteBump(n, run[r].to)
    <3>1. run[r].to \in NodeState
      BY <1>1 DEF Task
    <3>2. run[r].to # "AWAITING_APPROVAL"
      BY DEF Awaits
    <3> QED BY <1>1, <2>1, <3>1, <3>2, Writes
  <2> QED BY <1>2, <1>5, <2>1 DEF RunTransition
<1> QED BY <1>2, <1>3, <1>4, <1>5 DEF RunNodeSafe, Acquire, Success, RunReload

LEMMA ExecuteMoves ==
  ASSUME TypeOK, GatesApart, Awaits, NEW r \in Run, ExecuteNode(r)
  PROVE  RowMoves
<1> DEFINE n == run[r].node
<1>1. /\ n \in Node /\ ~IsGate(n) /\ Pair[n] \in Node /\ ~IsGate(Pair[n])
      /\ node \in [Node -> Row]
  BY ExecuteNodeRun, TaskNode DEF GatesApart, TypeOK
<1>2. CASE UNCHANGED node
  BY <1>2, RowsStay
<1>3. ASSUME NEW m \in {n, Pair[n]},
             NEW s \in {"SUSPENDED", "BLOCKED", "COMPLETED", "NOT_STARTED", "INVALID"},
             Write(m, s) \/ WriteBump(m, s)
      PROVE  RowMoves
  BY <1>1, <1>3, Writes DEF NodeState
<1>4. CASE EarlyReopenGates(r)
  BY <1>4, ReopenMoves DEF EarlyReopenGates
<1>5. CASE EarlyInvalidate(r)
  <2>1. CASE node' = [node EXCEPT ![n].state = "INVALID", ![n].retry = 0]
    <3>1. /\ node' \in [Node -> Row]
          /\ \A m \in Node \ {n} : node'[m] = node[m]
          /\ node'[n].state = "INVALID" /\ node'[n].version = node[n].version
      BY <1>1, <2>1 DEF Row, NodeState
    <3>2. node[n].version \in Nat
      BY <1>1 DEF Row
    <3> QED BY <1>1, <3>1, <3>2, OneRow
  <2> QED BY <1>2, <1>5, <2>1 DEF EarlyInvalidate
<1>6. CASE StallGuard(r) \/ PairGuard(r) \/ DepGuard(r) \/ SuspendWrite(r)
           \/ BlockWrite(r) \/ Work(r) \/ BuildProgrammatic(r) \/ BudgetWrite(r)
           \/ Complete(r) \/ ReviveQa(r)
  BY <1>2, <1>3, <1>6 DEF StallGuard, PairGuard, DepGuard, SuspendWrite, BlockWrite,
                          Work, BuildProgrammatic, BudgetWrite, Complete, ReviveQa
<1>7. CASE Inspect(r) \/ CheckStamp(r) \/ Judge(r) \/ RejectSelf(r) \/ RejectCompleted(r)
           \/ RejectTask(r) \/ Cascade(r) \/ EarlyResetPair(r)
  BY <1>2, <1>3, <1>7 DEF Inspect, CheckStamp, Judge, RejectSelf, RejectCompleted,
                          RejectTask, Cascade, EarlyResetPair
<1>8. CASE SendsBack(r)
  <2>1. \A m \in Node : node[m].version \in Nat
    BY DEF TypeOK, Row
  <2> QED BY <1>8, <2>1, SendsBackStep DEF RowsSentBack, Invalidated, Awaits, RowMoves
<1> QED BY <1>4, <1>5, <1>6, <1>7, <1>8 DEF ExecuteNode, SendsBack

LEMMA CascadeMoves ==
  ASSUME TypeOK, GatesApart, Awaits, NEW q \in Node, CascadeForNode(q)
  PROVE  RowMoves
<1>1. node \in [Node -> Row] /\ node[q] \in Row /\ node[q].version \in Nat
  BY DEF TypeOK, Row
<1>2. CASE UNCHANGED node
  BY <1>2, RowsStay
<1>3. CASE CascadeApply(q)
  BY <1>2, <1>3, Writes DEF CascadeApply, NodeState
<1>4. CASE CascadeResetRetry(q)
  <2>1. CASE node[q].state = "INVALID" /\ node' = [node EXCEPT ![q].retry = 0]
    <3>1. /\ node' \in [Node -> Row]
          /\ \A m \in Node \ {q} : node'[m] = node[m]
          /\ node'[q].state = node[q].state /\ node'[q].version = node[q].version
      BY <1>1, <2>1 DEF Row
    <3>2. /\ node[q].state # "AWAITING_APPROVAL" /\ node'[q].state # "AWAITING_APPROVAL"
          /\ node[q].version <= node'[q].version
      BY <1>1, <2>1, <3>1
    <3> QED BY <1>1, <3>1, <3>2, OneRow
  <2> QED BY <1>2, <1>4, <2>1 DEF CascadeResetRetry
<1>5. CASE CascadeReopenGates(q)
  BY <1>5, ReopenMoves DEF CascadeReopenGates
<1> QED BY <1>2, <1>3, <1>4, <1>5 DEF CascadeForNode, CascadeRead, CascadeEnqueue, engine

\* What the advancer does after a transition of its node.
LEMMA ReturnAwaits ==
  ASSUME TypeOK, GatesApart, Awaits, adv.pc \in {"cas", "reload"}, NEW row, Return(row)
  PROVE  /\ adv'.pc \in {"cas", "reload"} /\ adv'.to = "AWAITING_APPROVAL"
              => IsGate(Order[adv'.i])
         /\ \A r \in Run : run'[r].to # "AWAITING_APPROVAL"
<1> DEFINE m    == Order[adv.i]
           what == Follow(m, adv.to, row.state, adv.launch)
           snap == [adv.snap EXCEPT ![m] = row]
<1>0. run \in [Run -> Task] /\ Free.to = "READY" /\ adv \in Advancer
  BY DEF TypeOK, Free
<1>1. what = "AWAITING_APPROVAL" => IsGate(m)
  BY DEF Follow, IsGate
<1> HIDE DEF what, snap, m
<1>2. CASE /\ what = "NEXT"
           /\ adv' = [adv EXCEPT !.pc = "eval", !.snap = snap, !.i = @ + 1]
           /\ UNCHANGED run
  <2>1. adv'.pc = "eval"
    BY <1>0, <1>2 DEF Advancer
  <2> QED BY <1>2, <2>1 DEF Awaits
<1>3. CASE /\ what = "LAUNCH"
           /\ Start(m, row)
           /\ adv' = [adv EXCEPT !.pc = "eval", !.snap = snap, !.i = @ + 1,
                        !.count = IF adv.launch = "counted" THEN @ + 1 ELSE @]
  <2>1. adv'.pc = "eval"
    BY <1>0, <1>3 DEF Advancer
  <2>2. PICK r \in FreeRuns :
          run' = [run EXCEPT ![r] = [Free EXCEPT !.pc = "queued", !.node = m,
                                                 !.row = row]]
    BY <1>3 DEF Start
  <2>3. run'[r].to = "READY" /\ \A s \in Run \ {r} : run'[s] = run[s]
    BY <1>0, <2>2, FreeType DEF Task, FreeRuns
  <2> QED BY <2>1, <2>3 DEF Awaits
<1>4. CASE /\ what \in NodeState
           /\ adv' = [adv EXCEPT !.pc = "cas", !.snap = snap, !.to = what,
                                 !.tries = 0]
           /\ UNCHANGED run
  <2>1. adv'.i = adv.i /\ adv'.to = what
    BY <1>0, <1>4 DEF Advancer
  <2> QED BY <1>1, <1>4, <2>1 DEF Awaits, m
<1> QED BY <1>2, <1>3, <1>4 DEF Return, what, snap, m

LEMMA AdvanceMoves ==
  ASSUME TypeOK, GatesApart, Awaits, Advance
  PROVE  /\ RowMoves
         /\ adv'.pc \in {"cas", "reload"} /\ adv'.to = "AWAITING_APPROVAL"
              => IsGate(Order[adv'.i])
         /\ \A r \in Run : run'[r].to # "AWAITING_APPROVAL"
<1>0. adv \in Advancer /\ node \in [Node -> Row] /\ run \in [Run -> Task]
  BY DEF TypeOK
<1>1. CASE Dequeue \/ Load \/ Finish
  <2>1. adv'.pc \in {"wait", "load", "eval"} /\ UNCHANGED <<node, run>>
    BY <1>0, <1>1, WaitingType DEF Dequeue, Load, Finish, Advancer
  <2> QED BY <2>1, RowsStay DEF Awaits
<1>2. CASE Evaluate
  <2> DEFINE plan == Plan(Order[adv.i])
  <2>1. /\ UNCHANGED <<node, run>> /\ adv.pc = "eval"
        /\ adv' = IF plan.to = "none" THEN [adv EXCEPT !.i = @ + 1]
                  ELSE [adv EXCEPT !.pc = "cas", !.to = plan.to, !.tries = 0,
                                   !.launch = plan.launch]
    BY <1>2 DEF Evaluate
  <2>2. plan.to # "AWAITING_APPROVAL"
    BY DEF Plan
  <2> HIDE DEF plan
  <2>3. adv'.pc = "eval" \/ adv'.to = plan.to
    BY <1>0, <2>1 DEF Advancer
  <2> QED BY <2>1, <2>2, <2>3, RowsStay DEF Awaits
<1>3. CASE Transition
  <2> DEFINE m    == Order[adv.i]
             done == [adv.snap[m] EXCEPT !.state = adv.to, !.version = @ + 1]
  <2>1. m \in Node /\ adv.pc = "cas" /\ adv.to \in NodeState
    BY <1>0, <1>3, InOrder DEF Transition, TypeOK, Advancer
  <2>2. CASE adv' = Waiting /\ UNCHANGED <<node, run>>
    BY <2>2, WaitingType, RowsStay DEF Awaits
  <2>3. CASE WriteBump(m, adv.to) /\ Return(done)
    <3>1. RowMoves
      BY <2>1, <2>3, Writes DEF Awaits
    <3> QED BY <2>1, <2>3, <3>1, ReturnAwaits
  <2>4. CASE adv' = [adv EXCEPT !.pc = "reload"] /\ UNCHANGED <<node, run>>
    <3>1. adv'.i = adv.i /\ adv'.to = adv.to
      BY <1>0, <2>4 DEF Advancer
    <3> QED BY <2>1, <2>4, <3>1, RowsStay DEF Awaits
  <2> QED BY <1>3, <2>2, <2>3, <2>4 DEF Transition
<1>4. CASE Reload
  <2> DEFINE m   == Order[adv.i]
             row == Adopted(adv.snap[m], node[m])
  <2>1. adv.pc = "reload" /\ RowMoves
    BY <1>4, RowsStay DEF Reload
  <2>2. CASE Return(row)
    BY <2>1, <2>2, ReturnAwaits
  <2>3. CASE adv' = [adv EXCEPT !.pc = "cas", !.snap[m] = row, !.tries = @ + 1]
             /\ UNCHANGED run
    <3>1. adv'.i = adv.i /\ adv'.to = adv.to
      BY <1>0, <2>3 DEF Advancer
    <3> QED BY <2>1, <2>3, <3>1 DEF Awaits
  <2> QED BY <1>4, <2>2, <2>3 DEF Reload
<1> QED BY <1>1, <1>2, <1>3, <1>4 DEF Advance

\* A task never asks for an approval.
LEMMA TaskAwaits ==
  ASSUME TypeOK, Awaits, NEW r \in Run, Execute(r)
  PROVE  \A s \in Run : run'[s].to # "AWAITING_APPROVAL"
<1>0. run \in [Run -> Task] /\ Free.to = "READY"
  BY DEF TypeOK, Free
<1>1. \A pc : Goto(r, pc) => \A s \in Run : run'[s].to = run[s].to
  BY <1>0 DEF Goto, Task
<1>2. CASE Acquire(r) \/ Success(r) \/ LimitReached(r) \/ CountRetry(r)
  BY <1>0, <1>1, <1>2 DEF Acquire, Success, LimitReached, CountRetry, Task, Awaits
<1>3. CASE RunTransition(r) \/ RunReload(r)
  BY <1>0, <1>1, <1>3 DEF RunTransition, RunReload, Task, Awaits
<1>4. CASE StallGuard(r) \/ PairGuard(r) \/ DepGuard(r) \/ SuspendWrite(r) \/ BlockWrite(r)
           \/ Work(r) \/ BuildProgrammatic(r) \/ BudgetWrite(r) \/ Complete(r) \/ ReviveQa(r)
           \/ Judge(r)
  BY <1>1, <1>4 DEF StallGuard, PairGuard, DepGuard, SuspendWrite, BlockWrite, Work,
       CallFails, BuildProgrammatic, BudgetWrite, Complete, ReviveQa, Judge, Awaits
<1>5. CASE RejectSelf(r) \/ RejectCompleted(r) \/ RejectTask(r) \/ Cascade(r)
           \/ EarlyInvalidate(r) \/ EarlyResetPair(r) \/ EarlyReopenGates(r)
  BY <1>1, <1>5 DEF RejectSelf, RejectCompleted, RejectTask, Cascade, EarlyInvalidate,
       EarlyResetPair, EarlyReopenGates, Awaits
<1>6. CASE Inspect(r) \/ CheckStamp(r)
  BY <1>0, <1>6 DEF Inspect, CheckStamp, Task, Awaits
<1>7. CASE SendsBack(r)
  BY <1>7, SendsBackStep DEF ListNoted, Awaits
<1> QED BY <1>2, <1>3, <1>4, <1>5, <1>6, <1>7 DEF Execute, ExecuteNode, SendsBack, RunNodeSafe

LEMMA EngineMoves ==
  ASSUME TypeOK, GatesApart, Awaits, [Next]_vars
  PROVE  RowMoves /\ Awaits'
<1>1. CASE Advance
  BY <1>1, AdvanceMoves DEF Awaits, RowMoves
<1>2. ASSUME NEW r \in Run, Execute(r) PROVE RowMoves /\ Awaits'
  <2>1. UNCHANGED adv
    BY <1>2 DEF Execute, RunNodeSafe, Acquire, Success, LimitReached, CountRetry, RunTransition,
         RunReload, ExecuteNode, StallGuard, PairGuard, DepGuard, SuspendWrite, BlockWrite, Work,
         BuildProgrammatic, BudgetWrite, FindDefects, SendBack, SendBackQa, SendBackGate,
         Complete, ReviveQa, Inspect, CheckStamp, Judge, RejectSelf, RejectCompleted, RejectTask, Cascade, EarlyInvalidate, EarlyResetPair, EarlyReopenGates
  <2>2. RowMoves
    BY <1>2, RunMoves, ExecuteMoves DEF Execute
  <2> QED BY <1>2, <2>1, <2>2, TaskAwaits DEF Awaits, RowMoves
<1>3. ASSUME NEW q \in Node, CascadeForNode(q) PROVE RowMoves /\ Awaits'
  <2>1. UNCHANGED <<adv, run>>
    BY <1>3 DEF CascadeForNode, CascadeRead, CascadeApply, CascadeResetRetry,
         CascadeReopenGates, CascadeEnqueue, engine
  <2> QED BY <1>3, <2>1, CascadeMoves DEF Awaits, RowMoves
<1>4. CASE UNCHANGED vars
  BY <1>4, RowsStay DEF vars, engine, Awaits
<1> QED BY <1>1, <1>2, <1>3, <1>4 DEF Next, Poll

-----------------------------------------------------------------------------
(* What the operators write *)

LEMMA RowsMoved ==
  ASSUME TypeOK, GatesApart, Awaits, UNCHANGED node
  PROVE  Moved
BY RowsStay DEF Moved, TypeOK, GatesApart

\* The states operators give.
Given == {"COMPLETED", "NOT_STARTED", "INVALID", "SKIPPED", "READY", "SUSPENDED",
          "BLOCKED", "IN_PROGRESS"}

LEMMA Puts ==
  ASSUME TypeOK, GatesApart, Awaits
  PROVE  \A m \in Node : \A s \in Given :
           /\ Write(m, s) /\ ~IsGate(m) => Moved
           /\ WriteBump(m, s) => Moved
           /\ node' = [node EXCEPT ![m].state = s, ![m].retry = 0] /\ ~IsGate(m) => Moved
           /\ node' = [node EXCEPT ![m] = [state |-> s, retry |-> 0, version |-> @.version + 1]]
                => Moved
<1> SUFFICES ASSUME NEW m \in Node, NEW s \in Given
             PROVE  /\ Write(m, s) /\ ~IsGate(m) => Moved
                    /\ WriteBump(m, s) => Moved
                    /\ node' = [node EXCEPT ![m].state = s, ![m].retry = 0] /\ ~IsGate(m) => Moved
                    /\ node' = [node EXCEPT ![m] = [state |-> s, retry |-> 0,
                                                    version |-> @.version + 1]]
                         => Moved
  OBVIOUS
<1>0. /\ node \in [Node -> Row] /\ node[m].version \in Nat
      /\ s \in NodeState /\ s # "FAILED" /\ s # "AWAITING_APPROVAL"
  BY DEF TypeOK, Row, Given, NodeState
<1>1. ASSUME node' \in [Node -> Row],
             \A n \in Node \ {m} : node'[n] = node[n],
             node'[m].state = s,
             \/ node'[m].version = node[m].version /\ ~IsGate(m)
             \/ node'[m].version = node[m].version + 1
      PROVE  Moved
  <2>1. RowMoves
    BY <1>0, <1>1, OneRow
  <2>2. \A n \in Node : IsGate(n) => node'[n].state \in GateState
    BY <1>0, <1>1 DEF GatesApart, GateState
  <2> QED BY <1>1, <2>1, <2>2 DEF Moved
<1>2. ASSUME Write(m, s), ~IsGate(m) PROVE Moved
  <2>1. /\ node' \in [Node -> Row] /\ \A n \in Node \ {m} : node'[n] = node[n]
        /\ node'[m].state = s /\ node'[m].version = node[m].version
    BY <1>0, <1>2 DEF Write, Row
  <2> QED BY <1>1, <1>2, <2>1
<1>3. ASSUME WriteBump(m, s) PROVE Moved
  <2>1. /\ node' \in [Node -> Row] /\ \A n \in Node \ {m} : node'[n] = node[n]
        /\ node'[m].state = s /\ node'[m].version = node[m].version + 1
    BY <1>0, <1>3 DEF WriteBump, Row
  <2> QED BY <1>1, <2>1
<1>4. ASSUME node' = [node EXCEPT ![m].state = s, ![m].retry = 0], ~IsGate(m) PROVE Moved
  <2>1. /\ node' \in [Node -> Row] /\ \A n \in Node \ {m} : node'[n] = node[n]
        /\ node'[m].state = s /\ node'[m].version = node[m].version
    BY <1>0, <1>4 DEF Row
  <2> QED BY <1>1, <1>4, <2>1
<1>5. ASSUME node' = [node EXCEPT ![m] = [state |-> s, retry |-> 0, version |-> @.version + 1]]
      PROVE  Moved
  <2>1. /\ node' \in [Node -> Row] /\ \A n \in Node \ {m} : node'[n] = node[n]
        /\ node'[m].state = s /\ node'[m].version = node[m].version + 1
    BY <1>0, <1>5 DEF Row
  <2> QED BY <1>1, <2>1
<1> QED BY <1>2, <1>3, <1>4, <1>5

\* Several rows at once, with new versions.
LEMMA PutsAll ==
  ASSUME TypeOK, GatesApart, Awaits, NEW S, NEW s \in Given
  PROVE  node' = [n \in Node |-> IF n \in S
                                 THEN [node[n] EXCEPT !.state = s, !.version = @ + 1]
                                 ELSE node[n]]
           => Moved
<1> DEFINE new(n) == [node[n] EXCEPT !.state = s, !.version = @ + 1]
           all    == [n \in Node |-> IF n \in S THEN new(n) ELSE node[n]]
<1>0. /\ s \in NodeState /\ s # "FAILED" /\ s # "AWAITING_APPROVAL"
      /\ node \in [Node -> Row]
  BY DEF TypeOK, Given, NodeState
<1>1. \A n \in Node : /\ node[n].version \in Nat
                      /\ new(n) \in Row /\ new(n).state = s
                      /\ new(n).version = node[n].version + 1
  <2>1. ASSUME NEW old \in Row
        PROVE  LET next == [old EXCEPT !.state = s, !.version = @ + 1]
               IN  /\ old.version \in Nat
                   /\ next \in Row /\ next.state = s /\ next.version = old.version + 1
    <3>1. old.version \in Nat /\ old.version + 1 \in Nat
      BY DEF Row
    <3> QED BY <1>0, <3>1 DEF Row
  <2> QED BY <1>0, <2>1
<1> HIDE DEF new
<1>2. ASSUME node' = all PROVE Moved
  <2>1. \A n \in Node : node'[n] = new(n) \/ node'[n] = node[n]
    BY <1>2
  <2>2. node' \in [Node -> Row]
    BY <1>0, <1>1, <1>2
  <2> HIDE DEF all
  <2>3. RowMoves
    BY <1>0, <1>1, <2>1 DEF Awaits, RowMoves
  <2>4. \A n \in Node : IsGate(n) => node'[n].state \in GateState
    BY <1>0, <1>1, <2>1 DEF GatesApart, GateState
  <2> QED BY <2>2, <2>3, <2>4 DEF Moved
<1> QED BY <1>2 DEF new

\* The TASK a handler is at, and its QA, are not gates.
LEMMA HandlerTask ==
  ASSUME HandlerTypes, NEW c \in Client
  PROVE  /\ op[c].node \in Node /\ op[c].todo \subseteq Node /\ op[c].seen \in Nat
         /\ op[c].pc \in OnTask =>
              /\ ~IsGate(op[c].node)
              /\ Pair[op[c].node] \in Node /\ ~IsGate(Pair[op[c].node])
<1>1. op[c] \in Handler /\ Local(op[c])
  BY DEF HandlerTypes
<1> QED BY <1>1, GraphAssumption DEF Handler, Local, IsGate

LEMMA HandleMoved ==
  ASSUME TypeOK, GatesApart, Awaits, HandlerTypes, NEW c \in Client, Handle(c)
  PROVE  Moved
<1> DEFINE n == op[c].node
<1>1. n \in Node /\ op[c].todo \subseteq Node
  BY HandlerTask
<1>2. op[c].pc \in OnTask => ~IsGate(n) /\ Pair[n] \in Node /\ ~IsGate(Pair[n])
  BY HandlerTask
<1>3. CASE UNCHANGED node
  BY <1>3, RowsMoved
<1>4. CASE ApproveWrite(c) \/ SkipWrite(c) \/ RetryInvalidate(c) \/ SuspendNode(c) \/ ResumeNode(c)
  BY <1>1, <1>3, <1>4, Puts DEF ApproveWrite, SkipWrite, RetryInvalidate, SuspendNode, ResumeNode, Given
<1>5. CASE SkipPair(c) \/ FeedbackQa(c) \/ ReopenQa(c)
  BY <1>2, <1>5, Puts DEF SkipPair, FeedbackQa, ReopenQa, At, OnTask, Given
<1>6. CASE FeedbackTask(c)
  <2>1. op[c].todo \subseteq Build
    BY <1>6 DEF FeedbackTask, At, HandlerTypes, Local
  <2>2. \A t \in Build : t \in Node /\ ~IsGate(t)
    BY RequestAssumption DEF IsGate
  <2> QED BY <1>3, <1>6, <2>1, <2>2, Puts DEF FeedbackTask, Given
<1>7. CASE RetryQaOnly(c)
  BY <1>1, <1>2, <1>3, <1>7, Puts DEF RetryQaOnly, At, OnTask, Given
<1>8. CASE RetryWrite(c)
  BY <1>1, <1>3, <1>8, Puts DEF RetryWrite, Given
<1>9. CASE StartReady(c)
  <2>0. \A m \in Node : node[m] \in Row /\ node[m].version \in Nat
    BY DEF TypeOK, Row
  <2>1. \A m \in Node : \/ node'[m] = node[m]
                        \/ /\ node'[m] \in Row /\ node'[m].state = "READY"
                           /\ node'[m].version = node[m].version
                           /\ node[m].state = "NOT_STARTED"
    BY <1>9, <2>0 DEF StartReady, Row, NodeState
  <2>2. node' \in [Node -> Row]
    BY <1>9, <2>0, <2>1 DEF StartReady
  <2>3. RowMoves
    BY <2>0, <2>1 DEF Awaits, RowMoves
  <2>4. \A m \in Node : IsGate(m) => node'[m].state \in GateState
    BY <2>1 DEF GatesApart, GateState, NodeState
  <2> QED BY <2>2, <2>3, <2>4 DEF Moved
<1>10. CASE RepairNodes(c)
  BY <1>10, PutsAll DEF RepairNodes, Given
<1>11. CASE Enqueue(c) \/ FeedbackSelect(c) \/ RetryFull(c) \/ RetryRead(c) \/ RetryCheck(c)
            \/ StartRunning(c) \/ RepairDag(c) \/ RevalidatePair(c)
  BY <1>3, <1>11 DEF Enqueue, FeedbackSelect, RetryFull, RetryRead, RetryCheck, StartRunning, RepairDag,
       RevalidatePair, OnlyReads, vars, engine
<1>12. CASE RevalidateTask(c)
  BY <1>1, <1>3, <1>12, Puts DEF RevalidateTask, Given
<1>13. CASE RevalidateQa(c)
  BY <1>2, <1>13, Puts DEF RevalidateQa, At, OnTask, Given
<1> QED BY <1>4, <1>5, <1>6, <1>7, <1>8, <1>9, <1>10, <1>11, <1>12, <1>13 DEF Handle

LEMMA DecideMoved ==
  ASSUME TypeOK, GatesApart, Awaits, Decide
  PROVE  Moved
<1>1. ASSUME NEW g \in Node, EdgeApprove(g) \/ EdgeReject(g) PROVE Moved
  BY <1>1, Puts DEF EdgeApprove, EdgeReject, EdgeDecision, Given
<1>2. CASE Pause
  BY <1>2, RowsMoved DEF Pause
<1>3. CASE ForceClose
  BY <1>3, PutsAll DEF ForceClose, Given
<1> QED BY <1>1, <1>2, <1>3 DEF Decide

LEMMA AskMoved ==
  ASSUME TypeOK, GatesApart, Awaits, NEW c \in Client, Ask(c) \/ AskChange(c)
  PROVE  Moved
<1>1. ASSUME NEW g \in Node, Feedback(c, g) PROVE Moved
  BY <1>1, Puts DEF Feedback, Given
<1>2. CASE UNCHANGED node
  BY <1>2, RowsMoved
<1> QED BY <1>1, <1>2 DEF Ask, AskChange, Approve, Skip, Retry, Suspend, Resume, StartDag, Repair,
          Revalidate, Revise, Edit, OnlyReads, vars, engine

LEMMA HandleChangeMoved ==
  ASSUME TypeOK, GatesApart, Awaits, HandlerTypes, NEW c \in Client, HandleChange(c)
  PROVE  Moved
<1> DEFINE n == op[c].node
<1>1. n \in Node /\ op[c].todo \subseteq Node
  BY HandlerTask
<1>2. op[c].pc \in OnTask => ~IsGate(n) /\ Pair[n] \in Node /\ ~IsGate(Pair[n])
  BY HandlerTask
<1>3. CASE UNCHANGED node
  BY <1>3, RowsMoved
<1>4. CASE ReviseTake(c) \/ ReviseCall(c)
  BY <1>1, <1>2, <1>3, <1>4, Puts DEF ReviseTake, ReviseCall, At, OnTask, Given
<1>5. CASE ReviseMend(c) \/ ReviseQa(c) \/ EditMend(c) \/ EditQa(c)
  <2>1. op[c].pc \in OnTask
    BY <1>5 DEF ReviseMend, ReviseQa, EditMend, EditQa, MendTask, MendQa, At, OnTask
  <2> QED BY <1>1, <1>2, <1>5, <2>1, Puts
        DEF ReviseMend, ReviseQa, EditMend, EditQa, MendTask, MendQa, Given
<1>6. CASE ReviseCascade(c)
  BY <1>3, <1>6, PutsAll DEF ReviseCascade, Given
<1>7. CASE EditCascade(c)
  BY <1>1, <1>7, Puts DEF EditCascade, Given
<1>8. CASE ReviseSave(c) \/ ReviseDag(c) \/ ReviseEnd(c) \/ ReviseRun(c) \/ EditSave(c)
           \/ EditJudge(c) \/ EditEnqueue(c) \/ EditEnd(c)
  BY <1>3, <1>8 DEF ReviseSave, ReviseDag, ReviseEnd, ReviseRun, EditSave, EditJudge, EditEnqueue, EditEnd,
       SaveChange, Rerun, OnlyReads, vars, engine
<1> QED BY <1>4, <1>5, <1>6, <1>7, <1>8 DEF HandleChange

-----------------------------------------------------------------------------
(* What the operators leave alone, and the other columns they write *)

Columns ==
  /\ UNCHANGED <<adv, run, casc>>
  /\ dag' \in {"RUNNING", "PAUSED", "COMPLETED"} /\ queue' \in Nat
  /\ stall' \in [Node -> Nat] /\ art' \in [Node -> Nat] /\ stamp' \in [Node -> Nat]

LEMMA ColumnsKept ==
  ASSUME TypeOK, UNCHANGED <<dag, queue, adv, run, execVars>>
  PROVE  Columns
BY DEF TypeOK, Columns, execVars

LEMMA HandleColumns ==
  ASSUME TypeOK, HandlerTypes, NEW c \in Client, Handle(c)
  PROVE  Columns
<1>1. CASE UNCHANGED <<dag, queue, adv, run, execVars>>
  BY <1>1, ColumnsKept
<1>2. op[c].node \in Node
  BY HandlerTask
<1>3. CASE Enqueue(c) \/ StartRunning(c) \/ RepairDag(c)
  BY <1>3 DEF Enqueue, StartRunning, RepairDag, Columns, TypeOK, execVars
<1>4. CASE RetryQaOnly(c) \/ RetryFull(c) \/ RetryWrite(c)
  BY <1>2, <1>4 DEF RetryQaOnly, RetryFull, RetryWrite, Columns, TypeOK, engine
<1>5. CASE ApproveWrite(c) \/ FeedbackSelect(c) \/ FeedbackTask(c) \/ FeedbackQa(c) \/ SkipWrite(c)
           \/ SkipPair(c) \/ ReopenQa(c) \/ RetryRead(c) \/ RetryInvalidate(c) \/ RetryCheck(c)
  BY <1>1, <1>5 DEF ApproveWrite, FeedbackSelect, FeedbackTask, FeedbackQa, SkipWrite, SkipPair,
       ReopenQa, RetryRead, RetryInvalidate, RetryCheck, OnlyNodes, OnlyReads, vars, engine
<1>6. CASE SuspendNode(c) \/ ResumeNode(c) \/ StartReady(c) \/ RepairNodes(c)
  BY <1>1, <1>6 DEF SuspendNode, ResumeNode, StartReady, RepairNodes, OnlyNodes
<1>7. CASE RevalidateTask(c) \/ RevalidatePair(c) \/ RevalidateQa(c)
  BY <1>1, <1>7 DEF RevalidateTask, RevalidatePair, RevalidateQa, OnlyNodes, OnlyReads, vars, engine
<1> QED BY <1>3, <1>4, <1>5, <1>6, <1>7 DEF Handle

LEMMA DecideColumns ==
  ASSUME TypeOK, Decide
  PROVE  Columns
BY ColumnsKept DEF Decide, EdgeApprove, EdgeReject, EdgeDecision, Pause, ForceClose, OnlyNodes,
     Columns, TypeOK, execVars

LEMMA AskColumns ==
  ASSUME TypeOK, NEW c \in Client, Ask(c) \/ AskChange(c)
  PROVE  Columns
BY ColumnsKept DEF Ask, AskChange, Approve, Feedback, Skip, Retry, Suspend, Resume, StartDag, Repair,
     Revalidate, Revise, Edit, OnlyNodes, OnlyReads, vars, engine

LEMMA HandleChangeColumns ==
  ASSUME TypeOK, HandlerTypes, NEW c \in Client, HandleChange(c)
  PROVE  Columns
<1>1. CASE UNCHANGED <<dag, queue, adv, run, execVars>>
  BY <1>1, ColumnsKept
<1>2. op[c].node \in Node /\ op[c].seen + 1 \in Nat
  BY HandlerTask
<1>3. CASE ReviseSave(c) \/ EditSave(c)
  BY <1>2, <1>3 DEF ReviseSave, EditSave, SaveChange, Columns, TypeOK, engine
<1>4. CASE ReviseDag(c) \/ ReviseRun(c) \/ EditEnqueue(c)
  BY <1>4 DEF ReviseDag, ReviseRun, EditEnqueue, Rerun, Columns, TypeOK, execVars
<1>5. CASE ReviseTake(c) \/ ReviseCall(c) \/ ReviseCascade(c) \/ ReviseEnd(c) \/ ReviseMend(c)
           \/ ReviseQa(c) \/ EditJudge(c) \/ EditCascade(c) \/ EditEnd(c) \/ EditMend(c) \/ EditQa(c)
  BY <1>1, <1>5 DEF ReviseTake, ReviseCall, ReviseCascade, ReviseEnd, ReviseMend, ReviseQa, EditJudge,
       EditCascade, EditEnd, EditMend, EditQa, MendTask, MendQa, OnlyNodes, OnlyReads, vars, engine
<1> QED BY <1>3, <1>4, <1>5 DEF HandleChange

\* Types and gates follow from what is written.
LEMMA MovedKeeps ==
  ASSUME TypeOK, GatesApart, Awaits, SlotsBounded, Moved, Columns
  PROVE  TypeOK' /\ GatesApart' /\ Awaits' /\ SlotsBounded'
<1>1. TypeOK'
  BY DEF TypeOK, Moved, Columns
<1>2. GatesApart'
  BY DEF GatesApart, GatesNeverRun, Moved, Columns
<1>3. Awaits'
  BY DEF Awaits, Moved, RowMoves, Columns
<1>4. SlotsBounded'
  BY DEF SlotsBounded, Holding, Columns
<1> QED BY <1>1, <1>2, <1>3, <1>4

-----------------------------------------------------------------------------
(* The handlers *)

\* A handler goes on, to a step that is not the decision on a gate; if it was
\* at that decision and approves, the gate has not changed.
GoesOn(c) ==
  /\ HandlerTypes'
  /\ \A d \in Client \ {c} : op'[d] = op[d]
  /\ op'[c].pc # "approve"
  /\ op[c].pc = "approve" /\ op'[c].pc = "enqueue" =>
       node[op[c].node].version = op[c].row.version

\* A request is accepted.
Accepted(c) ==
  /\ HandlerTypes'
  /\ \A d \in Client \ {c} : op'[d] = op[d]
  /\ op[c].pc = "idle"
  /\ op'[c].pc = "approve" =>
       /\ op'[c].node \in Node /\ op'[c].row = node[op'[c].node]
       /\ node[op'[c].node].state = "AWAITING_APPROVAL" /\ UNCHANGED node

LEMMA IdleType == Idle \in Handler /\ Local(Idle) /\ Idle.pc = "idle"
<1>1. Order[1] \in Node /\ InitialRow(Order[1]) \in Row
  BY OrderNode, InitialRowType
<1>2. Idle \in Handler
  BY <1>1 DEF Idle, Handler, HandlerPc, Elsewhere
<1> QED BY <1>2 DEF Idle, Local, OnTask

LEMMA OneHandler ==
  ASSUME HandlerTypes, NEW c \in Client, NEW h \in Handler, Local(h), op' = [op EXCEPT ![c] = h]
  PROVE  HandlerTypes' /\ op'[c] = h /\ \A d \in Client \ {c} : op'[d] = op[d]
BY DEF HandlerTypes

\* Where a handler that is not at a decision may go, with no list to keep to.
Plain == (Elsewhere \union OnTask) \ ({"feedback_qa"} \union Revalidating)

LEMMA Steps ==
  ASSUME HandlerTypes, NEW c \in Client
  PROVE  /\ \A pc \in Plain :
              /\ Step(c, pc)
              /\ pc \in OnTask => Type[op[c].node] = "TASK"
              /\ op[c].pc # "approve" \/ node[op[c].node].version = op[c].row.version
              => GoesOn(c)
         /\ Reply(c) => GoesOn(c)
<1>0. op \in [Client -> Handler] /\ op[c] \in Handler
  BY DEF HandlerTypes
<1>1. ASSUME NEW pc \in Plain, Step(c, pc),
             pc \in OnTask => Type[op[c].node] = "TASK",
             op[c].pc # "approve" \/ node[op[c].node].version = op[c].row.version
      PROVE  GoesOn(c)
  <2> DEFINE h == [op[c] EXCEPT !.pc = pc]
  <2>0. /\ pc \in HandlerPc /\ pc \notin Revalidating
        /\ pc \notin {"approve", "feedback_task", "feedback_qa"}
    BY <1>1 DEF Plain, HandlerPc, Elsewhere, OnTask
  <2>1. h \in Handler /\ h.pc = pc /\ h.node = op[c].node
    BY <1>0, <2>0 DEF Handler
  <2>2. op' = [op EXCEPT ![c] = h]
    BY <1>0, <1>1 DEF Step
  <2> HIDE DEF h
  <2>3. Local(h)
    BY <1>1, <2>0, <2>1 DEF Local
  <2> QED BY <1>1, <2>0, <2>1, <2>2, <2>3, OneHandler DEF GoesOn
<1>2. ASSUME Reply(c) PROVE GoesOn(c)
  <2>1. op' = [op EXCEPT ![c] = Idle]
    BY <1>2 DEF Reply
  <2> QED BY <2>1, IdleType, OneHandler DEF GoesOn
<1> QED BY <1>1, <1>2

\* A handler that notes something besides where it is.
LEMMA Notes ==
  ASSUME HandlerTypes, NEW c \in Client, op[c].pc # "approve",
         NEW h \in Handler, h.pc # "approve", Local(h), op' = [op EXCEPT ![c] = h]
  PROVE  GoesOn(c)
BY OneHandler DEF GoesOn

LEMMA HandleGoesOn ==
  ASSUME TypeOK, HandlerTypes, NEW c \in Client, Handle(c)
  PROVE  GoesOn(c)
<1> DEFINE n == op[c].node
<1>0. /\ op \in [Client -> Handler] /\ op[c] \in Handler /\ Local(op[c])
      /\ n \in Node /\ node[n] \in Row
  BY DEF HandlerTypes, Handler, TypeOK
<1>1. Reply(c) => GoesOn(c)
  BY Steps
<1>2. ASSUME NEW pc \in Elsewhere \ {"revalidate"}, Step(c, pc),
             op[c].pc # "approve" \/ Unchanged(c)
      PROVE  GoesOn(c)
  <2>1. pc \notin OnTask /\ pc \in Plain
    BY <1>2 DEF Elsewhere, OnTask, Plain, Revalidating
  <2> QED BY <1>2, <2>1, Steps DEF Unchanged
<1>3. CASE ApproveWrite(c) \/ Enqueue(c) \/ SkipPair(c) \/ ReopenQa(c)
  BY <1>1, <1>2, <1>3 DEF ApproveWrite, Enqueue, SkipPair, ReopenQa, At, Elsewhere
<1>4. CASE RetryFull(c) \/ RetryInvalidate(c) \/ RetryWrite(c) \/ SuspendNode(c) \/ ResumeNode(c)
  BY <1>1, <1>2, <1>4 DEF RetryFull, RetryInvalidate, RetryWrite, SuspendNode, ResumeNode, At, Elsewhere
<1>5. CASE StartRunning(c) \/ StartReady(c) \/ RepairNodes(c) \/ RepairDag(c)
  BY <1>2, <1>5 DEF StartRunning, StartReady, RepairNodes, RepairDag, At, Elsewhere
<1>6. CASE SkipWrite(c)
  <2>1. Type[n] = "TASK" /\ Step(c, "skip_pair") => GoesOn(c)
    BY <1>6, Steps DEF SkipWrite, At, OnTask, Plain, Revalidating
  <2> QED BY <1>2, <1>6, <2>1 DEF SkipWrite, At, Elsewhere
<1>7. CASE RetryQaOnly(c)
  <2>1. op[c].pc = "retry_qa" /\ Type[n] = "TASK" /\ Step(c, "reopen_qa")
    BY <1>0, <1>7 DEF RetryQaOnly, At, Local, OnTask
  <2> QED BY <2>1, Steps DEF OnTask, Plain, Revalidating
<1>8. CASE FeedbackSelect(c)
  <2>1. PICK todo \in SUBSET Build : op' = [op EXCEPT ![c].pc = "feedback_task", ![c].todo = todo]
    BY <1>8 DEF FeedbackSelect
  <2> DEFINE h == [op[c] EXCEPT !.pc = "feedback_task", !.todo = todo]
  <2>2. todo \in SUBSET Node
    BY <2>1, RequestAssumption
  <2>3. h \in Handler /\ h.pc = "feedback_task" /\ h.todo = todo
    BY <1>0, <2>2 DEF Handler, HandlerPc
  <2>4. op' = [op EXCEPT ![c] = h]
    BY <1>0, <2>1
  <2> HIDE DEF h
  <2>5. Local(h) /\ op[c].pc # "approve"
    BY <1>8, <2>3 DEF Local, OnTask, Revalidating, FeedbackSelect, At
  <2> QED BY <2>3, <2>4, <2>5, Notes
<1>9. CASE FeedbackTask(c)
  <2>1. op[c].pc = "feedback_task" /\ op[c].todo \subseteq Build
    BY <1>0, <1>9 DEF FeedbackTask, At, Local
  <2>2. ASSUME NEW t \in op[c].todo,
               op' = [op EXCEPT ![c].pc = "feedback_qa", ![c].node = t, ![c].todo = @ \ {t}]
        PROVE  GoesOn(c)
    <3> DEFINE h == [op[c] EXCEPT !.pc = "feedback_qa", !.node = t, !.todo = @ \ {t}]
    <3>1. t \in Node /\ Type[t] = "TASK"
      BY <2>1, RequestAssumption
    <3>2. /\ h \in Handler /\ h.pc = "feedback_qa" /\ h.node = t /\ h.todo = op[c].todo \ {t}
      BY <1>0, <3>1 DEF Handler, HandlerPc, OnTask
    <3>3. op' = [op EXCEPT ![c] = h]
      BY <1>0, <2>2
    <3> HIDE DEF h
    <3>4. Local(h)
      BY <2>1, <3>1, <3>2 DEF Local, Revalidating
    <3> QED BY <2>1, <3>2, <3>3, <3>4, Notes
  <2> QED BY <1>2, <1>9, <2>1, <2>2 DEF FeedbackTask, Elsewhere
<1>10. CASE FeedbackQa(c)
  <2> DEFINE h == [op[c] EXCEPT !.pc = "feedback_task"]
  <2>1. /\ op[c].pc = "feedback_qa" /\ op[c].todo \subseteq Build /\ op' = [op EXCEPT ![c] = h]
    BY <1>0, <1>10 DEF FeedbackQa, At, Step, Local
  <2>2. h \in Handler /\ h.pc = "feedback_task" /\ h.todo = op[c].todo
    BY <1>0 DEF Handler, HandlerPc
  <2> HIDE DEF h
  <2>3. Local(h)
    BY <2>1, <2>2 DEF Local, OnTask, Revalidating
  <2> QED BY <2>1, <2>2, <2>3, Notes
<1>11. CASE RetryRead(c) \/ RetryCheck(c)
  <2>1. op[c].pc # "approve"
    BY <1>11 DEF RetryRead, RetryCheck, At
  <2>2. ASSUME NEW pc \in {"retry_again", "retry_write"},
               op' = [op EXCEPT ![c].pc = pc, ![c].row = node[n]]
        PROVE  GoesOn(c)
    <3> DEFINE h == [op[c] EXCEPT !.pc = pc, !.row = node[n]]
    <3>1. h \in Handler /\ h.pc = pc
      BY <1>0, <2>2 DEF Handler, HandlerPc, Elsewhere
    <3>2. op' = [op EXCEPT ![c] = h]
      BY <1>0, <2>2
    <3> HIDE DEF h
    <3>3. Local(h) /\ h.pc # "approve"
      BY <3>1 DEF Local, OnTask, Revalidating
    <3> QED BY <2>1, <3>1, <3>2, <3>3, Notes
  <2> QED BY <1>1, <1>11, <2>1, <2>2 DEF RetryRead, RetryCheck, Checked, Reply
\* A revalidation keeps to its list of TASKs.
<1>12. ASSUME op[c].pc \in Revalidating, NEW pc \in Revalidating, NEW m \in Node,
              NEW todo \in SUBSET op[c].todo, pc \in OnTask => Type[m] = "TASK",
              op' = [op EXCEPT ![c].pc = pc, ![c].node = m, ![c].todo = todo]
       PROVE  GoesOn(c)
  <2> DEFINE h == [op[c] EXCEPT !.pc = pc, !.node = m, !.todo = todo]
  <2>1. /\ pc \in HandlerPc /\ pc \notin {"approve", "feedback_task", "feedback_qa"}
        /\ op[c].pc # "approve" /\ \A t \in todo : Type[t] = "TASK"
    BY <1>0, <1>12 DEF Local, Revalidating, HandlerPc, Elsewhere, OnTask
  <2>2. h \in Handler /\ h.pc = pc /\ h.node = m /\ h.todo = todo
    BY <1>0, <1>12, <2>1 DEF Handler
  <2>3. op' = [op EXCEPT ![c] = h]
    BY <1>0, <1>12
  <2> HIDE DEF h
  <2>4. Local(h)
    BY <1>12, <2>1, <2>2 DEF Local
  <2> QED BY <2>1, <2>2, <2>3, <2>4, Notes
<1>13. ASSUME op[c].pc \in Revalidating, NEW pc \in Revalidating, Step(c, pc),
              pc \in OnTask => Type[n] = "TASK"
       PROVE  GoesOn(c)
  <2>1. op' = [op EXCEPT ![c].pc = pc, ![c].node = n, ![c].todo = op[c].todo]
    BY <1>0, <1>13 DEF Step, Handler
  <2> QED BY <1>0, <1>12, <1>13, <2>1
<1>14. CASE RevalidateTask(c)
  <2>1. op[c].pc = "revalidate" /\ op[c].pc \in Revalidating
    BY <1>14 DEF RevalidateTask, At, Revalidating
  <2>2. ASSUME NEW t \in op[c].todo,
               op' = [op EXCEPT ![c].pc = "revalidate_pair", ![c].node = t, ![c].todo = @ \ {t}]
        PROVE  GoesOn(c)
    <3>1. t \in Node /\ Type[t] = "TASK" /\ op[c].todo \ {t} \in SUBSET op[c].todo
      BY <1>0, <2>1 DEF Local, Handler
    <3>2. op' = [op EXCEPT ![c].pc = "revalidate_pair", ![c].node = t,
                           ![c].todo = op[c].todo \ {t}]
      BY <1>0, <2>2
    <3> QED BY <1>12, <2>1, <3>1, <3>2 DEF Revalidating
  <2> QED BY <1>1, <1>14, <2>2 DEF RevalidateTask
<1>15. CASE RevalidatePair(c) \/ RevalidateQa(c)
  <2>1. op[c].pc \in Revalidating /\ op[c].pc \in OnTask
    BY <1>15 DEF RevalidatePair, RevalidateQa, At, Revalidating, OnTask
  <2>2. Type[n] = "TASK"
    BY <1>0, <2>1 DEF Local
  <2>3. Step(c, "revalidate") \/ Step(c, "revalidate_qa")
    BY <1>15 DEF RevalidatePair, RevalidateQa
  <2> QED BY <1>13, <2>1, <2>2, <2>3 DEF Revalidating
<1> QED BY <1>3, <1>4, <1>5, <1>6, <1>7, <1>8, <1>9, <1>10, <1>11, <1>14, <1>15 DEF Handle

LEMMA HandleChangeGoesOn ==
  ASSUME TypeOK, HandlerTypes, NEW c \in Client, HandleChange(c)
  PROVE  GoesOn(c)
<1>0. /\ op \in [Client -> Handler] /\ op[c] \in Handler /\ Local(op[c])
      /\ op[c].node \in Node
  BY DEF HandlerTypes, Handler
<1>1. op[c].pc \in OnTask
  BY DEF HandleChange, ReviseTake, ReviseCall, ReviseSave, ReviseCascade, ReviseDag, ReviseEnd,
     ReviseMend, ReviseQa, ReviseRun, EditSave, EditJudge, EditCascade, EditEnqueue, EditEnd, EditMend,
     EditQa, SaveChange, MendTask, MendQa, Rerun, At, OnTask
<1>2. Type[op[c].node] = "TASK" /\ op[c].pc # "approve"
  BY <1>0, <1>1 DEF Local, OnTask
<1>3. Reply(c) => GoesOn(c)
  BY Steps
<1>4. \A pc \in Plain : Step(c, pc) => GoesOn(c)
  BY <1>2, Steps
<1>5. ASSUME NEW pc \in {"revise_end", "revise_dag", "edit_end", "edit_cascade", "edit_enqueue"},
             NEW todo \in SUBSET Node, op' = [op EXCEPT ![c].pc = pc, ![c].todo = todo]
      PROVE  GoesOn(c)
  <2> DEFINE h == [op[c] EXCEPT !.pc = pc, !.todo = todo]
  <2>1. h \in Handler /\ h.pc = pc /\ h.node = op[c].node
    BY <1>0, <1>5 DEF Handler, HandlerPc, OnTask
  <2>2. op' = [op EXCEPT ![c] = h]
    BY <1>0, <1>5
  <2> HIDE DEF h
  <2>3. Local(h) /\ h.pc # "approve"
    BY <1>2, <1>5, <2>1 DEF Local, Revalidating
  <2> QED BY <1>2, <2>1, <2>2, <2>3, Notes
<1>6. \A m \in Node : Reached(m) \in SUBSET Node
  BY DEF Reached, Successors
<1>7. CASE ReviseCascade(c)
  BY <1>0, <1>4, <1>5, <1>6, <1>7 DEF ReviseCascade, OnTask, Plain, Revalidating
<1>8. CASE EditJudge(c)
  BY <1>0, <1>4, <1>5, <1>6, <1>8 DEF EditJudge, OnTask, Plain, Revalidating
<1>9. CASE EditCascade(c)
  <2>1. PICK m \in op[c].todo :
          op' = [op EXCEPT ![c].pc = IF op[c].todo = {m} THEN "edit_enqueue" ELSE @,
                           ![c].todo = @ \ {m}]
    BY <1>9 DEF EditCascade
  <2>2. op[c].todo \ {m} \in SUBSET Node /\ op[c].pc = "edit_cascade"
    BY <1>0, <1>9 DEF Handler, EditCascade, At
  <2> DEFINE pc == IF op[c].todo = {m} THEN "edit_enqueue" ELSE "edit_cascade"
  <2>3. pc \in {"edit_enqueue", "edit_cascade"}
    OBVIOUS
  <2>4. op' = [op EXCEPT ![c].pc = pc, ![c].todo = op[c].todo \ {m}]
    BY <1>0, <2>1, <2>2 DEF Handler
  <2> HIDE DEF pc
  <2> QED BY <1>5, <2>2, <2>3, <2>4
<1>10. CASE ReviseTake(c) \/ ReviseCall(c) \/ ReviseSave(c) \/ ReviseDag(c) \/ ReviseEnd(c)
            \/ ReviseMend(c) \/ ReviseQa(c) \/ ReviseRun(c)
  BY <1>3, <1>4, <1>10 DEF ReviseTake, ReviseCall, ReviseSave, ReviseDag, ReviseEnd, ReviseMend,
       ReviseQa, ReviseRun, SaveChange, MendTask, MendQa, Rerun, Elsewhere, OnTask,
       Plain, Revalidating
<1>11. CASE EditSave(c) \/ EditEnqueue(c) \/ EditEnd(c) \/ EditMend(c) \/ EditQa(c)
  BY <1>3, <1>4, <1>11 DEF EditSave, EditEnqueue, EditEnd, EditMend, EditQa, SaveChange, MendTask, MendQa,
       Elsewhere, OnTask, Plain, Revalidating
<1> QED BY <1>7, <1>8, <1>9, <1>10, <1>11 DEF HandleChange

LEMMA AskAccepted ==
  ASSUME TypeOK, HandlerTypes, NEW c \in Client, Ask(c) \/ AskChange(c)
  PROVE  Accepted(c)
<1>0. node \in [Node -> Row] /\ art \in [Node -> Nat] /\ Order[1] \in Node
  BY OrderNode DEF TypeOK
<1>1. ASSUME NEW kind, NEW pc \in HandlerPc, NEW n \in Node, NEW todo \in SUBSET Node,
             AcceptFor(c, kind, pc, n, todo),
             pc \in OnTask => Type[n] = "TASK", pc \notin {"feedback_task", "feedback_qa"},
             pc \in Revalidating => \A t \in todo : Type[t] = "TASK",
             pc = "approve" => node[n].state = "AWAITING_APPROVAL" /\ UNCHANGED node
      PROVE  Accepted(c)
  <2> DEFINE h == [pc |-> pc, node |-> n, row |-> node[n], todo |-> todo, seen |-> art[n]]
  <2>1. op[c].pc = "idle" /\ op' = [op EXCEPT ![c] = h]
    BY <1>1 DEF AcceptFor
  <2>2. node[n] \in Row /\ art[n] \in Nat
    BY <1>0
  <2>3. h \in Handler /\ h.pc = pc /\ h.node = n /\ h.row = node[n] /\ h.todo = todo
    BY <2>2 DEF Handler
  <2> HIDE DEF h
  <2>4. Local(h)
    BY <1>1, <2>3 DEF Local
  <2>5. HandlerTypes' /\ op'[c] = h /\ \A d \in Client \ {c} : op'[d] = op[d]
    BY <2>1, <2>3, <2>4, OneHandler
  <2> QED BY <1>1, <2>1, <2>3, <2>5 DEF Accepted
<1> DEFINE plain == {"feedback", "skip", "suspend", "resume", "start", "start_dag", "repair",
                     "enqueue", "retry_full"}
<1>2. /\ \A pc \in plain : pc \in HandlerPc /\ pc \notin OnTask
      /\ \A pc \in plain : /\ pc \notin {"feedback_task", "feedback_qa", "approve"}
                            /\ pc \notin Revalidating
  BY DEF OnTask, HandlerPc, Elsewhere, Revalidating
<1>3. ASSUME NEW kind, NEW pc \in plain, NEW n \in Node, NEW todo \in SUBSET Node,
             AcceptFor(c, kind, pc, n, todo)
      PROVE  Accepted(c)
  BY <1>1, <1>2, <1>3
<1>4. ASSUME NEW kind, NEW pc \in {"retry_qa", "revise_take", "edit_save"}, NEW n \in Node,
             Type[n] = "TASK", AcceptFor(c, kind, pc, n, {})
      PROVE  Accepted(c)
  <2>1. /\ pc \in HandlerPc /\ pc \notin {"feedback_task", "feedback_qa", "approve"}
        /\ pc \notin Revalidating
    BY <1>4 DEF OnTask, HandlerPc, Revalidating
  <2> QED BY <1>1, <1>4, <2>1
<1>5. ASSUME NEW g \in Node, Approve(c, g) PROVE Accepted(c)
  <2>1. "approve" \in HandlerPc /\ "approve" \notin OnTask /\ "approve" \notin Revalidating
    BY DEF HandlerPc, OnTask, Revalidating
  <2>2. /\ AcceptFor(c, "approve", "approve", g, {})
        /\ node[g].state = "AWAITING_APPROVAL" /\ UNCHANGED node
    BY <1>5 DEF Approve, Accept, OnlyReads, vars, engine
  <2> QED BY <1>1, <1>5, <2>1, <2>2
<1> HIDE DEF plain
<1>6. /\ {"feedback", "skip", "suspend", "resume", "start", "start_dag"} \subseteq plain
      /\ {"repair", "enqueue", "retry_full"} \subseteq plain
  BY DEF plain
<1>7. ASSUME NEW n \in Node, Feedback(c, n) \/ Skip(c, n) \/ Suspend(c, n) \/ Resume(c, n)
      PROVE  Accepted(c)
  BY <1>3, <1>6, <1>7 DEF Feedback, Skip, Suspend, Resume, Accept
<1>8. ASSUME NEW n \in Node, Retry(c, n) PROVE Accepted(c)
  <2>1. \/ AcceptFor(c, "retry", "retry_full", n, {})
        \/ AcceptFor(c, "retry", "retry_qa", n, {}) /\ Type[n] = "TASK"
    BY <1>8 DEF Retry, Accept
  <2> QED BY <1>3, <1>4, <1>6, <1>8, <2>1
<1>9. CASE StartDag(c)
  <2>1. \/ AcceptFor(c, "start", "start_dag", Order[1], {})
        \/ AcceptFor(c, "start", "start", Order[1], {})
    BY <1>9 DEF StartDag, Accept
  <2> QED BY <1>0, <1>3, <1>6, <2>1
<1>10. CASE Repair(c)
  <2> DEFINE limited == {n \in Node : node[n].state = "SUSPENDED" /\ why[n] = "api"}
  <2>1. limited \in SUBSET Node
    OBVIOUS
  <2>2. \/ AcceptFor(c, "repair", "enqueue", Order[1], limited)
        \/ AcceptFor(c, "repair", "repair", Order[1], limited)
    BY <1>10 DEF Repair
  <2> HIDE DEF limited
  <2> QED BY <1>0, <1>3, <1>6, <2>1, <2>2
<1>11. ASSUME NEW n \in Node, Revise(c, n) \/ Edit(c, n) PROVE Accepted(c)
  BY <1>4, <1>11 DEF Revise, Edit, Accept
<1>12. CASE Revalidate(c)
  <2>1. PICK todo \in SUBSET {t \in Node : Type[t] = "TASK" /\ node[t].state = "COMPLETED"} :
          AcceptFor(c, "revalidate", "revalidate", Order[1], todo)
    BY <1>12 DEF Revalidate
  <2>2. todo \in SUBSET Node /\ \A t \in todo : Type[t] = "TASK"
    OBVIOUS
  <2>3. /\ "revalidate" \in HandlerPc /\ "revalidate" \notin OnTask
        /\ "revalidate" \notin {"feedback_task", "feedback_qa", "approve"}
    BY DEF HandlerPc, OnTask, Elsewhere
  <2> QED BY <1>0, <1>1, <2>1, <2>2, <2>3
<1> QED BY <1>5, <1>7, <1>8, <1>9, <1>10, <1>11, <1>12 DEF Ask, AskChange

-----------------------------------------------------------------------------
(* The decision on a gate *)

\* What was read still stands, or the gate has another version.
LEMMA ShownKept ==
  ASSUME TypeOK, HandlerTypes, Shown, RowMoves, TypeOK', NEW c \in Client, op'[c] = op[c],
         op'[c].pc = "approve"
  PROVE  LET n == op'[c].node
         IN  /\ IsGate(n)
             /\ op'[c].row.state = "AWAITING_APPROVAL"
             /\ op'[c].row.version <= node'[n].version
             /\ op'[c].row.version = node'[n].version => node'[n] = op'[c].row
<1> DEFINE n == op[c].node
           v == op[c].row.version
<1>1. /\ n \in Node /\ v \in Nat /\ node[n].version \in Nat /\ node'[n].version \in Nat
  BY DEF HandlerTypes, Handler, TypeOK, Row
<1>2. /\ IsGate(n) /\ v <= node[n].version /\ op[c].row.state = "AWAITING_APPROVAL"
      /\ v = node[n].version => node[n] = op[c].row
  BY DEF Shown
<1>3. /\ node[n].version <= node'[n].version
      /\ IsGate(n) /\ node[n].state = "AWAITING_APPROVAL" /\ node'[n].version = node[n].version
           => node'[n] = node[n]
  BY <1>1 DEF RowMoves
<1> QED BY <1>1, <1>2, <1>3

\* A decision is carried out only on the row the handler has read.
Decided ==
  \A c \in Client : op[c].pc = "approve" /\ op'[c].pc = "enqueue"
    => node[op[c].node] = op[c].row /\ op[c].row.state = "AWAITING_APPROVAL"

LEMMA OperatorStep ==
  ASSUME OperatedInv, Decide \/ \E c \in Client : Ask(c) \/ Handle(c) \/ AskChange(c) \/ HandleChange(c)
  PROVE  OperatedInv' /\ Decided
<1>0. TypeOK /\ SlotsBounded /\ GatesApart /\ HandlerTypes /\ Shown /\ Awaits
  BY DEF OperatedInv
<1>1. Moved /\ Columns
  BY <1>0, DecideMoved, AskMoved, HandleMoved, HandleChangeMoved, DecideColumns, AskColumns, HandleColumns,
     HandleChangeColumns
<1>2. TypeOK' /\ GatesApart' /\ Awaits' /\ SlotsBounded' /\ RowMoves
  BY <1>0, <1>1, MovedKeeps DEF Moved
<1>3. CASE UNCHANGED op
  <2>1. HandlerTypes'
    BY <1>0, <1>3 DEF HandlerTypes
  <2>2. Shown'
    BY <1>0, <1>2, <1>3, ShownKept DEF Shown
  <2> QED BY <1>2, <1>3, <2>1, <2>2 DEF OperatedInv, Decided
<1>4. ASSUME NEW c \in Client, Handle(c) \/ HandleChange(c) PROVE OperatedInv' /\ Decided
  <2>1. GoesOn(c)
    BY <1>0, <1>4, HandleGoesOn, HandleChangeGoesOn
  <2>2. Shown'
    BY <1>0, <1>2, <2>1, ShownKept DEF Shown, GoesOn
  <2>3. Decided
    BY <1>0, <2>1 DEF GoesOn, Decided, Shown
  <2> QED BY <1>2, <2>1, <2>2, <2>3 DEF OperatedInv, GoesOn
<1>5. ASSUME NEW c \in Client, Ask(c) \/ AskChange(c) PROVE OperatedInv' /\ Decided
  <2>1. Accepted(c)
    BY <1>0, <1>5, AskAccepted
  <2>2. ASSUME op'[c].pc = "approve"
        PROVE  LET n == op'[c].node
               IN  /\ IsGate(n)
                   /\ op'[c].row.state = "AWAITING_APPROVAL"
                   /\ op'[c].row.version <= node'[n].version
                   /\ op'[c].row.version = node'[n].version => node'[n] = op'[c].row
    <3> DEFINE n == op'[c].node
    <3>1. /\ n \in Node /\ op'[c].row = node[n] /\ node[n].state = "AWAITING_APPROVAL"
          /\ UNCHANGED node
      BY <2>1, <2>2 DEF Accepted
    <3>2. IsGate(n) /\ node[n].version \in Nat
      BY <1>0, <3>1 DEF Awaits, TypeOK, Row
    <3> QED BY <3>1, <3>2
  <2>3. Shown'
    BY <1>0, <1>2, <2>1, <2>2, ShownKept DEF Shown, Accepted
  <2>4. Decided
    BY <2>1 DEF Accepted, Decided
  <2> QED BY <1>2, <2>1, <2>3, <2>4 DEF OperatedInv, Accepted
<1>6. Decide => UNCHANGED op
  BY DEF Decide, EdgeApprove, EdgeReject, EdgeDecision, Pause, ForceClose, AtOnce
<1> QED BY <1>3, <1>4, <1>5, <1>6

LEMMA EngineStep ==
  ASSUME OperatedInv, [Next]_vars, UNCHANGED op
  PROVE  OperatedInv' /\ Decided
<1>0. TypeOK /\ SlotsBounded /\ GatesApart /\ HandlerTypes /\ Shown /\ Awaits
  BY DEF OperatedInv
<1>1. TypeOK' /\ SlotsBounded' /\ GatesApart' /\ RowMoves /\ Awaits'
  BY <1>0, TypeNext, SlotsNext, GatesNext, EngineMoves
<1>2. HandlerTypes'
  BY <1>0 DEF HandlerTypes
<1>3. Shown'
  BY <1>0, <1>1, ShownKept DEF Shown
<1> QED BY <1>1, <1>2, <1>3 DEF OperatedInv, Decided

LEMMA OperatedStep ==
  OperatedInv /\ [RevisedNext]_operated => OperatedInv' /\ Decided
<1> SUFFICES ASSUME OperatedInv, [RevisedNext]_operated PROVE OperatedInv' /\ Decided
  OBVIOUS
<1>1. CASE Engine(Next)
  BY <1>1, EngineStep DEF Engine
<1>2. CASE UNCHANGED operated
  BY <1>2, EngineStep DEF operated, operatorVars
<1>3. CASE Decide \/ \E c \in Client : Ask(c) \/ Handle(c) \/ AskChange(c) \/ HandleChange(c)
  BY <1>3, OperatorStep
<1> QED BY <1>1, <1>2, <1>3 DEF RevisedNext, OperatedNext

LEMMA OperatedStart == OperatedInit => OperatedInv
<1> SUFFICES ASSUME OperatedInit PROVE OperatedInv
  OBVIOUS
<1>1. TypeOK /\ SlotsBounded /\ GatesApart
  BY TypeInit, SlotsInit, GatesInit DEF OperatedInit
<1>2. op = [c \in Client |-> Idle]
  BY DEF OperatedInit, OperatorInit
<1>3. HandlerTypes /\ Shown
  BY <1>2, IdleType DEF HandlerTypes, Shown
<1>4. Awaits
  <2>1. node = [n \in Node |-> InitialRow(n)] /\ adv.pc = "wait" /\ run = [r \in Run |-> Free]
    BY WaitingType DEF OperatedInit, Init, EngineInit
  <2> QED BY <2>1 DEF Awaits, InitialRow, Free
<1> QED BY <1>1, <1>3, <1>4 DEF OperatedInv

LEMMA OperatedInvariant == RevisedSpec => []OperatedInv
BY OperatedStart, OperatedStep, PTL DEF RevisedSpec

\* Whatever operators ask for, and whenever, the columns and the in-memory
\* copies keep their types.
THEOREM OperatedTypes == RevisedSpec => []TypeOK
<1>1. OperatedInv => TypeOK
  BY DEF OperatedInv
<1> QED BY <1>1, OperatedInvariant, PTL

\* A node that is retried, suspended or edited while its task is alive does
\* not get the engine more slots than the semaphore has.
THEOREM OperatedSlots == RevisedSpec => []SlotsBounded
<1>1. OperatedInv => SlotsBounded
  BY DEF OperatedInv
<1> QED BY <1>1, OperatedInvariant, PTL

\* No request makes the engine execute a gate: an operator may put a gate in
\* any state but FAILED, the only one from which a node is launched by type.
THEOREM OperatedGates == RevisedSpec => []GatesNeverRun
<1>1. OperatedInv => GatesNeverRun
  BY DEF OperatedInv, GatesApart
<1> QED BY <1>1, OperatedInvariant, PTL

\* approve_gate decides the gate it has read: it still waits for approval and no
\* column has changed, however many feedbacks, rejections, resets and advances
\* come between, some of which write a row under its old version.
THEOREM ApprovalsFresh == RevisedSpec => ApprovalFresh
<1>1. OperatedInv /\ [RevisedNext]_operated =>
        [\A c \in Client : op[c].pc = "approve" /\ op'[c].pc = "enqueue"
           => node[op[c].node] = op[c].row /\ op[c].row.state = "AWAITING_APPROVAL"]_operated
  BY OperatedStep DEF Decided
<1> QED BY <1>1, OperatedInvariant, PTL DEF RevisedSpec, ApprovalFresh
=============================================================================
