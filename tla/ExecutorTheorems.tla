-------------------------- MODULE ExecutorTheorems --------------------------
(***************************************************************************)
(* The safety properties of Executor that hold for the outcomes of Calm,   *)
(* for every graph of intake's shape, every order, limit and number of     *)
(* tasks.  Each follows from the invariant of ExecutorCalm.                *)
(***************************************************************************)
EXTENDS ExecutorCalm

-----------------------------------------------------------------------------
(* Invariants *)

LEMMA CalmImplies ==
  CalmInv => OneOwner /\ ClaimsBounded /\ RetryBounded /\ ApprovedTaskDone /\ AdvanceLegal
<1> SUFFICES ASSUME CalmInv
             PROVE  OneOwner /\ ClaimsBounded /\ RetryBounded /\ ApprovedTaskDone /\ AdvanceLegal
  OBVIOUS
<1>1. OneOwner
  <2>1. \A r \in Run : Owns(r) => Engaged(r)
    BY DEF Owns, Engaged
  <2> QED BY <2>1 DEF OneOwner, CalmInv, Tasks, Owners
<1>2. ClaimsBounded
  BY DEF ClaimsBounded, CalmInv, Cycle, Counts, Claimed, IsGate
<1>3. RetryBounded
  <2>1. \A n \in Node : node[n].retry \in Nat /\ MaxRetries \in Nat
    BY CalmTypes, BoundAssumption DEF Row
  <2> QED BY <2>1 DEF RetryBounded, CalmInv, Table, Retries
<1>4. ApprovedTaskDone
  BY DEF ApprovedTaskDone, CalmInv, Table, Approved
<1>5. AdvanceLegal
  BY MoveStep DEF AdvanceLegal, Moving, Cur
<1> QED BY <1>1, <1>2, <1>3, <1>4, <1>5

\* A node is executed by one task at a time: while a task holds it the row is
\* IN_PROGRESS, and nobody else leaves or starts from that state.
THEOREM OwnersCorrect == ASSUME Calm PROVE Spec => []OneOwner
BY CalmCorrect, CalmImplies, PTL

\* No more than MAX_CONCURRENT_NODES executions are claimed at once, although
\* the count is taken from a snapshot that may be old: it is never too low.
THEOREM ClaimsCorrect == ASSUME Calm PROVE Spec => []ClaimsBounded
BY CalmCorrect, CalmImplies, PTL

\* retry_count never exceeds max_retries, although it is written from a copy.
THEOREM RetriesCorrect == ASSUME Calm PROVE Spec => []RetryBounded
BY CalmCorrect, CalmImplies, PTL

\* A QA is COMPLETED only while its TASK is done, whoever rejects meanwhile; no
\* test finds defects here (phases_checks has one that does).
THEOREM ApprovedCorrect == ASSUME Calm PROVE Spec => []ApprovedTaskDone
BY CalmCorrect, CalmImplies, PTL

\* The advancer never attempts a transition that would raise and end its cycle.
THEOREM AdvanceCorrect == ASSUME Calm PROVE Spec => []AdvanceLegal
BY CalmCorrect, CalmImplies, PTL

-----------------------------------------------------------------------------
(* Steps *)

\* The action formulas of the four action properties of Executor.
RuleEightStep ==
  \A n \in Node : node'[n].state # node[n].state => IsValid(node[n].state, node'[n].state)

CompletedStep ==
  dag # "COMPLETED" /\ dag' = "COMPLETED" =>
    \A n \in Node : Type[n] # "GATE" => node[n].state \in Done

ApprovalStep ==
  \A r \in Run :
    Type[run[r].node] = "QA" /\ run[r].pc \in {"pass", "approve"} /\ run'[r].pc # run[r].pc
      => run[r].seen = art[Pair[run[r].node]]

GateStep ==
  \A n \in Node :
    Type[n] = "GATE" /\ node'[n].state # node[n].state
      /\ node'[n].state \in {"AWAITING_APPROVAL", "COMPLETED"} => DepsDone(node, n)

\* What may happen to a state in one step, and to a gate.
LEMMA StateSteps ==
  ASSUME Calm, CalmInv, [Next]_vars, NEW n \in Node, node'[n].state # node[n].state
  PROVE  /\ "budget" \notin Outcome => IsValid(node[n].state, node'[n].state)
         /\ IsGate(n) /\ node'[n].state \in {"AWAITING_APPROVAL", "COMPLETED"}
              => DepsDone(node, n)
<1>a. ASSUME NEW m \in Node, NEW s, Write(m, s) \/ WriteBump(m, s)
      PROVE  m = n /\ node'[n].state = s
  <2>1. CASE Write(m, s)
    BY <2>1, CalmTypes DEF Write, Row
  <2>2. CASE WriteBump(m, s)
    BY <2>2, CalmTypes DEF WriteBump, Row
  <2> QED BY <1>a, <2>1, <2>2
\* The owner's own writes, from IN_PROGRESS.
<1>b. ASSUME NEW r \in Run, Engaged(r), NEW s \in {"COMPLETED", "SUSPENDED", "READY", "FAILED"},
             Write(run[r].node, s) \/ WriteBump(run[r].node, s)
      PROVE  ~IsGate(n) /\ IsValid(node[n].state, node'[n].state)
  <2>1. n = run[r].node /\ node'[n].state = s
    BY <1>a, <1>b, EngagedNode
  <2> QED BY <1>b, <2>1, EngagedNode DEF IsValid, VALID_TRANSITIONS
<1>1. CASE Advance /\ UNCHANGED execVars
  <2>1. Transition
    BY <1>1 DEF Advance, Dequeue, Load, Evaluate, Reload, Finish
  <2>2. Moving
    BY <2>1 DEF Transition, Moving
  <2>3. /\ adv.snap[Cur].version = node[Cur].version /\ WriteBump(Cur, adv.to)
        /\ Return([adv.snap[Cur] EXCEPT !.state = adv.to, !.version = @ + 1])
    BY <2>1 DEF Transition, Cur
  <2>4. node[Cur] = adv.snap[Cur] /\ Cur \in Node
    BY <1>1, <2>2, <2>3, CalmMoved, MovingNode DEF execVars
  <2>5. n = Cur /\ node'[n].state = adv.to
    BY <1>a, <2>3, <2>4
  <2> QED BY <2>2, <2>4, <2>5, MoveStep, DepsStand
<1>2. ASSUME NEW r \in Run, RunNodeSafe(r), UNCHANGED execVars
      PROVE  ~IsGate(n) /\ IsValid(node[n].state, node'[n].state)
  <2>1. CASE LimitReached(r)
    BY <1>b, <2>1 DEF LimitReached, Engaged
  <2>2. CASE RunTransition(r)
    BY <1>b, <1>2, <2>2, CalmRunTransition DEF RunTransition, Engaged
  <2>3. ~CountRetry(r)
    <3> SUFFICES ASSUME CountRetry(r) PROVE FALSE
      OBVIOUS
    <3>1. PICK retry : node' = [node EXCEPT ![run[r].node].retry = retry]
      BY DEF CountRetry
    <3> QED BY <3>1, CalmTypes DEF Row
  <2> QED BY <1>2, <2>1, <2>2, <2>3 DEF RunNodeSafe, Acquire, Success, RunReload
<1>3. ASSUME NEW r \in Run, ExecuteNode(r)
      PROVE  /\ ~IsGate(n)
             /\ "budget" \notin Outcome => IsValid(node[n].state, node'[n].state)
  <2>1. CASE SuspendWrite(r) \/ Complete(r)
    <3>1. Engaged(r)
      BY <2>1 DEF SuspendWrite, Complete, Engaged
    <3> QED BY <1>b, <2>1, <3>1 DEF SuspendWrite, Complete
  <2>2. CASE ReviveQa(r)
    <3> DEFINE q == Pair[run[r].node]
    <3>1. /\ q \in Node /\ ~IsGate(q) /\ q \notin Skipped
      <4>1. /\ run[r].node \in Node /\ ~IsGate(run[r].node)
            /\ run[r].node \notin Skipped
        BY <2>2, TaskNode DEF ReviveQa, CalmInv, GatesApart, Table, Skips
      <4> QED BY <4>1, Pairs DEF Calm
    <3>2. node[q].state = "BLOCKED" /\ WriteBump(q, "NOT_STARTED")
      BY <2>2, <3>1 DEF ReviveQa, CalmInv, Table, Skips
    <3> QED BY <1>a, <3>1, <3>2 DEF IsValid, VALID_TRANSITIONS
  <2>3. CASE RejectTask(r)
    <3>1. Engaged(r) /\ Write(Pair[run[r].node], "INVALID")
      BY <2>3 DEF RejectTask, Engaged
    <3>2. Pair[run[r].node] \in Node /\ ~IsGate(Pair[run[r].node])
      BY <3>1, EngagedNode, Pairs
    <3> QED BY <1>a, <2>3, <3>1, <3>2, CalmReject DEF IsValid, VALID_TRANSITIONS
  <2>4. CASE StallGuard(r) \/ PairGuard(r) \/ DepGuard(r) \/ Work(r) \/ BuildProgrammatic(r)
             \/ Inspect(r) \/ CheckStamp(r) \/ Judge(r)
    BY <2>4 DEF StallGuard, PairGuard, DepGuard, Work, BuildProgrammatic, Inspect, CheckStamp,
                Judge
  <2>5. CASE BudgetWrite(r)
    <3>1. PICK s \in {"NOT_STARTED", "BLOCKED"} : Write(run[r].node, s)
      BY <2>5 DEF BudgetWrite
    <3>2. Engaged(r) /\ "budget" \in Outcome
      BY <2>5 DEF BudgetWrite, Engaged, CalmInv, Tasks, Roles
    <3> QED BY <1>a, <3>1, <3>2, EngagedNode
  <2> QED BY <1>3, <2>1, <2>2, <2>3, <2>4, <2>5, NobodySendsBack
          DEF ExecuteNode, SendsBack, CalmInv, Tasks, NoCascades, BlockWrite, RejectSelf,
              RejectCompleted, Cascade, EarlyInvalidate, EarlyResetPair, EarlyReopenGates
<1>4. ASSUME NEW q \in Node PROVE ~CascadeForNode(q)
  BY DEF CalmInv, Tasks, NoCascades, CascadeForNode, CascadeRead, CascadeApply,
         CascadeResetRetry, CascadeReopenGates, CascadeEnqueue
<1>5. ~UNCHANGED vars
  BY DEF vars, engine
<1> QED BY <1>1, <1>2, <1>3, <1>4, <1>5 DEF Next, Execute, Poll

\* The test at the end of a cycle reads the snapshot: what is done there is
\* done in the table, a TASK because its QA is.
LEMMA FinishStep ==
  ASSUME Calm, CalmInv, [Next]_vars
  PROVE  CompletedStep
<1> SUFFICES ASSUME dag # "COMPLETED", dag' = "COMPLETED", NEW n \in Node, ~IsGate(n)
             PROVE  node[n].state \in Done
  BY DEF CompletedStep, IsGate
<1>1. ~UNCHANGED dag
  OBVIOUS
<1>2. Advance
  <2>1. \A r \in Run : ~RunNodeSafe(r)
    BY <1>1 DEF RunNodeSafe, Acquire, Success, LimitReached, CountRetry, RunTransition,
                RunReload
  <2>2. \A r \in Run : ~ExecuteNode(r)
    BY <1>1 DEF ExecuteNode, StallGuard, PairGuard, DepGuard, SuspendWrite, BlockWrite,
                Work, BuildProgrammatic, BudgetWrite, FindDefects, SendBack, SendBackQa,
                SendBackGate, Complete, ReviveQa, Inspect, CheckStamp, Judge,
                RejectSelf, RejectCompleted, RejectTask, Cascade, EarlyInvalidate,
                EarlyResetPair, EarlyReopenGates
  <2>3. \A q \in Node : ~CascadeForNode(q)
    BY <1>1 DEF CascadeForNode, CascadeRead, CascadeApply, CascadeResetRetry,
                CascadeReopenGates, CascadeEnqueue, engine
  <2> QED BY <1>1, <2>1, <2>2, <2>3 DEF Next, Execute, Poll, vars, engine
<1>3. Finish
  BY <1>1, <1>2 DEF Advance, Dequeue, Load, Evaluate, Transition, Reload
<1>4. InCycle /\ \A m \in Node : ~IsGate(m) => adv.snap[m].state \in Done
  BY <1>3 DEF Finish, InCycle, IsGate
<1>5. \A m \in Node : Type[m] = "QA" => node[m].state \in Done
  BY <1>4 DEF CalmInv, Cycle, SnapDone, IsGate
<1>6. CASE Type[n] = "TASK"
  <2> DEFINE q == Pair[n]
  <2>1. q \in Node /\ Type[q] = "QA" /\ Pair[q] = n /\ node[q].state \in Done
    BY <1>5, <1>6, Pairs
  <2>2. CASE node[q].state = "COMPLETED"
    BY <2>1, <2>2 DEF CalmInv, Table, Approved
  <2>3. CASE node[q].state = "SKIPPED"
    BY <2>1, <2>3 DEF CalmInv, Table, Skips, Calm, Done
  <2> QED BY <2>1, <2>2, <2>3 DEF Done
<1> QED BY <1>5, <1>6, Pairs

\* A QA that passes has read the version that is still current.
LEMMA PassStep ==
  ASSUME CalmInv
  PROVE  ApprovalStep
BY DEF ApprovalStep, CalmInv, Tasks, NoCascades, Owners, Engaged, InputStands

\* Every change of a state is one VALID_TRANSITIONS allows (Rule 8), as long as
\* no prompt is over budget: what is then written over IN_PROGRESS is forbidden.
THEOREM RuleEightCorrect == ASSUME Calm, "budget" \notin Outcome PROVE Spec => RuleEight
<1>1. CalmInv /\ [Next]_vars => [RuleEightStep]_vars
  BY StateSteps DEF RuleEightStep
<1> QED BY <1>1, CalmCorrect, PTL DEF RuleEight, RuleEightStep, Spec

\* A DAG is marked COMPLETED only when its TASKs and QAs are done in the table,
\* although the test reads a snapshot the tasks have overtaken.
THEOREM CompletedCorrect == ASSUME Calm PROVE Spec => CompletedIsDone
<1>1. CalmInv /\ [Next]_vars => [CompletedStep]_vars
  BY FinishStep
<1> QED BY <1>1, CalmCorrect, PTL DEF CompletedIsDone, CompletedStep, Spec

\* A QA is approved for the version of its TASK's artifact it has judged: no
\* other save comes between.
THEOREM ApprovalCorrect == ASSUME Calm PROVE Spec => ApprovalIsCurrent
<1>1. CalmInv /\ [Next]_vars => [ApprovalStep]_vars
  BY PassStep
<1> QED BY <1>1, CalmCorrect, PTL DEF ApprovalIsCurrent, ApprovalStep, Spec

\* A gate opens only when what it waits for is done in the table, although the
\* advancer decides from a snapshot: a QA or a gate once done stays done.
THEOREM GateOpensCorrect == ASSUME Calm PROVE Spec => GateJustified
<1>1. CalmInv /\ [Next]_vars => [GateStep]_vars
  BY StateSteps DEF GateStep, IsGate
<1> QED BY <1>1, CalmCorrect, PTL DEF GateJustified, GateStep, Spec

-----------------------------------------------------------------------------
(* At rest *)

\* Something is still to happen, or a suspension keeps its node for good.
Pending ==
  \/ queue > 0 \/ adv.pc = "load"
  \/ \E r \in Run : run[r].pc # "free"
  \/ \E m \in Node : node[m].state = "SUSPENDED"

\* The node could not run.
Resting(n) ==
  node[n].state \in Restartable \union {"READY", "IN_PROGRESS"} => ~DepsDone(node, n)

\* A node in progress has its task, or is the gate the advancer is opening.
Manned ==
  \A n \in Node : node[n].state = "IN_PROGRESS" =>
    \/ \E r \in Run : Engaged(r) /\ run[r].node = n
    \/ Moving /\ Cur = n /\ IsGate(n)

\* The advancer blocks only what has to wait and leaves a node READY only for
\* want of room.
Planned ==
  Moving =>
    /\ adv.to = "BLOCKED" => ~DepsDone(adv.snap, Cur)
    /\ adv.to = "READY" /\ adv.launch = "no" /\ ~IsGate(Cur) => adv.count >= MaxConcurrent

\* While nothing is pending the snapshot is the table, there is room, and what
\* the cycle has passed cannot run.
Caught ==
  ~Pending =>
    /\ InCycle => adv.snap = node /\ adv.count = 0
    /\ \A n \in Node : ~Ahead(n) => Resting(n)

Rest == dag # "PAUSED" /\ Manned /\ Planned /\ Caught

\* The executor never ends a task, and gives its node up by writing it.
LEMMA ExecuteNodeOn ==
  ASSUME Calm, CalmInv, NEW r \in Run, ExecuteNode(r)
  PROVE  /\ run'[r].pc # "free"
         /\ Engaged(r) /\ run'[r].pc \in {"revive", "return"}
              => SuspendWrite(r) \/ Complete(r) \/ BudgetWrite(r)
<1> DEFINE Last == {"free", "revive", "return"}
<1>0. \A pc : Goto(r, pc) => run'[r].pc = pc
  BY CalmTypes DEF Goto, Task
<1>1. CASE SuspendWrite(r) \/ Complete(r) \/ BudgetWrite(r)
  BY <1>0, <1>1 DEF SuspendWrite, Complete, BudgetWrite
<1>2. CASE StallGuard(r) \/ PairGuard(r) \/ DepGuard(r)
  <2>1. \E pc \in RunPc \ Last : Goto(r, pc)
    BY <1>2 DEF StallGuard, PairGuard, DepGuard, RunPc
  <2> QED BY <1>0, <2>1
<1>3. CASE Work(r) \/ BuildProgrammatic(r) \/ Judge(r) \/ RejectTask(r)
  <2>1. \E pc \in RunPc \ Last : Goto(r, pc)
    BY <1>3 DEF Work, BuildProgrammatic, Judge, RejectTask, CallFails, RunPc
  <2> QED BY <1>0, <2>1
<1>4. CASE Inspect(r) \/ CheckStamp(r)
  <2>1. CheckResults \subseteq {"stamp", "pass", "reject_invalid", "reject_completed"}
    BY DEF CheckResults
  <2>2. CASE Inspect(r)
    <3>1. PICK next \in CheckResults :
            run' = [run EXCEPT ![r].pc = next, ![r].seen = art[Pair[run[r].node]]]
      BY <2>2 DEF Inspect
    <3>2. run'[r].pc = next
      BY <3>1, CalmTypes DEF Task
    <3> QED BY <2>1, <3>2
  <2>3. CASE CheckStamp(r)
    BY <2>3, CalmTypes DEF CheckStamp, Task
  <2> QED BY <1>4, <2>2, <2>3
<1>5. CASE ReviveQa(r)
  BY <1>0, <1>5 DEF ReviveQa, Engaged
<1> QED BY <1>1, <1>2, <1>3, <1>4, <1>5, NobodySendsBack
        DEF SendsBack, CalmInv, Tasks, NoCascades, ExecuteNode, BlockWrite, RejectSelf,
            RejectCompleted, Cascade, EarlyInvalidate, EarlyResetPair, EarlyReopenGates

\* Every step of a task leaves something pending: it goes on, it enqueues the
\* DAG, or it has suspended its node.
LEMMA TaskPending ==
  ASSUME Calm, CalmInv, NEW r \in Run, Execute(r)
  PROVE  Pending'
<1>0. queue \in Nat
  BY DEF CalmInv, TypeOK
<1>1. CASE RunTransition(r) /\ UNCHANGED execVars
  <2>1. /\ Engaged(r) /\ run[r].pc = "cas"
        /\ \/ run[r].to = "READY" /\ node[run[r].node].retry < MaxRetries
           \/ run[r].to = "FAILED" /\ node[run[r].node].retry = MaxRetries
    BY <1>1 DEF RunTransition, Engaged, CalmInv, Tasks, Owners, OwnsRow
  <2>2. IsValid(run[r].row.state, run[r].to)
    BY <2>1, EngagedNode DEF IsValid, VALID_TRANSITIONS
  <2>3. run'[r].pc \in {"return", "reload"}
    BY <1>1, <2>2, CalmTypes DEF RunTransition, Goto, Task
  <2> QED BY <2>3 DEF Pending
<1>2. CASE LimitReached(r)
  <2>1. run[r].node \in Node /\ Write(run[r].node, "SUSPENDED")
    BY <1>2, CalmTypes DEF LimitReached, Task
  <2>2. node'[run[r].node].state = "SUSPENDED"
    BY <2>1, CalmTypes DEF Write, Row
  <2> QED BY <2>1, <2>2 DEF Pending
<1>3. CASE Success(r)
  BY <1>0, <1>3 DEF Success, Pending
<1>4. CASE Acquire(r) \/ CountRetry(r) \/ RunReload(r)
  <2>1. run'[r].pc # "free"
    BY <1>4, CalmTypes DEF Acquire, CountRetry, RunReload, Goto, Task
  <2> QED BY <2>1 DEF Pending
<1>5. CASE ExecuteNode(r)
  <2>1. run'[r].pc # "free"
    BY <1>5, ExecuteNodeOn
  <2> QED BY <2>1 DEF Pending
<1> QED BY <1>1, <1>2, <1>3, <1>4, <1>5 DEF Execute, RunNodeSafe

\* No step of a task puts a node in progress, and one that lets go of its node
\* writes a result there.
LEMMA TaskManned ==
  ASSUME Calm, CalmInv, Manned, NEW r \in Run, Execute(r)
  PROVE  Manned'
<1> DEFINE n == run[r].node
<1>0. /\ UNCHANGED adv /\ \A s \in Run \ {r} : run'[s] = run[s]
      /\ run'[r].pc = "free" \/ run'[r].node = n
  BY ExecuteNodeRun, RunNodeSafeRun
     DEF CalmInv, Execute, ExecuteNode, StallGuard, PairGuard, DepGuard, SuspendWrite,
         BlockWrite, Work, BuildProgrammatic, BudgetWrite, FindDefects, SendBack,
         SendBackQa, SendBackGate, Complete, ReviveQa, Inspect, CheckStamp,
         Judge, RejectSelf, RejectCompleted, RejectTask, Cascade, EarlyInvalidate,
         EarlyResetPair, EarlyReopenGates, RunNodeSafe, Acquire, Success, LimitReached,
         CountRetry, RunTransition, RunReload
<1>1. Moving' = Moving /\ Cur' = Cur /\ n \in Node /\ Pair[n] \in Node
  BY <1>0, CalmTypes, GraphAssumption DEF Moving, Cur, Task
<1>2. \/ UNCHANGED node
      \/ \E m \in Node, s \in NodeState \ {"IN_PROGRESS"} : Write(m, s) \/ WriteBump(m, s)
      \/ \E retry : node' = [node EXCEPT ![n].retry = retry]
  <2>1. CASE ExecuteNode(r)
    BY <1>1, <2>1, NobodySendsBack
       DEF SendsBack, CalmInv, Tasks, NoCascades, ExecuteNode, StallGuard, PairGuard,
           DepGuard, SuspendWrite, BlockWrite, Work, BuildProgrammatic, BudgetWrite, Complete, ReviveQa, Inspect,
           CheckStamp, Judge, RejectSelf, RejectCompleted, RejectTask, Cascade,
           EarlyInvalidate, EarlyResetPair, EarlyReopenGates, NodeState, execVars
  <2>2. CASE RunTransition(r) /\ UNCHANGED execVars
    BY <1>1, <2>2, CalmRunTransition DEF NodeState
  <2>3. CASE LimitReached(r) \/ CountRetry(r)
    BY <1>1, <2>3 DEF LimitReached, CountRetry, NodeState
  <2>4. CASE Acquire(r) \/ Success(r) \/ RunReload(r)
    BY <2>4 DEF Acquire, Success, RunReload
  <2> QED BY <2>1, <2>2, <2>3, <2>4 DEF Execute, RunNodeSafe
<1>3. \A m \in Node : node'[m].state = "IN_PROGRESS" => node[m].state = "IN_PROGRESS"
  <2>1. ASSUME NEW k \in Node, NEW s \in NodeState \ {"IN_PROGRESS"},
               Write(k, s) \/ WriteBump(k, s)
        PROVE  \A m \in Node : node'[m].state \in {node[m].state, s}
    <3>1. CASE Write(k, s)
      BY <3>1, CalmTypes DEF Write, Row
    <3>2. CASE WriteBump(k, s)
      BY <3>2, CalmTypes DEF WriteBump, Row
    <3> QED BY <2>1, <3>1, <3>2
  <2>2. ASSUME NEW retry, node' = [node EXCEPT ![n].retry = retry]
        PROVE  \A m \in Node : node'[m].state = node[m].state
    BY <1>1, <2>2, CalmTypes DEF Row
  <2> QED BY <1>2, <2>1, <2>2
<1>4. Engaged(r) /\ ~Engaged(r)' => node'[n].state # "IN_PROGRESS"
  <2> SUFFICES ASSUME Engaged(r), run'[r].pc \in {"free", "revive", "return"}
               PROVE  node'[n].state # "IN_PROGRESS"
    BY DEF Engaged
  <2>1. CASE ExecuteNode(r)
    <3>1. SuspendWrite(r) \/ Complete(r) \/ BudgetWrite(r)
      BY <2>1, ExecuteNodeOn
    <3>2. \E s \in {"SUSPENDED", "COMPLETED", "NOT_STARTED", "BLOCKED"} : Write(n, s)
      BY <3>1 DEF SuspendWrite, Complete, BudgetWrite
    <3> QED BY <1>1, <3>2, CalmTypes DEF Write, Row
  <2>2. CASE RunTransition(r) /\ UNCHANGED execVars
    <3>1. WriteBump(n, run[r].to) /\ run[r].to \in {"READY", "FAILED"}
      BY <2>2, CalmRunTransition
    <3> QED BY <1>1, <3>1, CalmTypes DEF WriteBump, Row
  <2>3. CASE LimitReached(r)
    BY <1>1, <2>3, CalmTypes DEF LimitReached, Write, Row
  <2>4. CASE Success(r)
    BY <2>4 DEF Success, Engaged
  <2>5. CASE RunReload(r)
    BY <2>5 DEF RunReload, CalmInv, Tasks, NoCascades
  <2>6. CASE Acquire(r) \/ CountRetry(r)
    <3>1. run[r].pc = "queued" => run[r].row.state = "IN_PROGRESS"
      BY EngagedNode
    <3> QED BY <2>6, <3>1, CalmTypes DEF Acquire, CountRetry, Goto, Task
  <2> QED BY <2>1, <2>2, <2>3, <2>4, <2>5, <2>6 DEF Execute, RunNodeSafe
<1> SUFFICES ASSUME NEW m \in Node, node'[m].state = "IN_PROGRESS",
                    ~(Moving /\ Cur = m /\ IsGate(m))
             PROVE  \E s \in Run : Engaged(s)' /\ run'[s].node = m
  BY <1>1 DEF Manned
<1>5. PICK s \in Run : Engaged(s) /\ run[s].node = m
  BY <1>3 DEF Manned
<1>6. CASE s = r
  <2>1. Engaged(r)'
    BY <1>4, <1>5, <1>6
  <2> QED BY <1>0, <1>5, <1>6, <2>1 DEF Engaged
<1>7. CASE s # r
  BY <1>0, <1>5, <1>7 DEF Engaged
<1> QED BY <1>6, <1>7

\* After a transition the advancer goes on to the next node when it has blocked
\* this one, found no room for it, or decided a gate.
LEMMA FollowNext ==
  ASSUME NEW n, NEW to \in NodeState, NEW launch \in Launch, launch # "uncounted",
         Follow(n, to, to, launch) = "NEXT"
  PROVE  to # "IN_PROGRESS" /\ (to = "READY" => launch = "no" /\ ~IsGate(n))
BY DEF Follow, IsGate, Launch, NodeState

\* Nothing a cycle has passed depends on the node it is at.
LEMMA PassedApart ==
  ASSUME CalmInv, InCycle, adv.i <= Len(Order), NEW m \in Node, ~Ahead(m)
  PROVE  m # Cur /\ Cur \notin Deps[m]
<1>1. PICK j \in 1..Len(Order) : Order[j] = m
  BY OrderAssumption
<1>2. adv.i \in 1..Len(Order) /\ ~(adv.i <= j)
  BY <1>1, CalmTypes DEF Ahead
<1>3. m # Cur
  BY <1>2 DEF Ahead, Cur
<1>4. Cur \notin Deps[m]
  <2>1. Cur \in Deps[m] => adv.i < j
    BY <1>1, <1>2, OrderAssumption DEF Cur
  <2> QED BY <1>2, <2>1, CalmTypes
<1> QED BY <1>3, <1>4

\* Passing a node leaves the others where they are.
LEMMA PassOne ==
  ASSUME CalmInv, InCycle, adv.i <= Len(Order), adv'.i = adv.i + 1, InCycle',
         NEW m \in Node, ~Ahead(m)'
  PROVE  ~Ahead(m) \/ m = Cur
<1> SUFFICES ASSUME Ahead(m) PROVE m = Cur
  OBVIOUS
<1>1. PICK j \in 1..Len(Order) : adv.i <= j /\ Order[j] = m
  BY DEF Ahead
<1>2. ~(adv'.i <= j)
  BY <1>1 DEF Ahead
<1>3. j = adv.i
  BY <1>1, <1>2, CalmTypes
<1> QED BY <1>1, <1>3 DEF Cur

LEMMA RestEvaluate ==
  ASSUME CalmInv, Rest, Evaluate
  PROVE  Manned' /\ Planned' /\ Caught'
<1> DEFINE plan == Plan(Cur)
<1>0. /\ InCycle /\ ~Moving /\ adv.pc = "eval" /\ adv.i <= Len(Order)
      /\ UNCHANGED <<node, dag, queue, run>>
      /\ adv' = IF plan.to = "none"
                THEN [adv EXCEPT !.i = @ + 1]
                ELSE [adv EXCEPT !.pc = "cas", !.to = plan.to, !.tries = 0,
                                 !.launch = plan.launch]
  BY DEF Evaluate, InCycle, Moving, Cur
<1>1. Cur \in Node
  BY <1>0, InOrder DEF CalmInv, Cur
<1> HIDE DEF plan
<1>2. /\ adv'.snap = adv.snap /\ adv'.count = adv.count
      /\ \/ plan.to = "none" /\ adv'.pc = "eval" /\ adv'.i = adv.i + 1
         \/ /\ plan.to # "none" /\ adv'.pc = "cas" /\ adv'.i = adv.i /\ adv'.to = plan.to
            /\ adv'.launch = plan.launch
  BY <1>0, CalmTypes DEF Advancer
<1>3. Manned'
  BY <1>0 DEF Rest, Manned, Engaged
<1>4. Planned'
  <2> SUFFICES ASSUME Moving' PROVE Planned'
    BY DEF Planned
  <2>1. adv'.to = plan.to /\ adv'.launch = plan.launch /\ Cur' = Cur
    BY <1>2 DEF Moving, Cur
  <2>2. plan.to = "BLOCKED" => ~DepsDone(adv.snap, Cur)
    BY DEF plan, Plan, Unblocked, DepFailed, DepsDone, Failing, Done
  <2>3. plan.to = "READY" /\ plan.launch = "no" => ~Room
    BY DEF plan, Plan
  <2>4. ~Room => adv.count >= MaxConcurrent
    BY CalmTypes, BoundAssumption DEF Room
  <2> QED BY <1>2, <2>1, <2>2, <2>3, <2>4 DEF Planned, DepsDone
<1>5. Caught'
  <2> SUFFICES ASSUME ~Pending' PROVE Caught'
    BY DEF Caught
  <2>1. ~Pending
    BY <1>0 DEF Pending
  <2>2. adv.snap = node /\ adv.count = 0 /\ \A m \in Node : ~Ahead(m) => Resting(m)
    BY <1>0, <2>1 DEF Rest, Caught
  <2>3. plan.to = "none" => Resting(Cur)
    <3> SUFFICES ASSUME node[Cur].state \in Restartable \union {"READY", "IN_PROGRESS"},
                        DepsDone(node, Cur)
                 PROVE  plan.to # "none"
      BY DEF Resting
    <3>1. node[Cur].state # "IN_PROGRESS"
      BY <1>0, <1>1, <2>1 DEF Rest, Manned, Pending, Engaged
    <3>2. node[Cur].state \notin Settled \union {"FAILED"}
      BY <3>1 DEF Settled, Restartable
    <3>3. ~DepFailed(adv.snap, Cur) /\ Unblocked(Cur)
      BY <2>2 DEF DepsDone, DepFailed, Unblocked, Done, Failing
    <3>4. Room
      BY <2>2, BoundAssumption DEF Room
    <3> QED BY <2>2, <3>2, <3>3, <3>4 DEF plan, Plan
  <2>4. ASSUME NEW m \in Node, ~Ahead(m)' PROVE Resting(m)
    <3>1. CASE plan.to = "none"
      <4>1. ~Ahead(m) \/ m = Cur
        BY <1>0, <1>2, <2>4, <3>1, PassOne DEF InCycle
      <4> QED BY <2>2, <2>3, <3>1, <4>1
    <3>2. CASE plan.to # "none"
      BY <1>0, <1>2, <2>2, <2>4, <3>2 DEF Ahead, InCycle
    <3> QED BY <3>1, <3>2
  <2> QED BY <1>0, <1>2, <2>2, <2>4 DEF Caught, Resting, DepsDone
<1> QED BY <1>3, <1>4, <1>5

\* The compare-and-set that succeeds.
LEMMA RestMoved ==
  ASSUME CalmInv, Rest, Moving, adv.snap[Cur].version = node[Cur].version,
         WriteBump(Cur, adv.to), UNCHANGED <<art, stamp, casc, dag, queue>>,
         Return([adv.snap[Cur] EXCEPT !.state = adv.to, !.version = @ + 1])
  PROVE  Manned' /\ Planned' /\ Caught'
<1> DEFINE n    == Cur
           done == [adv.snap[n] EXCEPT !.state = adv.to, !.version = @ + 1]
           what == Follow(n, adv.to, done.state, adv.launch)
           snap == [adv.snap EXCEPT ![n] = done]
<1>1. /\ node[n] = adv.snap[n]
      /\ node' \in [Node -> Row] /\ \A m \in Node \ {n} : node'[m] = node[m]
      /\ node'[n] = done /\ done.state = adv.to
  BY CalmMoved
<1>2. /\ n \in Node /\ InCycle /\ adv.i <= Len(Order) /\ adv.to \in NodeState
      /\ adv.launch \in Launch /\ adv.launch # "uncounted"
      /\ node[n].state # "SUSPENDED" /\ Ahead(n)
  BY <1>1, MovingNode, CalmTypes
     DEF CalmInv, Cycle, Move, InCycle, Moving, Steps, GateSteps
<1>3. what = Follow(n, adv.to, adv.to, adv.launch)
  BY <1>1
<1>4. /\ what = "NEXT" => /\ adv.to # "IN_PROGRESS"
                          /\ adv.to = "READY" => adv.launch = "no" /\ ~IsGate(n)
      /\ what = "LAUNCH" => ~IsGate(n)
      /\ what \in {"NEXT", "LAUNCH", "IN_PROGRESS", "COMPLETED", "AWAITING_APPROVAL"}
      /\ what \in {"COMPLETED", "AWAITING_APPROVAL"} => IsGate(n)
      /\ what = "IN_PROGRESS" => adv.to # "IN_PROGRESS"
  <2> HIDE DEF what, n, done
  <2>1. what = "NEXT" => /\ adv.to # "IN_PROGRESS"
                         /\ adv.to = "READY" => adv.launch = "no" /\ ~IsGate(n)
    BY <1>2, <1>3, FollowNext
  <2> QED BY <1>2, <1>3, <2>1, FollowCases
<1> HIDE DEF done, what
<1>5. /\ adv'.snap = snap /\ adv'.launch = adv.launch
      /\ \/ /\ what = "NEXT" /\ adv'.pc = "eval" /\ adv'.i = adv.i + 1
            /\ adv'.count = adv.count /\ UNCHANGED run
         \/ what = "LAUNCH" /\ adv'.pc = "eval" /\ Start(n, done)
         \/ /\ what \in NodeState /\ adv'.pc = "cas" /\ adv'.i = adv.i
            /\ adv'.to = what /\ adv'.count = adv.count /\ UNCHANGED run
  <2>1. \/ /\ what = "NEXT" /\ UNCHANGED run
           /\ adv' = [adv EXCEPT !.pc = "eval", !.snap = snap, !.i = @ + 1]
        \/ /\ what = "LAUNCH" /\ Start(n, done)
           /\ adv' = [adv EXCEPT !.pc = "eval", !.snap = snap, !.i = @ + 1,
                        !.count = IF adv.launch = "counted" THEN @ + 1 ELSE @]
        \/ /\ what \in NodeState /\ UNCHANGED run
           /\ adv' = [adv EXCEPT !.pc = "cas", !.snap = snap, !.to = what, !.tries = 0]
    BY DEF Return, Cur, what, done
  <2> HIDE DEF snap
  <2> QED BY <2>1, CalmTypes DEF Advancer
<1>6. snap[n] = done /\ \A m \in Node \ {n} : snap[m] = adv.snap[m]
  BY <1>2, CalmTypes
<1>7. snap \in [Node -> Row]
  BY <1>1, <1>2, CalmTypes
\* The tasks are those there were, and perhaps a new one on n.
<1>8. \A s \in Run : Engaged(s) => Engaged(s)' /\ run'[s] = run[s]
  <2>1. CASE UNCHANGED run
    BY <2>1 DEF Engaged
  <2>2. CASE Start(n, done)
    BY <2>2, CalmTypes DEF Start, FreeRuns, Engaged
  <2> QED BY <1>5, <2>1, <2>2
<1>9. what = "LAUNCH" => \E s \in Run : Engaged(s)' /\ run'[s].node = n
  <2> SUFFICES ASSUME what = "LAUNCH" PROVE \E s \in Run : Engaged(s)' /\ run'[s].node = n
    OBVIOUS
  <2>1. PICK r \in FreeRuns :
          run' = [run EXCEPT ![r] = [Free EXCEPT !.pc = "queued", !.node = n, !.row = done]]
    BY <1>5 DEF Start, NodeState
  <2> HIDE DEF n
  <2>2. r \in Run /\ run'[r].pc = "queued" /\ run'[r].node = n
    BY <2>1, CalmTypes, FreeType DEF FreeRuns, Task
  <2> QED BY <2>2 DEF Engaged
<1>10. Manned'
  <2> SUFFICES ASSUME NEW m \in Node, node'[m].state = "IN_PROGRESS",
                      \A s \in Run : ~(Engaged(s)' /\ run'[s].node = m)
               PROVE  (Moving /\ Cur = m /\ IsGate(m))'
    BY DEF Manned
  <2>1. CASE m = n
    <3>1. adv.to = "IN_PROGRESS" /\ what \notin {"NEXT", "LAUNCH"}
      BY <1>1, <1>4, <1>9, <2>1
    <3>2. IsGate(n) /\ adv'.pc = "cas" /\ adv'.i = adv.i
      BY <1>4, <1>5, <3>1
    <3> QED BY <2>1, <3>2 DEF Moving, Cur, IsGate
  <2>2. CASE m # n
    BY <1>1, <1>8, <2>2 DEF Rest, Manned
  <2> QED BY <2>1, <2>2
<1>11. Planned'
  BY <1>4, <1>5 DEF Planned, Moving
<1>12. Caught'
  <2> SUFFICES ASSUME ~Pending' PROVE Caught'
    BY DEF Caught
  <2>1. what # "LAUNCH"
    BY <1>9 DEF Pending, Engaged
  <2>2. UNCHANGED run /\ adv.pc # "load"
    BY <1>5, <2>1 DEF Moving
  <2>3. ~Pending
    BY <1>1, <1>2, <2>2 DEF Pending
  <2>4. adv.snap = node /\ adv.count = 0 /\ \A m \in Node : ~Ahead(m) => Resting(m)
    BY <1>2, <2>3 DEF Rest, Caught
  <2>5. adv'.snap = node' /\ adv'.count = 0
    BY <1>1, <1>5, <1>6, <1>7, <2>1, <2>4
  <2>6. ASSUME NEW m \in Node, ~Ahead(m) PROVE Resting(m)'
    <3>1. m # n /\ n \notin Deps[m] /\ Deps[m] \subseteq Node
      BY <1>2, <2>6, PassedApart, NotOwnDep
    <3>2. node'[m] = node[m] /\ \A d \in Deps[m] : node'[d] = node[d]
      BY <1>1, <3>1
    <3>3. Resting(m)
      BY <2>4, <2>6
    <3> QED BY <3>2, <3>3 DEF Resting, DepsDone
  <2>7. ASSUME NEW m \in Node, m = n, what = "NEXT" PROVE Resting(m)'
    <3> SUFFICES ASSUME DepsDone(node', m)
                 PROVE  adv.to \notin Restartable \union {"READY", "IN_PROGRESS"}
      BY <1>1, <2>7 DEF Resting
    <3>1. DepsDone(adv.snap, n)
      <4>1. n \notin Deps[n] /\ Deps[n] \subseteq Node
        BY <1>2, NotOwnDep
      <4> QED BY <1>1, <2>4, <2>7, <4>1 DEF DepsDone
    <3>2. adv.to # "BLOCKED"
      BY <3>1 DEF Rest, Planned
    <3>3. adv.to # "READY"
      BY <1>4, <2>4, <2>7, BoundAssumption DEF Rest, Planned
    <3>4. adv.to \notin {"NOT_STARTED", "INVALID"}
      BY DEF CalmInv, Cycle, Move, Steps, GateSteps
    <3> QED BY <1>4, <2>7, <3>2, <3>3, <3>4 DEF Restartable
  <2>8. ASSUME NEW m \in Node, ~Ahead(m)' PROVE Resting(m)'
    <3>1. CASE what = "NEXT"
      <4>1. InCycle' /\ adv'.i = adv.i + 1
        BY <1>5, <3>1 DEF InCycle, NodeState
      <4> QED BY <1>2, <2>6, <2>7, <2>8, <3>1, <4>1, PassOne
    <3>2. CASE what # "NEXT"
      <4>1. ~Ahead(m)
        BY <1>2, <1>5, <2>1, <2>8, <3>2 DEF Ahead, InCycle
      <4> QED BY <2>6, <4>1
    <3> QED BY <3>1, <3>2
  <2> QED BY <2>5, <2>8 DEF Caught
<1> QED BY <1>10, <1>11, <1>12

LEMMA RestTransition ==
  ASSUME CalmInv, Rest, Transition, UNCHANGED execVars
  PROVE  Manned' /\ Planned' /\ Caught'
<1>0. Moving /\ UNCHANGED <<art, stamp, casc, dag, queue>>
  BY DEF Transition, Moving, execVars
<1>1. IsValid(adv.snap[Cur].state, adv.to)
  BY <1>0, MoveStep
<1>2. CASE adv.snap[Cur].version = node[Cur].version
  <2>1. /\ WriteBump(Cur, adv.to)
        /\ Return([adv.snap[Cur] EXCEPT !.state = adv.to, !.version = @ + 1])
    BY <1>1, <1>2 DEF Transition, Cur
  <2> QED BY <1>0, <1>2, <2>1, RestMoved
<1>3. CASE adv.snap[Cur].version # node[Cur].version
  <2>1. adv' = [adv EXCEPT !.pc = "reload"] /\ UNCHANGED <<node, run>> /\ adv.pc = "cas"
    BY <1>1, <1>3 DEF Transition, Cur
  <2>2. /\ adv'.pc = "reload" /\ adv'.snap = adv.snap /\ adv'.i = adv.i /\ adv'.to = adv.to
        /\ adv'.launch = adv.launch /\ adv'.count = adv.count
    BY <2>1, CalmTypes DEF Advancer
  <2>3. Moving' /\ Cur' = Cur /\ InCycle /\ InCycle' /\ \A m : Ahead(m)' = Ahead(m)
    BY <1>0, <2>2 DEF Moving, Cur, InCycle, Ahead
  <2>4. Manned'
    BY <1>0, <2>1, <2>3 DEF Rest, Manned, Engaged
  <2>5. Planned'
    BY <1>0, <2>2, <2>3 DEF Rest, Planned, DepsDone
  <2>6. Pending' = Pending
    BY <1>0, <2>1, <2>2 DEF Pending
  <2>7. Caught'
    BY <2>1, <2>2, <2>3, <2>6 DEF Rest, Caught, Resting, DepsDone
  <2> QED BY <2>4, <2>5, <2>7
<1> QED BY <1>2, <1>3

\* The one conflict comes from a task, which is pending or has enqueued the DAG.
LEMMA RestReload ==
  ASSUME CalmInv, Rest, Reload, UNCHANGED execVars
  PROVE  Manned' /\ Planned' /\ Caught'
<1> DEFINE row == Adopted(adv.snap[Cur], node[Cur])
<1>0. /\ Moving /\ InCycle /\ adv.pc = "reload" /\ UNCHANGED <<node, dag, queue>>
  BY DEF Reload, Moving, InCycle
<1>1. Revived(Cur) /\ adv.tries = 0 /\ adv.to = "READY" /\ Cur \in Node
  BY <1>0, MovingNode DEF CalmInv, Cycle, Move, Revived, Steps, GateSteps
<1>2. ~EndsOnReload(node[Cur], adv.to, adv.tries)
  BY <1>1 DEF EndsOnReload, IsValid, VALID_TRANSITIONS, Revived
<1>3. /\ adv' = [adv EXCEPT !.pc = "cas", !.snap[Cur] = row, !.tries = @ + 1]
      /\ UNCHANGED run
  BY <1>2 DEF Reload, Cur
<1> HIDE DEF row
<1>4. /\ adv'.pc = "cas" /\ adv'.i = adv.i /\ adv'.to = "READY" /\ adv'.launch = adv.launch
      /\ adv'.count = adv.count
  BY <1>1, <1>3, CalmTypes DEF Advancer
<1>5. Moving' /\ Cur' = Cur
  BY <1>4 DEF Moving, Cur
<1>6. Manned'
  BY <1>0, <1>3, <1>5 DEF Rest, Manned, Engaged
<1>7. Planned'
  BY <1>0, <1>1, <1>4, <1>5 DEF Rest, Planned
<1>8. Pending
  BY <1>0, <1>1 DEF Rest, Caught, Revived
<1>9. Pending'
  BY <1>0, <1>3, <1>8 DEF Pending
<1> QED BY <1>6, <1>7, <1>9 DEF Caught

LEMMA RestAdvance ==
  ASSUME CalmInv, Rest, Advance, UNCHANGED execVars
  PROVE  Rest'
<1>1. dag' # "PAUSED"
  BY DEF Rest, Advance, Dequeue, Load, Evaluate, Transition, Reload, Finish
<1>2. CASE Dequeue
  <2>1. adv'.pc = "load" /\ ~Moving /\ ~Moving' /\ UNCHANGED <<node, run>>
    BY <1>2, CalmTypes DEF Dequeue, Rest, Advancer, Moving
  <2> QED BY <1>1, <2>1 DEF Rest, Manned, Planned, Caught, Pending, Engaged
<1>3. CASE Load
  <2> DEFINE busy == {n \in Node : node[n].state = "IN_PROGRESS"}
  <2>1. /\ adv'.pc = "eval" /\ adv'.snap = node /\ adv'.count = Cardinality(busy)
        /\ adv'.i = 1 /\ ~Moving /\ ~Moving' /\ UNCHANGED <<node, run, queue>>
    BY <1>3, CalmTypes DEF Load, Advancer, Moving
  <2>2. Manned' /\ Planned'
    BY <2>1 DEF Rest, Manned, Planned, Engaged
  <2>3. ASSUME ~Pending' PROVE busy = {}
    BY <2>1, <2>3 DEF Pending, Rest, Manned, Engaged
  <2>4. ASSUME NEW m \in Node PROVE Ahead(m)'
    <3>1. PICK j \in 1..Len(Order) : Order[j] = m
      BY OrderAssumption
    <3> QED BY <2>1, <3>1, CalmTypes DEF Ahead, InCycle
  <2>5. Caught'
    BY <2>1, <2>3, <2>4, FS_EmptySet DEF Caught
  <2> QED BY <1>1, <2>2, <2>5 DEF Rest
<1>4. CASE Evaluate
  BY <1>1, <1>4, RestEvaluate DEF Rest
<1>5. CASE Transition
  BY <1>1, <1>5, RestTransition DEF Rest
<1>6. CASE Reload
  BY <1>1, <1>6, RestReload DEF Rest
<1>7. CASE Finish
  <2>1. /\ adv.pc = "eval" /\ adv.i > Len(Order) /\ adv'.pc = "wait"
        /\ UNCHANGED <<node, run, queue>>
    BY <1>7, WaitingType DEF Finish, Waiting
  <2>2. InCycle /\ ~InCycle' /\ ~Moving /\ ~Moving' /\ \A m : ~Ahead(m)
    BY <2>1, CalmTypes DEF InCycle, Moving, Ahead
  <2>3. Manned' /\ Planned'
    BY <2>1, <2>2 DEF Rest, Manned, Planned, Engaged
  <2>4. Pending' = Pending
    BY <2>1 DEF Pending
  <2>5. Caught'
    BY <2>1, <2>2, <2>4 DEF Rest, Caught, Resting, DepsDone
  <2> QED BY <1>1, <2>3, <2>5 DEF Rest
<1> QED BY <1>2, <1>3, <1>4, <1>5, <1>6, <1>7 DEF Advance

LEMMA RestInit == Init => Rest
<1> SUFFICES ASSUME Init PROVE Rest
  OBVIOUS
<1>1. /\ queue > 0 /\ dag # "PAUSED" /\ adv.pc = "wait"
      /\ \A n \in Node : node[n].state # "IN_PROGRESS"
  BY DEF Init, EngineInit, InitialRow, Waiting
<1> QED BY <1>1 DEF Rest, Manned, Planned, Caught, Pending, Moving

LEMMA RestNext == Calm /\ CalmInv /\ Rest /\ [Next]_vars => Rest'
<1> SUFFICES ASSUME Calm, CalmInv, Rest, [Next]_vars PROVE Rest'
  OBVIOUS
<1>1. CASE Advance /\ UNCHANGED execVars
  BY <1>1, RestAdvance
<1>2. ASSUME NEW r \in Run, Execute(r) PROVE Rest'
  <2>1. UNCHANGED <<adv, dag>>
    BY <1>2
       DEF Execute, ExecuteNode, StallGuard, PairGuard, DepGuard, SuspendWrite, BlockWrite,
           Work, BuildProgrammatic, BudgetWrite, FindDefects, SendBack, SendBackQa,
           SendBackGate, Complete, ReviveQa, Inspect, CheckStamp, Judge,
           RejectSelf, RejectCompleted, RejectTask, Cascade, EarlyInvalidate,
           EarlyResetPair, EarlyReopenGates, RunNodeSafe, Acquire, Success, LimitReached,
           CountRetry, RunTransition, RunReload
  <2>2. Manned' /\ Pending'
    BY <1>2, TaskManned, TaskPending DEF Rest
  <2> QED BY <2>1, <2>2 DEF Rest, Planned, Caught, Moving, Cur, DepsDone
<1>3. ASSUME NEW q \in Node PROVE ~CascadeForNode(q)
  BY DEF CalmInv, Tasks, NoCascades, CascadeForNode, CascadeRead, CascadeApply,
         CascadeResetRetry, CascadeReopenGates, CascadeEnqueue
<1>4. CASE UNCHANGED vars
  BY <1>4 DEF Rest, Manned, Planned, Caught, Pending, Resting, Engaged, Moving, Cur,
              InCycle, Ahead, DepsDone, vars, engine
<1> QED BY <1>1, <1>2, <1>3, <1>4 DEF Next, Poll

\* At rest no node that could run is left behind, except by an execution that an
\* API limit or a stall has suspended: a task ends by enqueueing the DAG, what it
\* writes behind the cycle's back waits in the queue, and a cycle nobody disturbs
\* passes no node that could go.
THEOREM StrandedCorrect == ASSUME Calm PROVE Spec => []NothingStranded
<1>1. CalmInv /\ Rest /\ [Next]_vars => Rest'
  BY RestNext
<1>2. Spec => []Rest
  BY <1>1, RestInit, CalmCorrect, PTL DEF Spec
<1>3. Rest => NothingStranded
  <2> SUFFICES ASSUME Rest, Quiescent, NEW n \in Node, DepsDone(node, n),
                      node[n].state \in Restartable \union {"READY", "IN_PROGRESS"}
               PROVE  \E m \in Node : node[m].state = "SUSPENDED"
    BY DEF NothingStranded
  <2>1. ~Ahead(n)
    BY DEF Quiescent, Ahead, InCycle
  <2>2. ~Resting(n)
    BY DEF Resting
  <2>3. Pending
    BY <2>1, <2>2 DEF Rest, Caught
  <2> QED BY <2>3 DEF Pending, Quiescent
<1> QED BY <1>2, <1>3, PTL
=============================================================================
