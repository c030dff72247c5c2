---------------------------- MODULE ExecutorCalm ----------------------------
(***************************************************************************)
(* What Executor keeps while no verdict of a model approves, no check      *)
(* rewrites a QA's own row and no test sends finished work back: an        *)
(* inductive invariant of the advancer and its tasks, proved for every     *)
(* graph, order, limit and number of tasks.  ExecutorTheorems draws the    *)
(* properties.                                                             *)
(***************************************************************************)
EXTENDS ExecutorProofs

\* The outcomes after which every write is the owner's own or a rejected
\* TASK's: the four left out start a cascade, send finished TASKs back or
\* rewrite the QA's own row while its task still holds it, and TLC finds
\* counterexamples with each.
\* _insert_node gives a TASK and its QA the same initial state.
Calm ==
  /\ Outcome \intersect {"approve", "defect", "reject_invalid", "reject_completed"} = {}
  /\ \A n \in Skipped : Pair[n] \in Skipped

-----------------------------------------------------------------------------
(* The invariant *)

\* A task whose node is still IN_PROGRESS on its behalf.
Engaged(r) == run[r].pc \notin {"free", "revive", "return"}

InCycle == adv.pc \in {"eval", "cas", "reload"}

\* A transition is under way, on node Cur.
Moving == adv.pc \in {"cas", "reload"}
Cur == Order[adv.i]

\* The nodes this cycle has not passed.
Ahead(n) == InCycle /\ \E j \in 1..Len(Order) : adv.i <= j /\ Order[j] = n

\* The table against the snapshot: unchanged, or a BLOCKED QA reopened since.
Same(n) == node[n] = adv.snap[n]
Revived(n) ==
  /\ Type[n] = "QA"
  /\ adv.snap[n].state = "BLOCKED" /\ node[n].state = "NOT_STARTED"
  /\ node[n].retry = adv.snap[n].retry
  /\ adv.snap[n].version < node[n].version

\* No cascade, no stamp, no conflict of a task's own transition.
NoCascades ==
  /\ \A q \in Node : casc[q].pc = "idle" /\ stamp[q] = 0
  /\ \A r \in Run : run[r].pc \notin
       {"block", "approve", "cascade", "early", "early_pair", "early_gate",
        "defects", "defects_qa", "defects_gate",
        "reject_invalid", "reject_completed", "reload"}

\* The SKIPPED nodes are those of intake and never run.
Skips ==
  /\ \A n \in Node : node[n].state = "SKIPPED" <=> n \in Skipped
  /\ \A r \in Run : run[r].pc # "free" => run[r].node \notin Skipped

Roles ==
  \A r \in Run :
    /\ run[r].pc \in {"build", "over", "revive"} => Type[run[r].node] = "TASK"
    /\ run[r].pc = "over" => "budget" \in Outcome
    /\ run[r].pc \in {"inspect", "stamp", "reject_kept"} => Type[run[r].node] = "QA"

\* The row is as the task left it, and the node still has an attempt unless
\* the task is about to write FAILED.
OwnsRow(r) ==
  LET n == run[r].node
  IN  /\ node[n].state = "IN_PROGRESS"
      /\ run[r].row = node[n]
      /\ run[r].pc # "cas" => node[n].retry < MaxRetries
      /\ run[r].pc = "cas" =>
           \/ run[r].to = "READY" /\ node[n].retry < MaxRetries
           \/ run[r].to = "FAILED" /\ node[n].retry = MaxRetries

\* What the task works on is finished and stays the version it has read.
InputStands(r) ==
  LET n == run[r].node
  IN  /\ run[r].pc \notin {"fail", "cas"} => DepsDone(node, n)
      /\ Type[n] = "QA" /\ run[r].pc \in {"stamp", "work", "pass", "reject_kept"}
           => run[r].seen = art[Pair[n]]

Owners ==
  /\ \A r \in Run : Engaged(r) => OwnsRow(r) /\ InputStands(r)
  /\ \A r, s \in Run :
       Engaged(r) /\ Engaged(s) /\ r # s => run[r].node # run[s].node

\* A node whose attempts are spent is FAILED, or about to be; never a gate.
Retries ==
  \A n \in Node :
    \/ node[n].retry < MaxRetries /\ node[n].state # "FAILED"
    \/ /\ node[n].retry = MaxRetries /\ node[n].state \in {"IN_PROGRESS", "FAILED"}
       /\ ~IsGate(n)

\* A node ahead that the snapshot lets the advancer move is as in the snapshot.
Fresh ==
  \A n \in Node :
    Ahead(n) /\ adv.snap[n].state \notin Settled => Same(n) \/ Revived(n)

\* What the snapshot calls done is done: a QA or a gate for good, a TASK until
\* its QA, which alone may send it back, is no longer waiting for its turn.
SnapDone ==
  InCycle =>
    \A n \in Node : adv.snap[n].state \in Done =>
      /\ Type[n] # "TASK" => node[n].state \in Done
      /\ Type[n] = "TASK" /\ Ahead(Pair[n]) /\ adv.snap[Pair[n]].state \notin Settled
           => node[n].state \in Done

\* The transitions the advancer attempts, on any node and on gates.
Steps ==
  {<<"NOT_STARTED", "READY">>, <<"BLOCKED", "READY">>, <<"INVALID", "READY">>,
   <<"NOT_STARTED", "BLOCKED">>, <<"READY", "BLOCKED">>, <<"INVALID", "BLOCKED">>,
   <<"READY", "IN_PROGRESS">>}

GateSteps == {<<"IN_PROGRESS", "COMPLETED">>, <<"IN_PROGRESS", "AWAITING_APPROVAL">>}

\* A transition under way starts from a fresh row, or from that of a reopened
\* QA on the first try, and its plan still holds.
Move ==
  Moving =>
    /\ Same(Cur) \/ Revived(Cur)
    /\ \/ <<adv.snap[Cur].state, adv.to>> \in Steps
       \/ IsGate(Cur) /\ <<adv.snap[Cur].state, adv.to>> \in GateSteps
    /\ adv.to # "BLOCKED" => DepsDone(adv.snap, Cur)
    /\ adv.pc = "reload" => Revived(Cur)
    /\ adv.snap[Cur].state = "BLOCKED" => adv.tries = 0
    /\ adv.launch # "uncounted"
    /\ ~IsGate(Cur) =>
         /\ adv.launch = "counted" => adv.count < MaxConcurrent
         /\ adv.to = "IN_PROGRESS" => adv.launch = "counted"
         /\ adv.to = "BLOCKED" => adv.launch = "no"

\* The snapshot's count is never below the executions that are claimed.
Claimed == {n \in Node : ~IsGate(n) /\ node[n].state = "IN_PROGRESS"}
Counts ==
  /\ Cardinality(Claimed) <= MaxConcurrent
  /\ InCycle => Cardinality(Claimed) <= adv.count

\* An approved QA vouches for a finished TASK; nobody sends one back.
Approved ==
  \A q \in Node : Type[q] = "QA" /\ node[q].state = "COMPLETED"
                   => node[Pair[q]].state \in Done

Table == Skips /\ Retries /\ Approved
Tasks == NoCascades /\ Roles /\ Owners
Cycle == Fresh /\ SnapDone /\ Move /\ Counts

\* With the types and the gates apart, what every step keeps.
CalmInv == TypeOK /\ GatesApart /\ Table /\ Tasks /\ Cycle

-----------------------------------------------------------------------------
(* Facts about one state *)

LEMMA CalmTypes ==
  ASSUME CalmInv
  PROVE  /\ node \in [Node -> Row] /\ run \in [Run -> Task] /\ adv \in Advancer
         /\ adv.snap \in [Node -> Row] /\ adv.i \in Nat \ {0} /\ adv.count \in Nat
         /\ adv.to \in NodeState /\ adv.launch \in Launch /\ adv.tries \in 0..2
         /\ stamp \in [Node -> Nat] /\ casc \in [Node -> CascadeTask]
         /\ art \in [Node -> Nat] /\ Len(Order) \in Nat
BY OrderAssumption DEF CalmInv, TypeOK, Advancer

\* A row in one of the states an advance leaves alone is no longer waiting.
LEMMA SettledNotWaiting ==
  ASSUME CalmInv, NEW n \in Node, Ahead(n), adv.snap[n].state \notin Settled
  PROVE  node[n].state \notin Settled
<1>1. Same(n) \/ Revived(n)
  BY DEF CalmInv, Cycle, Fresh
<1> QED BY <1>1 DEF Same, Revived, Settled

\* The node of a transition under way is in the order, and only a gate's may be
\* IN_PROGRESS.
LEMMA MovingNode ==
  ASSUME CalmInv, Moving
  PROVE  /\ Cur \in Node
         /\ adv.i <= Len(Order)
         /\ Ahead(Cur)
         /\ ~IsGate(Cur) => adv.snap[Cur].state \notin Settled /\ node[Cur].state \notin Settled
         /\ IsGate(Cur) => Same(Cur)
<1>1. adv.i <= Len(Order) /\ adv.i \in Nat \ {0} /\ Len(Order) \in Nat
  BY CalmTypes DEF CalmInv, TypeOK, Moving
<1>2. Cur \in Node
  BY <1>1, InOrder DEF CalmInv, Cur
<1>3. Ahead(Cur)
  BY <1>1 DEF Ahead, InCycle, Moving, Cur
<1>4. ~IsGate(Cur) => adv.snap[Cur].state \notin Settled
  BY DEF CalmInv, Cycle, Move, Steps, Settled
<1>5. IsGate(Cur) => Same(Cur)
  BY DEF CalmInv, Cycle, Move, Revived, IsGate
<1> QED BY <1>1, <1>2, <1>3, <1>4, <1>5, SettledNotWaiting

\* The parts of a pair and what waits for a TASK.
LEMMA Pairs ==
  ASSUME NEW n \in Node, ~IsGate(n)
  PROVE  /\ Pair[n] \in Node /\ Pair[n] # n /\ Pair[Pair[n]] = n /\ ~IsGate(Pair[n])
         /\ Type[n] = "QA" => Type[Pair[n]] = "TASK" /\ Deps[n] = {Pair[n]}
         /\ Type[n] = "TASK" => Type[Pair[n]] = "QA" /\ Deps[Pair[n]] = {n}
         /\ Type[n] \in {"TASK", "QA"}
BY GraphAssumption DEF NodeType, IsGate

LEMMA NotOwnDep ==
  ASSUME NEW n \in Node
  PROVE  n \notin Deps[n] /\ Deps[n] \subseteq Node
<1>1. PICK i \in 1..Len(Order) : Order[i] = n
  BY OrderAssumption
<1>2. i \in Int /\ ~(i < i)
  BY OrderAssumption
<1> QED BY <1>1, <1>2, OrderAssumption, GraphAssumption

\* An engaged task's node is no gate and not settled for its QA.
LEMMA EngagedNode ==
  ASSUME CalmInv, NEW r \in Run, Engaged(r)
  PROVE  /\ run[r].node \in Node /\ ~IsGate(run[r].node)
         /\ run[r].node \notin Skipped
         /\ node[run[r].node].state = "IN_PROGRESS"
         /\ run[r].row = node[run[r].node]
<1>1. run[r].pc # "free"
  BY DEF Engaged
<1> QED BY <1>1, TaskNode DEF CalmInv, GatesApart, Table, Skips, Tasks, Owners, OwnsRow

-----------------------------------------------------------------------------
(* Steps of a task: what they leave of the advancer's cycle *)

\* A step that leaves the table and the advancer alone.
LEMMA CycleUnmoved ==
  ASSUME CalmInv, UNCHANGED <<node, adv>>
  PROVE  Cycle'
BY DEF CalmInv, Cycle, Fresh, SnapDone, Move, Counts, Claimed, Same, Revived, Ahead,
       InCycle, Moving, Cur, DepsDone, Room

LEMMA ClaimedFinite == IsFiniteSet(Claimed)
BY GraphAssumption, FS_Subset DEF Claimed

LEMMA CountsKept ==
  ASSUME CalmInv, Claimed' \subseteq Claimed, UNCHANGED adv
  PROVE  Counts'
<1>1. /\ Cardinality(Claimed') <= Cardinality(Claimed)
      /\ Cardinality(Claimed') \in Nat /\ Cardinality(Claimed) \in Nat
  BY ClaimedFinite, FS_Subset, FS_CardinalityType
<1> QED BY <1>1, BoundAssumption, CalmTypes DEF CalmInv, Cycle, Counts, InCycle

\* A write to a node the cycle has passed or leaves alone: one that is in
\* progress, or the finished TASK of a QA in progress.
LEMMA CycleKept ==
  ASSUME CalmInv, UNCHANGED adv, NEW n \in Node, ~IsGate(n),
         \A m \in Node \ {n} : node'[m] = node[m],
         \/ node[n].state = "IN_PROGRESS"
         \/ /\ node[n].state = "COMPLETED" /\ node'[n].state # "IN_PROGRESS"
            /\ Type[n] = "TASK" /\ node[Pair[n]].state = "IN_PROGRESS"
  PROVE  Cycle'
<1>0. InCycle' = InCycle /\ Moving' = Moving /\ Cur' = Cur
      /\ \A m : Ahead(m)' = Ahead(m)
  BY DEF InCycle, Moving, Cur, Ahead
<1>1. node[n].state \in Settled
  BY DEF Settled
<1>2. Fresh'
  <2> SUFFICES ASSUME NEW m \in Node, Ahead(m), adv.snap[m].state \notin Settled
               PROVE  Same(m)' \/ Revived(m)'
    BY <1>0 DEF Fresh
  <2>1. m # n
    BY <1>1, SettledNotWaiting
  <2> QED BY <2>1 DEF CalmInv, Cycle, Fresh, Same, Revived
<1>3. SnapDone'
  <2> SUFFICES ASSUME InCycle, NEW m \in Node, adv.snap[m].state \in Done
               PROVE  /\ Type[m] # "TASK" => node'[m].state \in Done
                      /\ (/\ Type[m] = "TASK" /\ Ahead(Pair[m])
                          /\ adv.snap[Pair[m]].state \notin Settled)
                           => node'[m].state \in Done
    BY <1>0 DEF SnapDone
  <2>0. /\ Type[m] # "TASK" => node[m].state \in Done
        /\ Type[m] = "TASK" /\ Ahead(Pair[m]) /\ adv.snap[Pair[m]].state \notin Settled
             => node[m].state \in Done
    BY DEF CalmInv, Cycle, SnapDone
  <2>1. CASE m # n
    BY <2>0, <2>1
  <2>2. CASE m = n /\ node[n].state = "IN_PROGRESS"
    BY <2>0, <2>2 DEF Done
  <2>3. CASE m = n /\ Type[n] = "TASK" /\ node[Pair[n]].state = "IN_PROGRESS"
    <3>1. Pair[n] \in Node /\ node[Pair[n]].state \in Settled
      BY <2>3, Pairs DEF Settled
    <3>2. Ahead(Pair[n]) => adv.snap[Pair[n]].state \in Settled
      BY <3>1, SettledNotWaiting
    <3> QED BY <2>3, <3>2
  <2> QED BY <2>1, <2>2, <2>3
<1>4. Move'
  <2> SUFFICES ASSUME Moving PROVE Move'
    BY <1>0 DEF Move
  <2>1. Cur # n
    BY <1>1, MovingNode
  <2>2. (Same(Cur) \/ Revived(Cur)) => (Same(Cur) \/ Revived(Cur))'
    BY <1>0, <2>1, MovingNode DEF Same, Revived
  <2>3. Revived(Cur) => Revived(Cur)'
    BY <1>0, <2>1, MovingNode DEF Revived
  <2> QED BY <1>0, <2>2, <2>3 DEF CalmInv, Cycle, Move, DepsDone
<1>5. Claimed' \subseteq Claimed
  BY DEF Claimed
<1> QED BY <1>2, <1>3, <1>4, <1>5, CountsKept DEF Cycle

\* A BLOCKED QA is reopened under a new version.
LEMMA CycleRevived ==
  ASSUME CalmInv, UNCHANGED adv, NEW q \in Node, Type[q] = "QA",
         node[q].state = "BLOCKED", WriteBump(q, "NOT_STARTED")
  PROVE  Cycle'
<1>0. InCycle' = InCycle /\ Moving' = Moving /\ Cur' = Cur
      /\ \A m : Ahead(m)' = Ahead(m)
  BY DEF InCycle, Moving, Cur, Ahead
<1>1. /\ \A m \in Node \ {q} : node'[m] = node[m]
      /\ node'[q].state = "NOT_STARTED" /\ node'[q].retry = node[q].retry
      /\ node'[q].version = node[q].version + 1 /\ node[q].version \in Nat
  BY CalmTypes DEF WriteBump, Row
<1>2. Same(q) => Revived(q)'
  BY <1>1 DEF Same, Revived
<1>3. ~Revived(q)
  BY DEF Revived
<1>4. \A m \in Node \ {q} : (Same(m) => Same(m)') /\ (Revived(m) => Revived(m)')
  BY <1>1 DEF Same, Revived
<1>5. Fresh'
  BY <1>0, <1>2, <1>3, <1>4 DEF CalmInv, Cycle, Fresh
<1>6. SnapDone'
  BY <1>0, <1>1 DEF CalmInv, Cycle, SnapDone, Done
<1>7. Move'
  <2> SUFFICES ASSUME Moving PROVE Move'
    BY <1>0 DEF Move
  <2>1. (Same(Cur) \/ Revived(Cur)) => (Same(Cur) \/ Revived(Cur))'
    BY <1>0, <1>2, <1>3, <1>4, MovingNode
  <2>2. Revived(Cur) => Revived(Cur)'
    BY <1>0, <1>3, <1>4, MovingNode
  <2> QED BY <1>0, <2>1, <2>2 DEF CalmInv, Cycle, Move, DepsDone
<1>8. Claimed' \subseteq Claimed
  BY <1>1 DEF Claimed
<1> QED BY <1>5, <1>6, <1>7, <1>8, CountsKept DEF Cycle

-----------------------------------------------------------------------------
(* Steps of a task: what they leave of the table and of the other tasks *)

\* One task moves; it keeps its node as long as it is engaged.
LEMMA OwnersStep ==
  ASSUME CalmInv, NEW r \in Run, \A s \in Run \ {r} : run'[s] = run[s],
         Engaged(r)' => /\ Engaged(r) /\ run'[r].node = run[r].node
                        /\ OwnsRow(r)' /\ InputStands(r)',
         \A s \in Run \ {r} : Engaged(s) => OwnsRow(s)' /\ InputStands(s)'
  PROVE  Owners'
<1>1. \A s \in Run : Engaged(s)' => Engaged(s) /\ run'[s].node = run[s].node
  BY DEF Engaged
<1>2. \A s \in Run : Engaged(s)' => OwnsRow(s)' /\ InputStands(s)'
  BY <1>1
<1> QED BY <1>1, <1>2 DEF CalmInv, Tasks, Owners

\* A task that the step does not touch still owns its row, and its input
\* stands, when the one node that changes was not finished or is not its input.
LEMMA OthersOwn ==
  ASSUME CalmInv, NEW n \in Node, \A m \in Node \ {n} : node'[m] = node[m],
         UNCHANGED art, NEW s \in Run, Engaged(s), run'[s] = run[s],
         run[s].node # n, node[n].state \in Done => n \notin Deps[run[s].node]
  PROVE  OwnsRow(s)' /\ InputStands(s)'
<1> DEFINE m == run[s].node
<1>1. m \in Node /\ node'[m] = node[m] /\ Pair[m] \in Node
  BY EngagedNode, GraphAssumption
<1>2. OwnsRow(s) /\ InputStands(s)
  BY DEF CalmInv, Tasks, Owners
<1>3. DepsDone(node, m) => DepsDone(node', m)
  BY <1>1, NotOwnDep DEF DepsDone
<1> QED BY <1>1, <1>2, <1>3 DEF OwnsRow, InputStands, DepsDone

\* A step between two control points of the same execution.
LEMMA QuietStep ==
  ASSUME CalmInv, NEW r \in Run, Engaged(r), run[r].pc # "cas",
         UNCHANGED <<node, adv, stamp, casc>>,
         \A s \in Run \ {r} : run'[s] = run[s],
         run'[r].node = run[r].node, run'[r].row = run[r].row,
         run'[r].pc \in {"stall", "suspend", "pair", "deps", "inspect", "stamp", "work",
                         "pass", "build", "over", "reject_kept", "limit", "fail"},
         run'[r].pc \in {"build", "over"} => Type[run[r].node] = "TASK",
         run'[r].pc = "over" => "budget" \in Outcome,
         run'[r].pc \in {"inspect", "stamp", "reject_kept"} => Type[run[r].node] = "QA",
         \A s \in Run : Engaged(s) /\ Engaged(s)' => InputStands(s)'
  PROVE  Table' /\ Tasks' /\ Cycle'
<1>1. Cycle'
  BY CycleUnmoved
<1>2. Table'
  BY EngagedNode DEF CalmInv, Table, Skips, Retries, Approved
<1>3. NoCascades' /\ Roles'
  BY DEF CalmInv, Tasks, NoCascades, Roles
<1>4. \A s \in Run : Engaged(s) => Engaged(s)' /\ OwnsRow(s)'
  <2> SUFFICES ASSUME NEW s \in Run, Engaged(s) PROVE Engaged(s)' /\ OwnsRow(s)'
    OBVIOUS
  <2>1. OwnsRow(s)
    BY DEF CalmInv, Tasks, Owners
  <2> QED BY <2>1 DEF OwnsRow, Engaged
<1>5. Owners'
  BY <1>4, OwnersStep
<1> QED BY <1>1, <1>2, <1>3, <1>5 DEF Tasks

\* A step that writes the result of an execution and gives its node up.
LEMMA LeaveStep ==
  ASSUME CalmInv, NEW r \in Run, Engaged(r), UNCHANGED <<adv, art, stamp, casc>>,
         NEW n, n = run[r].node,
         node' \in [Node -> Row], \A m \in Node \ {n} : node'[m] = node[m],
         node'[n].state \in {"SUSPENDED", "COMPLETED", "NOT_STARTED", "BLOCKED",
                             "READY", "FAILED"},
         node'[n].retry = node[n].retry,
         node'[n].state = "FAILED" <=> node[n].retry = MaxRetries,
         node'[n].state = "COMPLETED" => DepsDone(node, n),
         \A s \in Run \ {r} : run'[s] = run[s],
         run'[r].pc \in {"return", "revive", "free"},
         run'[r].pc # "free" => run'[r].node = n,
         run'[r].pc = "revive" => Type[n] = "TASK"
  PROVE  Table' /\ Tasks' /\ Cycle'
<1>0. /\ n \in Node /\ ~IsGate(n) /\ n \notin Skipped /\ node[n].state = "IN_PROGRESS"
      /\ Pair[n] \in Node
  BY EngagedNode, Pairs
<1>1. Cycle'
  BY <1>0, CycleKept
<1>2. Skips'
  BY <1>0 DEF CalmInv, Table, Skips
<1>3. Retries'
  BY <1>0 DEF CalmInv, Table, Retries
<1>4. Approved'
  <2> SUFFICES ASSUME NEW q \in Node, Type[q] = "QA", node'[q].state = "COMPLETED"
               PROVE  node'[Pair[q]].state \in Done
    BY DEF Approved
  <2>1. Pair[q] \in Node /\ Pair[q] # q /\ Deps[q] = {Pair[q]}
    BY Pairs DEF IsGate
  <2>2. CASE q = n
    BY <2>1, <2>2 DEF DepsDone
  <2>3. CASE q # n
    <3>1. node[Pair[q]].state \in Done
      BY <2>3 DEF CalmInv, Table, Approved
    <3> QED BY <1>0, <2>1, <3>1 DEF Done
  <2> QED BY <2>2, <2>3
<1>5. NoCascades' /\ Roles'
  BY DEF CalmInv, Tasks, NoCascades, Roles
<1>6. \A s \in Run \ {r} : Engaged(s) => OwnsRow(s)' /\ InputStands(s)'
  <2> SUFFICES ASSUME NEW s \in Run \ {r}, Engaged(s) PROVE OwnsRow(s)' /\ InputStands(s)'
    OBVIOUS
  <2>1. run[s].node # n
    BY DEF CalmInv, Tasks, Owners
  <2> QED BY <1>0, <2>1, OthersOwn DEF Done
<1>7. ~Engaged(r)'
  BY DEF Engaged
<1>8. Owners'
  BY <1>6, <1>7, OwnersStep
<1> QED BY <1>1, <1>2, <1>3, <1>4, <1>5, <1>8 DEF Table, Tasks

-----------------------------------------------------------------------------
(* The actions of a task *)

\* The failed attempt is counted in the row and in the task's copy alike.
LEMMA CalmCountRetry ==
  ASSUME CalmInv, NEW r \in Run, CountRetry(r), UNCHANGED execVars
  PROVE  Table' /\ Tasks' /\ Cycle'
<1> DEFINE n     == run[r].node
           retry == run[r].row.retry + 1
<1>0. Engaged(r) /\ run[r].pc = "fail"
  BY DEF CountRetry, Engaged
<1>1. /\ n \in Node /\ ~IsGate(n) /\ n \notin Skipped /\ node[n].state = "IN_PROGRESS"
      /\ run[r].row = node[n]
  BY <1>0, EngagedNode
<1>2. node[n].retry < MaxRetries /\ node[n].retry \in Nat /\ MaxRetries \in Nat
  BY <1>0, <1>1, CalmTypes, BoundAssumption DEF CalmInv, Tasks, Owners, OwnsRow, Row
<1>3. /\ node' = [node EXCEPT ![n].retry = retry]
      /\ run' = [run EXCEPT ![r].pc = "cas", ![r].row.retry = retry,
                   ![r].to = IF retry < MaxRetries THEN "READY" ELSE "FAILED"]
      /\ UNCHANGED <<adv, art, stamp, casc>>
  BY DEF CountRetry, execVars
<1>4. /\ \A m \in Node \ {n} : node'[m] = node[m]
      /\ node'[n] = [node[n] EXCEPT !.retry = retry]
      /\ node'[n].state = "IN_PROGRESS" /\ node'[n].retry = retry
  BY <1>1, <1>3, CalmTypes DEF Row
<1>5. /\ \A s \in Run \ {r} : run'[s] = run[s]
      /\ run'[r].pc = "cas" /\ run'[r].node = n
      /\ run'[r].row = [node[n] EXCEPT !.retry = retry]
      /\ run'[r].to = IF retry < MaxRetries THEN "READY" ELSE "FAILED"
  <2> HIDE DEF retry
  <2>1. run[r] \in Task /\ run[r].row \in Row /\ node[n] \in Row
    BY <1>1, CalmTypes
  <2> QED BY <1>1, <1>3, <2>1, CalmTypes DEF Task
<1>6. retry < MaxRetries \/ retry = MaxRetries
  BY <1>1, <1>2
<1> HIDE DEF retry
<1>7. Cycle'
  BY <1>1, <1>3, <1>4, CycleKept
<1>8. Table'
  <2>1. Skips'
    <3>1. \A m \in Node : node'[m].state = node[m].state
      BY <1>1, <1>4
    <3>2. \A s \in Run : run'[s].pc # "free" => run'[s].node \notin Skipped
      BY <1>1, <1>5 DEF CalmInv, Table, Skips
    <3> QED BY <3>1, <3>2 DEF CalmInv, Table, Skips
  <2>2. Retries'
    BY <1>1, <1>4, <1>6 DEF CalmInv, Table, Retries
  <2>3. \A m \in Node : node'[m].state = node[m].state
    BY <1>1, <1>4
  <2>4. Approved'
    BY <2>3, GraphAssumption DEF CalmInv, Table, Approved
  <2> QED BY <2>1, <2>2, <2>4 DEF Table
<1>9. \A s \in Run \ {r} : Engaged(s) => OwnsRow(s)' /\ InputStands(s)'
  <2> SUFFICES ASSUME NEW s \in Run \ {r}, Engaged(s) PROVE OwnsRow(s)' /\ InputStands(s)'
    OBVIOUS
  <2>1. run[s].node # n
    BY <1>0 DEF CalmInv, Tasks, Owners
  <2> QED BY <1>1, <1>3, <1>4, <1>5, <2>1, OthersOwn DEF Done
<1>10. OwnsRow(r)' /\ InputStands(r)'
  BY <1>4, <1>5, <1>6 DEF OwnsRow, InputStands
<1>11. Owners'
  BY <1>0, <1>5, <1>9, <1>10, OwnersStep
<1>12. NoCascades'
  BY <1>3, <1>5 DEF CalmInv, Tasks, NoCascades
<1>13. Roles'
  BY <1>5 DEF CalmInv, Tasks, Roles
<1> QED BY <1>7, <1>8, <1>11, <1>12, <1>13 DEF Tasks

\* The task's own transition is valid and meets no conflict.
LEMMA CalmRunTransition ==
  ASSUME CalmInv, NEW r \in Run, RunTransition(r), UNCHANGED execVars
  PROVE  /\ WriteBump(run[r].node, run[r].to) /\ run[r].to \in {"READY", "FAILED"}
         /\ Table' /\ Tasks' /\ Cycle'
<1> DEFINE n == run[r].node
<1>0. Engaged(r) /\ run[r].pc = "cas" /\ UNCHANGED <<adv, art, stamp, casc>>
  BY DEF RunTransition, Engaged, execVars
<1>1. /\ n \in Node /\ node[n].state = "IN_PROGRESS" /\ run[r].row = node[n]
      /\ \/ run[r].to = "READY" /\ node[n].retry < MaxRetries
         \/ run[r].to = "FAILED" /\ node[n].retry = MaxRetries
  BY <1>0, EngagedNode DEF CalmInv, Tasks, Owners, OwnsRow
<1>2. IsValid(run[r].row.state, run[r].to)
  BY <1>1 DEF IsValid, VALID_TRANSITIONS
<1>3. /\ WriteBump(n, run[r].to)
      /\ run' = [run EXCEPT ![r].pc = "return", ![r].row.state = run[r].to,
                            ![r].row.version = @ + 1]
  BY <1>1, <1>2 DEF RunTransition
<1>4. /\ node' \in [Node -> Row] /\ \A m \in Node \ {n} : node'[m] = node[m]
      /\ node'[n].state = run[r].to /\ node'[n].retry = node[n].retry
  <2>1. run[r].to \in NodeState
    BY <1>1 DEF NodeState
  <2>2. node' \in [Node -> Row]
    BY <1>1, <1>3, <2>1, CalmTypes, WriteType
  <2> QED BY <1>1, <1>3, <2>2, CalmTypes DEF WriteBump, Row
<1>5. /\ \A s \in Run \ {r} : run'[s] = run[s]
      /\ run'[r].pc = "return" /\ run'[r].node = n
  BY <1>3, CalmTypes DEF Task
<1>6. node[n].retry \in Nat /\ MaxRetries \in Nat
  BY <1>1, CalmTypes, BoundAssumption DEF Row
<1>7. node'[n].state = "FAILED" <=> node[n].retry = MaxRetries
  BY <1>1, <1>4, <1>6
<1>8. Table' /\ Tasks' /\ Cycle'
  BY <1>0, <1>1, <1>4, <1>5, <1>7, LeaveStep
<1> QED BY <1>1, <1>3, <1>8

\* A write of the owner's result that leaves the version alone.
LEMMA CalmWrite ==
  ASSUME CalmInv, NEW r \in Run, Engaged(r), run[r].pc # "cas",
         NEW s \in {"SUSPENDED", "COMPLETED", "NOT_STARTED", "BLOCKED"}, Write(run[r].node, s),
         s = "COMPLETED" => run[r].pc # "fail",
         UNCHANGED <<adv, art, stamp, casc>>,
         \A t \in Run \ {r} : run'[t] = run[t],
         run'[r].pc \in {"return", "revive", "free"},
         run'[r].pc # "free" => run'[r].node = run[r].node,
         run'[r].pc = "revive" => Type[run[r].node] = "TASK"
  PROVE  Table' /\ Tasks' /\ Cycle'
<1> DEFINE n == run[r].node
<1>1. n \in Node /\ node[n].retry < MaxRetries /\ (s = "COMPLETED" => DepsDone(node, n))
  BY EngagedNode DEF CalmInv, Tasks, Owners, OwnsRow, InputStands
<1>2. /\ node' \in [Node -> Row] /\ \A m \in Node \ {n} : node'[m] = node[m]
      /\ node'[n].state = s /\ node'[n].retry = node[n].retry
  <2>1. s \in NodeState /\ node \in [Node -> Row]
    BY CalmTypes DEF NodeState
  <2>2. node' \in [Node -> Row]
    BY <1>1, <2>1, WriteType
  <2>3. node' = [node EXCEPT ![n].state = s]
    BY DEF Write
  <2> QED BY <1>1, <2>1, <2>2, <2>3 DEF Row
<1>3. node[n].retry \in Nat /\ MaxRetries \in Nat
  BY <1>1, CalmTypes, BoundAssumption DEF Row
<1>4. node'[n].state = "FAILED" <=> node[n].retry = MaxRetries
  BY <1>1, <1>2, <1>3
<1> QED BY <1>1, <1>2, <1>4, LeaveStep

\* The wrapper _run_node_safe.
LEMMA CalmRunNodeSafe ==
  ASSUME CalmInv, NEW r \in Run, RunNodeSafe(r), UNCHANGED execVars
  PROVE  Table' /\ Tasks' /\ Cycle'
<1>0. /\ UNCHANGED <<adv, art, stamp, casc>> /\ \A s \in Run \ {r} : run'[s] = run[s]
  BY RunNodeSafeRun DEF CalmInv, RunNodeSafe, Acquire, Success, LimitReached, CountRetry,
     RunTransition, RunReload, execVars
<1>1. CASE Acquire(r)
  <2>1. Engaged(r) /\ run[r].pc = "queued" /\ UNCHANGED node
    BY <1>1 DEF Acquire, Engaged
  <2>2. run[r].row.state = "IN_PROGRESS"
    BY <2>1, EngagedNode
  <2>3. /\ run'[r].pc = "stall" /\ run'[r].node = run[r].node /\ run'[r].row = run[r].row
    BY <1>1, <2>2, CalmTypes DEF Acquire, Goto, Task
  <2>4. \A s \in Run : Engaged(s) => InputStands(s)'
    BY <1>0, <2>1, <2>3 DEF CalmInv, Tasks, Owners, InputStands, DepsDone
  <2> QED BY <1>0, <2>1, <2>3, <2>4, QuietStep
<1>2. CASE Success(r)
  <2>1. run'[r].pc = "free" /\ UNCHANGED node
    BY <1>2, CalmTypes, FreeType DEF Success
  <2>2. Cycle'
    BY <1>0, <2>1, CycleUnmoved
  <2>3. Table'
    BY <1>0, <2>1 DEF CalmInv, Table, Skips, Retries, Approved
  <2>4. \A s \in Run \ {r} : Engaged(s) => OwnsRow(s)' /\ InputStands(s)'
    BY <1>0, <2>1 DEF CalmInv, Tasks, Owners, OwnsRow, InputStands, DepsDone
  <2>5. Owners'
    BY <1>0, <2>1, <2>4, OwnersStep DEF Engaged
  <2>6. NoCascades' /\ Roles'
    BY <1>0, <2>1 DEF CalmInv, Tasks, NoCascades, Roles
  <2> QED BY <2>2, <2>3, <2>5, <2>6 DEF Tasks
<1>3. CASE LimitReached(r)
  <2>1. /\ Engaged(r) /\ run[r].pc = "limit" /\ run'[r].pc = "free"
        /\ Write(run[r].node, "SUSPENDED")
    BY <1>3, CalmTypes, FreeType DEF LimitReached, Engaged
  <2> QED BY <1>0, <2>1, CalmWrite
<1>4. CASE CountRetry(r)
  BY <1>4, CalmCountRetry
<1>5. CASE RunTransition(r)
  BY <1>5, CalmRunTransition
<1>6. CASE RunReload(r)
  BY <1>6 DEF RunReload, CalmInv, Tasks, NoCascades
<1> QED BY <1>1, <1>2, <1>3, <1>4, <1>5, <1>6 DEF RunNodeSafe

\* The guards find the dependencies done, so nothing is sent to "block".
LEMMA CalmGuards ==
  ASSUME CalmInv, NEW r \in Run, StallGuard(r) \/ PairGuard(r) \/ DepGuard(r)
  PROVE  Table' /\ Tasks' /\ Cycle'
<1> DEFINE n == run[r].node
<1>0. /\ Engaged(r) /\ run[r].pc \in {"stall", "pair", "deps"}
      /\ UNCHANGED <<node, adv, art, stamp, casc>>
  BY DEF StallGuard, PairGuard, DepGuard, Engaged, execVars
<1>1. n \in Node /\ ~IsGate(n) /\ DepsDone(node, n)
  BY <1>0, EngagedNode DEF CalmInv, Tasks, Owners, InputStands
<1>2. Type[n] = "QA" => node[Pair[n]].state \in Done
  BY <1>1, Pairs DEF DepsDone
<1>3. \E pc \in {"suspend", "pair", "deps", "inspect", "work"} :
        Goto(r, pc) /\ (pc = "inspect" => Type[n] = "QA")
                    /\ (pc = "work" => Type[n] # "QA")
  BY <1>1, <1>2 DEF StallGuard, PairGuard, DepGuard, Done
<1>4. /\ \A s \in Run \ {r} : run'[s] = run[s]
      /\ run'[r].node = n /\ run'[r].row = run[r].row
      /\ run'[r].pc \in {"suspend", "pair", "deps", "inspect", "work"}
      /\ run'[r].pc = "inspect" => Type[n] = "QA"
      /\ run'[r].pc = "work" => Type[n] # "QA"
  BY <1>3, CalmTypes DEF Goto, Task
<1>5. \A s \in Run : Engaged(s) => InputStands(s)'
  BY <1>0, <1>1, <1>4 DEF CalmInv, Tasks, Owners, InputStands, DepsDone
<1> QED BY <1>0, <1>4, <1>5, QuietStep

\* Saving a TASK's artifact changes no version a QA is judging: that TASK is
\* in progress, and the TASK of an engaged QA is done.
LEMMA CalmWork ==
  ASSUME CalmInv, NEW r \in Run, Work(r) \/ BuildProgrammatic(r)
  PROVE  Table' /\ Tasks' /\ Cycle'
<1> DEFINE n == run[r].node
<1>0. /\ Engaged(r) /\ run[r].pc = "work" /\ Type[n] = "TASK"
      /\ UNCHANGED <<node, adv, stamp, casc>>
      /\ art' = SaveArtifact(n) \/ UNCHANGED art
      /\ \E pc \in {"pass", "build", "over", "fail", "limit"} :
           Goto(r, pc) /\ (pc = "over" => "budget" \in Outcome)
  BY DEF Work, CallFails, OverBudget, BuildProgrammatic, Engaged
<1>1. n \in Node /\ node[n].state = "IN_PROGRESS" /\ DepsDone(node, n)
  BY <1>0, EngagedNode DEF CalmInv, Tasks, Owners, InputStands
<1>2. \A m \in Node \ {n} : art'[m] = art[m]
  BY <1>0, CalmTypes DEF SaveArtifact
<1>3. /\ \A s \in Run \ {r} : run'[s] = run[s]
      /\ run'[r].node = n /\ run'[r].row = run[r].row
      /\ run'[r].pc \in {"pass", "build", "over", "fail", "limit"}
      /\ run'[r].pc = "over" => "budget" \in Outcome
  BY <1>0, CalmTypes DEF Goto, Task
<1>4. ASSUME NEW s \in Run \ {r}, Engaged(s) PROVE InputStands(s)'
  <2> DEFINE m == run[s].node
  <2>1. m \in Node /\ ~IsGate(m) /\ run'[s] = run[s] /\ UNCHANGED node
    BY <1>0, <1>3, <1>4, EngagedNode
  <2>2. InputStands(s)
    BY <1>4 DEF CalmInv, Tasks, Owners
  <2>3. Type[m] = "QA" /\ run[s].pc \notin {"fail", "cas"} => Pair[m] \in Node \ {n}
    BY <1>1, <2>1, <2>2, Pairs DEF InputStands, DepsDone, Done
  <2> QED BY <1>2, <2>1, <2>2, <2>3 DEF InputStands, DepsDone
<1>5. InputStands(r)'
  BY <1>0, <1>1, <1>3 DEF InputStands, DepsDone
<1> QED BY <1>0, <1>3, <1>4, <1>5, QuietStep

LEMMA CalmComplete ==
  ASSUME CalmInv, NEW r \in Run, Complete(r)
  PROVE  Table' /\ Tasks' /\ Cycle'
<1>1. /\ Engaged(r) /\ run[r].pc \in {"pass", "build"}
      /\ Write(run[r].node, "COMPLETED") /\ UNCHANGED <<adv, art, stamp, casc>>
  BY DEF Complete, Engaged, CalmInv, Tasks, NoCascades, execVars
<1>2. \E pc \in {"return", "revive"} :
        Goto(r, pc) /\ (pc = "revive" => Type[run[r].node] = "TASK")
  BY <1>1 DEF Complete
<1>3. /\ \A s \in Run \ {r} : run'[s] = run[s]
      /\ run'[r].pc \in {"return", "revive"} /\ run'[r].node = run[r].node
      /\ run'[r].pc = "revive" => Type[run[r].node] = "TASK"
  BY <1>2, CalmTypes DEF Goto, Task
<1> QED BY <1>1, <1>3, CalmWrite

LEMMA CalmSuspend ==
  ASSUME CalmInv, NEW r \in Run, SuspendWrite(r)
  PROVE  Table' /\ Tasks' /\ Cycle'
<1>1. /\ Engaged(r) /\ run[r].pc = "suspend"
      /\ Write(run[r].node, "SUSPENDED") /\ UNCHANGED <<adv, art, stamp, casc>>
  BY DEF SuspendWrite, Engaged, execVars
<1>2. /\ \A s \in Run \ {r} : run'[s] = run[s]
      /\ run'[r].pc = "return" /\ run'[r].node = run[r].node
  BY CalmTypes DEF SuspendWrite, Goto, Task
<1> QED BY <1>1, <1>2, CalmWrite

LEMMA CalmBudget ==
  ASSUME CalmInv, NEW r \in Run, BudgetWrite(r)
  PROVE  Table' /\ Tasks' /\ Cycle'
<1>1. PICK s \in {"NOT_STARTED", "BLOCKED"} : Write(run[r].node, s)
  BY DEF BudgetWrite
<1>2. Engaged(r) /\ run[r].pc = "over" /\ UNCHANGED <<adv, art, stamp, casc>>
  BY DEF BudgetWrite, Engaged, execVars
<1>3. /\ \A t \in Run \ {r} : run'[t] = run[t]
      /\ run'[r].pc = "return" /\ run'[r].node = run[r].node
  BY CalmTypes DEF BudgetWrite, Goto, Task
<1> QED BY <1>1, <1>2, <1>3, CalmWrite

\* A completed TASK reopens its QA only if that is BLOCKED: it is SKIPPED only
\* if the TASK is, and then the TASK was never run.
LEMMA CalmRevive ==
  ASSUME Calm, CalmInv, NEW r \in Run, ReviveQa(r)
  PROVE  Table' /\ Tasks' /\ Cycle'
<1> DEFINE t == run[r].node
           q == Pair[t]
<1>0. /\ run[r].pc = "revive" /\ UNCHANGED <<adv, art, stamp, casc>>
      /\ Goto(r, "return")
      /\ IF node[q].state \in {"BLOCKED", "SKIPPED"}
         THEN WriteBump(q, "NOT_STARTED") ELSE UNCHANGED node
  BY DEF ReviveQa, execVars
<1>1. t \in Node /\ ~IsGate(t) /\ Type[t] = "TASK" /\ t \notin Skipped
  BY <1>0, TaskNode DEF CalmInv, GatesApart, Table, Tasks, Roles, Skips
<1>2. q \in Node /\ Type[q] = "QA" /\ Pair[q] = t /\ q \notin Skipped
  BY <1>1, Pairs DEF Calm
<1>3. node[q].state # "SKIPPED"
  BY <1>2 DEF CalmInv, Table, Skips
<1>4. /\ \A s \in Run \ {r} : run'[s] = run[s]
      /\ run'[r].pc = "return" /\ run'[r].node = t
  BY <1>0, CalmTypes DEF Goto, Task
<1>5. NoCascades' /\ Roles'
  BY <1>0, <1>4 DEF CalmInv, Tasks, NoCascades, Roles
<1> HIDE DEF q
<1>6. CASE UNCHANGED node
  <2>1. Cycle'
    BY <1>0, <1>6, CycleUnmoved
  <2>2. Table'
    BY <1>0, <1>1, <1>4, <1>6 DEF CalmInv, Table, Skips, Retries, Approved
  <2>3. \A s \in Run \ {r} : Engaged(s) => OwnsRow(s)' /\ InputStands(s)'
    BY <1>0, <1>4, <1>6 DEF CalmInv, Tasks, Owners, OwnsRow, InputStands, DepsDone
  <2>4. Owners'
    BY <1>4, <2>3, OwnersStep DEF Engaged
  <2> QED BY <1>5, <2>1, <2>2, <2>4 DEF Tasks
<1>7. CASE node[q].state = "BLOCKED" /\ WriteBump(q, "NOT_STARTED")
  <2>1. /\ \A m \in Node \ {q} : node'[m] = node[m]
        /\ node'[q].state = "NOT_STARTED" /\ node'[q].retry = node[q].retry
    BY <1>2, <1>7, CalmTypes DEF WriteBump, Row
  <2>2. Cycle'
    BY <1>0, <1>2, <1>7, CycleRevived
  <2>3. Skips' /\ Retries'
    BY <1>1, <1>2, <1>4, <1>7, <2>1 DEF CalmInv, Table, Skips, Retries
  <2>4. Approved'
    <3>1. \A p \in Node : Type[p] = "QA" => Pair[p] \in Node /\ Pair[p] # q
      BY <1>2, Pairs DEF IsGate
    <3> QED BY <2>1, <3>1 DEF CalmInv, Table, Approved
  <2>5. \A s \in Run \ {r} : Engaged(s) => OwnsRow(s)' /\ InputStands(s)'
    <3> SUFFICES ASSUME NEW s \in Run \ {r}, Engaged(s) PROVE OwnsRow(s)' /\ InputStands(s)'
      OBVIOUS
    <3>1. run[s].node # q
      BY <1>7, EngagedNode
    <3> QED BY <1>0, <1>2, <1>4, <1>7, <2>1, <3>1, OthersOwn DEF Done
  <2>6. Owners'
    BY <1>4, <2>5, OwnersStep DEF Engaged
  <2> QED BY <1>5, <2>2, <2>3, <2>4, <2>6 DEF Table, Tasks
<1> QED BY <1>0, <1>3, <1>6, <1>7

\* The checks of a QA read the current version, and it stays current.
LEMMA CalmInspect ==
  ASSUME Calm, CalmInv, NEW r \in Run, Inspect(r) \/ CheckStamp(r) \/ Judge(r)
  PROVE  Table' /\ Tasks' /\ Cycle'
<1> DEFINE n == run[r].node
<1>0. /\ Engaged(r) /\ run[r].pc \in {"inspect", "stamp", "work"}
      /\ UNCHANGED <<node, adv, art, casc>>
  BY DEF Inspect, CheckStamp, Judge, Engaged, execVars
<1>1. n \in Node /\ Type[n] = "QA" /\ DepsDone(node, n) /\ InputStands(r)
  BY <1>0, EngagedNode DEF CalmInv, Tasks, Owners, InputStands, Roles, Judge, Inspect,
                           CheckStamp
<1>2. \A s \in Run \ {r} : Engaged(s) => InputStands(s)
  BY DEF CalmInv, Tasks, Owners
<1>3. CASE Inspect(r)
  <2>1. PICK next \in CheckResults :
          run' = [run EXCEPT ![r].pc = next, ![r].seen = art[Pair[n]]]
    BY <1>3 DEF Inspect
  <2>2. next \in {"stamp", "pass"}
    BY DEF CheckResults, Calm
  <2>3. /\ \A s \in Run \ {r} : run'[s] = run[s]
        /\ run'[r].pc = next /\ run'[r].node = n /\ run'[r].row = run[r].row
        /\ run'[r].seen = art[Pair[n]]
    BY <2>1, CalmTypes DEF Task
  <2>4. \A s \in Run : Engaged(s) => InputStands(s)'
    BY <1>0, <1>1, <1>2, <2>3 DEF InputStands, DepsDone
  <2>5. UNCHANGED stamp
    BY <1>3 DEF Inspect, execVars
  <2> QED BY <1>0, <1>1, <2>2, <2>3, <2>4, <2>5, QuietStep
<1>4. CASE CheckStamp(r)
  <2>1. stamp[n] = 0
    BY <1>1 DEF CalmInv, Tasks, NoCascades
  <2>2. run' = [run EXCEPT ![r].pc = "work"] /\ run[r].pc = "stamp" /\ UNCHANGED stamp
    BY <1>4, <2>1 DEF CheckStamp, execVars
  <2>3. /\ \A s \in Run \ {r} : run'[s] = run[s]
        /\ run'[r].pc = "work" /\ run'[r].node = n /\ run'[r].row = run[r].row
        /\ run'[r].seen = run[r].seen
    BY <2>2, CalmTypes DEF Task
  <2>4. \A s \in Run : Engaged(s) => InputStands(s)'
    BY <1>0, <1>1, <1>2, <2>2, <2>3 DEF InputStands, DepsDone
  <2> QED BY <1>0, <1>1, <2>2, <2>3, <2>4, QuietStep
<1>5. CASE Judge(r)
  <2>1. /\ run[r].pc = "work" /\ UNCHANGED stamp
        /\ \E pc \in {"pass", "fail", "limit", "reject_kept"} : Goto(r, pc)
    BY <1>5 DEF Judge, CallFails, Calm
  <2>2. /\ \A s \in Run \ {r} : run'[s] = run[s]
        /\ run'[r].pc \in {"pass", "fail", "limit", "reject_kept"}
        /\ run'[r].node = n /\ run'[r].row = run[r].row /\ run'[r].seen = run[r].seen
    BY <2>1, CalmTypes DEF Goto, Task
  <2>3. \A s \in Run : Engaged(s) => InputStands(s)'
    BY <1>0, <1>1, <1>2, <2>1, <2>2 DEF InputStands, DepsDone
  <2> QED BY <1>0, <1>1, <2>1, <2>2, <2>3, QuietStep
<1> QED BY <1>3, <1>4, <1>5

\* A rejection sends back a TASK that is COMPLETED, and no task but the QA's
\* own depends on it.
LEMMA CalmReject ==
  ASSUME Calm, CalmInv, NEW r \in Run, RejectTask(r)
  PROVE  /\ node[Pair[run[r].node]].state = "COMPLETED"
         /\ Table' /\ Tasks' /\ Cycle'
<1> DEFINE q == run[r].node
           t == Pair[q]
<1>0. /\ Engaged(r) /\ run[r].pc = "reject_kept" /\ UNCHANGED <<adv, art, stamp, casc>>
      /\ Write(t, "INVALID") /\ Goto(r, "fail")
  BY DEF RejectTask, Engaged
<1>1. /\ q \in Node /\ Type[q] = "QA" /\ q \notin Skipped
      /\ node[q].state = "IN_PROGRESS" /\ DepsDone(node, q) /\ OwnsRow(r)
  BY <1>0, EngagedNode DEF CalmInv, Tasks, Owners, InputStands, Roles
<1>2. /\ t \in Node /\ Type[t] = "TASK" /\ ~IsGate(t) /\ Deps[q] = {t} /\ t # q
      /\ Pair[t] = q
  BY <1>1, Pairs DEF IsGate
<1>3. t \notin Skipped
  BY <1>1, <1>2 DEF Calm
<1>4. node[t].state = "COMPLETED"
  BY <1>1, <1>2, <1>3 DEF DepsDone, Done, CalmInv, Table, Skips
<1> HIDE DEF t
<1>5. /\ \A m \in Node \ {t} : node'[m] = node[m]
      /\ node'[t].state = "INVALID" /\ node'[t].retry = node[t].retry
  BY <1>0, <1>2, CalmTypes DEF Write, Row
<1>6. /\ \A s \in Run \ {r} : run'[s] = run[s]
      /\ run'[r].pc = "fail" /\ run'[r].node = q /\ run'[r].row = run[r].row
  BY <1>0, CalmTypes DEF Goto, Task
<1>7. Cycle'
  BY <1>0, <1>1, <1>2, <1>4, <1>5, CycleKept
<1>8. Skips' /\ Retries'
  BY <1>1, <1>2, <1>3, <1>4, <1>5, <1>6 DEF CalmInv, Table, Skips, Retries
<1>9. Approved'
  <2>1. \A p \in Node \ {q} : Type[p] = "QA" => Pair[p] \in Node \ {t}
    BY <1>2, Pairs DEF IsGate
  <2> QED BY <1>1, <1>2, <1>5, <2>1 DEF CalmInv, Table, Approved
<1>10. NoCascades' /\ Roles'
  BY <1>0, <1>6 DEF CalmInv, Tasks, NoCascades, Roles
<1>11. ASSUME NEW s \in Run \ {r}, Engaged(s) PROVE OwnsRow(s)' /\ InputStands(s)'
  <2>1. run[s].node \in Node /\ run[s].node # q /\ run[s].node # t
    BY <1>0, <1>4, <1>11, EngagedNode DEF CalmInv, Tasks, Owners
  <2>2. t \notin Deps[run[s].node]
    BY <1>2, <2>1, GraphAssumption
  <2> QED BY <1>0, <1>2, <1>5, <1>6, <1>11, <2>1, <2>2, OthersOwn
<1>12. OwnsRow(r)' /\ InputStands(r)'
  BY <1>0, <1>1, <1>2, <1>5, <1>6 DEF OwnsRow, InputStands
<1>13. Owners'
  BY <1>0, <1>6, <1>11, <1>12, OwnersStep
<1> QED BY <1>4, <1>7, <1>8, <1>9, <1>10, <1>13 DEF Table, Tasks, t

\* No task finds defects.
LEMMA NobodySendsBack ==
  ASSUME Calm, CalmInv, NEW r \in Run
  PROVE  ~SendsBack(r)
BY DEF Calm, CalmInv, Tasks, NoCascades, SendsBack, FindDefects, SendBack, SendBackQa,
       SendBackGate

\* The executor.  The guard's BLOCKED, the two cascades and the rejections that
\* rewrite the QA's row are out of reach.
LEMMA CalmExecuteNode ==
  ASSUME Calm, CalmInv, NEW r \in Run, ExecuteNode(r)
  PROVE  Table' /\ Tasks' /\ Cycle'
<1>1. ~(\/ BlockWrite(r) \/ RejectSelf(r) \/ RejectCompleted(r) \/ Cascade(r)
        \/ EarlyInvalidate(r) \/ EarlyResetPair(r) \/ EarlyReopenGates(r))
  BY DEF CalmInv, Tasks, NoCascades, BlockWrite, RejectSelf, RejectCompleted, Cascade,
         EarlyInvalidate, EarlyResetPair, EarlyReopenGates
<1> QED BY <1>1, NobodySendsBack, CalmGuards, CalmSuspend, CalmBudget, CalmWork, CalmComplete,
           CalmRevive, CalmInspect, CalmReject DEF ExecuteNode, SendsBack

-----------------------------------------------------------------------------
(* The advancer *)

\* What the advancer leaves of the tasks when it starts none.
LEMMA TasksUnmoved ==
  ASSUME CalmInv, UNCHANGED <<node, run, art, stamp, casc>>
  PROVE  Table' /\ Tasks'
BY DEF CalmInv, Table, Skips, Retries, Approved, Tasks, NoCascades, Roles, Owners,
       Engaged, OwnsRow, InputStands, DepsDone

\* Outside a cycle nothing is claimed of the snapshot.
LEMMA CycleIdle ==
  ASSUME CalmInv, UNCHANGED node, adv'.pc \in {"wait", "load"}
  PROVE  Cycle'
<1>1. ~InCycle' /\ ~Moving' /\ Claimed' = Claimed
  BY DEF InCycle, Moving, Claimed
<1> QED BY <1>1 DEF CalmInv, Cycle, Fresh, SnapDone, Move, Counts, Ahead

\* The nodes ahead of a cycle that goes on are a part of those that were.
LEMMA AheadShrinks ==
  ASSUME CalmInv, InCycle, adv'.i \in {adv.i, adv.i + 1}
  PROVE  \A m : Ahead(m)' => Ahead(m)
<1>1. \A j \in 1..Len(Order) : adv'.i <= j => adv.i <= j
  BY CalmTypes
<1> QED BY <1>1 DEF Ahead

\* A new cycle starts from the table.
LEMMA CalmLoad ==
  ASSUME CalmInv, Load
  PROVE  Cycle'
<1> DEFINE count == Cardinality({n \in Node : node[n].state = "IN_PROGRESS"})
<1>1. /\ adv'.pc = "eval" /\ adv'.snap = node /\ adv'.count = count /\ node' = node
  BY CalmTypes DEF Load, Advancer
<1>2. Fresh' /\ SnapDone' /\ Move'
  BY <1>1 DEF Fresh, Same, SnapDone, Move, Moving
<1>3. Counts'
  <2>1. IsFiniteSet({n \in Node : node[n].state = "IN_PROGRESS"})
    BY GraphAssumption, FS_Subset
  <2>2. Claimed \subseteq {n \in Node : node[n].state = "IN_PROGRESS"}
    BY DEF Claimed
  <2>3. Cardinality(Claimed) <= count
    BY <2>1, <2>2, FS_Subset
  <2>4. Claimed' = Claimed
    BY <1>1 DEF Claimed
  <2> HIDE DEF count
  <2> QED BY <1>1, <2>3, <2>4 DEF CalmInv, Cycle, Counts
<1> QED BY <1>2, <1>3 DEF Cycle

\* What Plan decides for a node that is neither settled nor failed, when it
\* decides anything.
LEMMA PlanUnsettled ==
  ASSUME NEW n, adv.snap[n].state \notin Settled,
         adv.snap[n].state # "FAILED", Plan(n).to # "none"
  PROVE  \/ Plan(n) = [to |-> "BLOCKED", launch |-> "no"] /\ adv.snap[n].state # "BLOCKED"
         \/ /\ Plan(n) = [to |-> "READY", launch |-> IF Room THEN "counted" ELSE "no"]
            /\ Unblocked(n) /\ adv.snap[n].state \in Restartable
         \/ /\ Plan(n) = [to |-> "IN_PROGRESS", launch |-> "counted"]
            /\ Unblocked(n) /\ adv.snap[n].state \notin Restartable
            /\ IsGate(n) \/ Room
<1> DEFINE s == adv.snap[n].state
<1>1. CASE DepFailed(adv.snap, n)
  <2>1. ~Unblocked(n)
    BY <1>1 DEF DepFailed, Failing, Unblocked, DepsDone, Done
  <2>2. Plan(n) = IF s # "BLOCKED" THEN [to |-> "BLOCKED", launch |-> "no"]
                                   ELSE [to |-> "none", launch |-> "no"]
    BY <1>1, <2>1 DEF Plan
  <2> QED BY <2>2
<1>2. CASE ~DepFailed(adv.snap, n) /\ Unblocked(n) /\ s \in Restartable
  <2>1. Plan(n) = [to |-> "READY", launch |-> IF Room THEN "counted" ELSE "no"]
    BY <1>2 DEF Plan
  <2> QED BY <2>1, <1>2
<1>3. CASE ~DepFailed(adv.snap, n) /\ Unblocked(n) /\ s \notin Restartable
  <2>1. Plan(n) = IF Type[n] = "GATE" \/ Room
                  THEN [to |-> "IN_PROGRESS", launch |-> "counted"]
                  ELSE [to |-> "none", launch |-> "no"]
    BY <1>3 DEF Plan
  <2> QED BY <2>1, <1>3 DEF IsGate
<1>4. CASE ~DepFailed(adv.snap, n) /\ ~Unblocked(n)
  <2>1. Plan(n) = IF s # "BLOCKED" THEN [to |-> "BLOCKED", launch |-> "no"]
                                   ELSE [to |-> "none", launch |-> "no"]
    BY <1>4 DEF Plan
  <2> QED BY <2>1
<1> QED BY <1>1, <1>2, <1>3, <1>4

\* A plan starts from a fresh row, since only a row the snapshot shows as
\* unsettled is moved; a FAILED node has no attempt left.
LEMMA CalmEvaluate ==
  ASSUME CalmInv, Evaluate
  PROVE  Cycle'
<1> DEFINE n    == Order[adv.i]
           plan == Plan(n)
<1>0. /\ InCycle /\ adv.pc = "eval" /\ adv.i <= Len(Order) /\ UNCHANGED node
      /\ adv' = IF plan.to = "none"
                THEN [adv EXCEPT !.i = @ + 1]
                ELSE [adv EXCEPT !.pc = "cas", !.to = plan.to, !.tries = 0,
                                 !.launch = plan.launch]
  BY DEF Evaluate, InCycle
<1>1. n \in Node /\ Ahead(n)
  <2>1. n \in Node
    BY <1>0, InOrder DEF CalmInv
  <2>2. adv.i \in 1..Len(Order) /\ adv.i <= adv.i
    BY <1>0, CalmTypes
  <2> QED BY <1>0, <2>1, <2>2 DEF Ahead
<1>2. /\ adv.snap[n].state = "FAILED" => adv.snap[n].retry = MaxRetries
      /\ adv.snap[n].state \notin Settled => Same(n) \/ Revived(n)
  BY <1>1 DEF CalmInv, Cycle, Fresh, Same, Revived, Table, Retries, Settled
<1>3. MaxRetries \in Nat
  BY BoundAssumption
<1>4. plan.to # "none" =>
        /\ adv.snap[n].state \notin Settled
        /\ <<adv.snap[n].state, plan.to>> \in Steps
        /\ plan.to # "BLOCKED" => DepsDone(adv.snap, n)
        /\ plan.launch # "uncounted"
        /\ ~IsGate(n) =>
             /\ plan.launch = "counted" => Room
             /\ plan.to = "IN_PROGRESS" => plan.launch = "counted"
             /\ plan.to = "BLOCKED" => plan.launch = "no"
  <2> SUFFICES ASSUME plan.to # "none"
               PROVE  /\ adv.snap[n].state \notin Settled
                      /\ <<adv.snap[n].state, plan.to>> \in Steps
                      /\ plan.to # "BLOCKED" => DepsDone(adv.snap, n)
                      /\ plan.launch # "uncounted"
                      /\ ~IsGate(n) =>
                           /\ plan.launch = "counted" => Room
                           /\ plan.to = "IN_PROGRESS" => plan.launch = "counted"
                           /\ plan.to = "BLOCKED" => plan.launch = "no"
    OBVIOUS
  <2>1. adv.snap[n].state \in NodeState
    BY <1>1, CalmTypes DEF Row
  <2>2. adv.snap[n].state \notin Settled
    BY <2>1 DEF Plan, Settled, NodeState
  <2>3. adv.snap[n].state # "FAILED"
    <3>1. adv.snap[n].state = "FAILED" => ~(adv.snap[n].retry < MaxRetries)
      BY <1>2, <1>3
    <3> QED BY <2>2, <3>1 DEF Plan
  <2>4. \/ plan = [to |-> "BLOCKED", launch |-> "no"] /\ adv.snap[n].state # "BLOCKED"
        \/ /\ plan = [to |-> "READY", launch |-> IF Room THEN "counted" ELSE "no"]
           /\ Unblocked(n) /\ adv.snap[n].state \in Restartable
        \/ /\ plan = [to |-> "IN_PROGRESS", launch |-> "counted"]
           /\ Unblocked(n) /\ adv.snap[n].state \notin Restartable
           /\ IsGate(n) \/ Room
    BY <2>2, <2>3, PlanUnsettled
  <2> HIDE DEF plan, n
  <2>5. <<adv.snap[n].state, plan.to>> \in Steps
    BY <2>1, <2>2, <2>3, <2>4 DEF Steps, Settled, Restartable, NodeState
  <2> QED BY <2>2, <2>4, <2>5 DEF Unblocked
<1> HIDE DEF plan
<1>5. /\ adv'.snap = adv.snap /\ adv'.count = adv.count /\ InCycle'
      /\ adv'.i \in {adv.i, adv.i + 1}
  BY <1>0, CalmTypes DEF Advancer, InCycle
<1>6. Fresh'
  BY <1>0, <1>5, AheadShrinks DEF CalmInv, Cycle, Fresh, Same, Revived
<1>7. SnapDone'
  BY <1>0, <1>5, AheadShrinks DEF CalmInv, Cycle, SnapDone
<1>8. Counts'
  BY <1>0, <1>5 DEF CalmInv, Cycle, Counts, Claimed
<1>9. Move'
  <2>1. CASE plan.to = "none"
    BY <1>0, <2>1, CalmTypes DEF Move, Moving, Advancer
  <2>2. CASE plan.to # "none"
    <3>1. /\ adv'.pc = "cas" /\ adv'.i = adv.i /\ adv'.to = plan.to /\ adv'.tries = 0
          /\ adv'.launch = plan.launch
      BY <1>0, <2>2, CalmTypes DEF Advancer
    <3>2. Cur' = n
      BY <3>1 DEF Cur
    <3>3. Same(Cur)' \/ Revived(Cur)'
      BY <1>0, <1>2, <1>4, <1>5, <2>2, <3>2 DEF Same, Revived
    <3> HIDE DEF n
    <3> QED BY <1>4, <1>5, <2>2, <3>1, <3>2, <3>3 DEF Move, DepsDone, Room
  <2> QED BY <2>1, <2>2
<1> QED BY <1>6, <1>7, <1>8, <1>9 DEF Cycle

\* What follows a transition that has succeeded.
LEMMA FollowCases ==
  ASSUME NEW n, NEW to, NEW launch \in Launch, launch # "uncounted"
  PROVE  \/ Follow(n, to, to, launch) = "NEXT" /\ (IsGate(n) \/ to # "IN_PROGRESS")
         \/ Follow(n, to, to, launch) = "LAUNCH" /\ ~IsGate(n) /\ to = "IN_PROGRESS"
         \/ /\ Follow(n, to, to, launch) = "IN_PROGRESS" /\ to = "READY"
            /\ ~IsGate(n) => launch = "counted"
         \/ /\ Follow(n, to, to, launch) \in {"COMPLETED", "AWAITING_APPROVAL"}
            /\ IsGate(n) /\ to = "IN_PROGRESS"
BY DEF Follow, IsGate, Launch

\* Before the advancer moves a node on, its dependencies are done in the table
\* as well as in the snapshot.
LEMMA DepsStand ==
  ASSUME CalmInv, Moving, adv.to # "BLOCKED"
  PROVE  DepsDone(node, Cur)
<1>1. /\ Cur \in Node /\ Ahead(Cur) /\ InCycle
      /\ ~IsGate(Cur) => adv.snap[Cur].state \notin Settled
  BY MovingNode DEF InCycle, Moving
<1>2. DepsDone(adv.snap, Cur)
  BY DEF CalmInv, Cycle, Move
<1>3. ASSUME NEW d \in Deps[Cur] PROVE node[d].state \in Done
  <2>1. d \in Node /\ adv.snap[d].state \in Done
    BY <1>1, <1>2, NotOwnDep DEF DepsDone
  <2>2. Type[d] = "TASK" => ~IsGate(Cur) /\ Pair[d] = Cur
    BY <1>1, <2>1, GraphAssumption DEF IsGate
  <2> QED BY <1>1, <2>1, <2>2 DEF CalmInv, Cycle, SnapDone
<1> QED BY <1>3 DEF DepsDone

\* A transition under way starts from a state that is not done, and leads
\* where the table allows.
LEMMA MoveStep ==
  ASSUME CalmInv, Moving
  PROVE  /\ IsValid(adv.snap[Cur].state, adv.to)
         /\ adv.snap[Cur].state \notin Done /\ adv.snap[Cur].state # "FAILED"
         /\ adv.to \notin {"SKIPPED", "FAILED"}
         /\ ~IsGate(Cur) => adv.to \in {"READY", "BLOCKED", "IN_PROGRESS"}
         /\ IsGate(Cur) \/ adv.snap[Cur].state # "IN_PROGRESS"
BY DEF CalmInv, Cycle, Move, Steps, GateSteps, IsValid, VALID_TRANSITIONS, Done

\* The compare-and-set that succeeds: what it leaves of the table and the tasks.
LEMMA CalmMoved ==
  ASSUME CalmInv, Moving, adv.snap[Cur].version = node[Cur].version,
         WriteBump(Cur, adv.to), UNCHANGED <<art, stamp, casc>>,
         Return([adv.snap[Cur] EXCEPT !.state = adv.to, !.version = @ + 1])
  PROVE  /\ node[Cur] = adv.snap[Cur]
         /\ node' \in [Node -> Row] /\ \A m \in Node \ {Cur} : node'[m] = node[m]
         /\ node'[Cur] = [adv.snap[Cur] EXCEPT !.state = adv.to, !.version = @ + 1]
         /\ node'[Cur].state = adv.to
         /\ Table' /\ Tasks'
<1> DEFINE n    == Cur
           done == [adv.snap[n] EXCEPT !.state = adv.to, !.version = @ + 1]
<1>0. n \in Node /\ adv.snap[n] \in Row /\ node[n] \in Row /\ adv.to \in NodeState
      /\ adv.launch \in Launch /\ adv.launch # "uncounted"
  BY MovingNode, CalmTypes DEF CalmInv, Cycle, Move
<1>1. ~Revived(n)
  BY <1>0 DEF Revived, Row
<1>2. node[n] = adv.snap[n]
  BY <1>1 DEF CalmInv, Cycle, Move, Same
<1>3. /\ node' \in [Node -> Row] /\ \A m \in Node \ {n} : node'[m] = node[m]
      /\ node'[n] = done /\ done.state = adv.to /\ done.retry = node[n].retry
  <2>1. node' \in [Node -> Row]
    BY <1>0, CalmTypes, WriteType
  <2> QED BY <1>0, <1>2, <2>1, CalmTypes DEF WriteBump, Row
<1>4. /\ node[n].state \notin Done /\ node[n].state # "FAILED"
      /\ adv.to \notin {"SKIPPED", "FAILED"}
      /\ ~IsGate(n) => adv.to # "COMPLETED"
      /\ IsGate(n) \/ node[n].state # "IN_PROGRESS"
  BY <1>2, MoveStep
<1>5. n \notin Skipped /\ node[n].retry < MaxRetries
  BY <1>0, <1>4 DEF CalmInv, Table, Skips, Retries, Done
<1>a. node'[n].state = adv.to /\ node'[n].retry = node[n].retry
  BY <1>3
<1>6. Retries' /\ \A m \in Node : node'[m].state = "SKIPPED" <=> m \in Skipped
  <2> HIDE DEF done, n
  <2>1. \A m \in Node : node'[m] = node[m] \/ m = n
    BY <1>3
  <2>2. Retries'
    BY <1>a, <1>4, <1>5, <2>1 DEF CalmInv, Table, Retries
  <2> QED BY <1>a, <1>4, <1>5, <2>1, <2>2 DEF CalmInv, Table, Skips
<1>7. Approved'
  <2> HIDE DEF done, n
  <2>1. \A q \in Node : Type[q] = "QA" => Pair[q] \in Node /\ ~IsGate(q)
    BY Pairs DEF IsGate
  <2> QED BY <1>a, <1>3, <1>4, <2>1 DEF CalmInv, Table, Approved
<1>8. ASSUME NEW s \in Run, Engaged(s), run'[s] = run[s]
      PROVE  run[s].node # n /\ OwnsRow(s)' /\ InputStands(s)'
  <2>1. run[s].node # n
    BY <1>4, <1>8, EngagedNode
  <2> QED BY <1>0, <1>3, <1>4, <1>8, <2>1, OthersOwn
<1> DEFINE what == Follow(n, adv.to, done.state, adv.launch)
<1>9. CASE UNCHANGED run
  <2>1. Skips' /\ NoCascades' /\ Roles'
    BY <1>6, <1>9 DEF CalmInv, Table, Skips, Tasks, NoCascades, Roles
  <2>2. Owners'
    BY <1>8, <1>9 DEF CalmInv, Tasks, Owners, Engaged
  <2> QED BY <1>2, <1>3, <1>6, <1>7, <2>1, <2>2 DEF Table, Tasks
<1>10. CASE what = "LAUNCH" /\ Start(n, done)
  <2>1. ~IsGate(n) /\ adv.to = "IN_PROGRESS"
    <3>1. done.state = adv.to
      BY <1>3
    <3> HIDE DEF done
    <3> QED BY <1>0, <1>10, <3>1, FollowCases
  <2>2. PICK r \in FreeRuns :
          run' = [run EXCEPT ![r] = [Free EXCEPT !.pc = "queued", !.node = n, !.row = done]]
    BY <1>10 DEF Start
  <2> HIDE DEF done, n
  <2>3. /\ r \in Run /\ ~Engaged(r) /\ \A s \in Run \ {r} : run'[s] = run[s]
        /\ run'[r].pc = "queued" /\ run'[r].node = n /\ run'[r].row = done
    BY <2>2, CalmTypes, FreeType DEF FreeRuns, Engaged, Task
  <2>4. Skips' /\ NoCascades' /\ Roles'
    BY <1>5, <1>6, <2>3 DEF CalmInv, Table, Skips, Tasks, NoCascades, Roles
  <2>5. DepsDone(node', n)
    <3>1. DepsDone(node, n)
      BY <2>1, DepsStand DEF n
    <3> QED BY <1>0, <1>3, <3>1, NotOwnDep DEF DepsDone
  <2>6. OwnsRow(r)' /\ InputStands(r)'
    BY <1>3, <1>5, <2>1, <2>3, <2>5 DEF OwnsRow, InputStands
  <2>7. \A s \in Run \ {r} : Engaged(s)' => Engaged(s)
    BY <2>3 DEF Engaged
  <2>8. Owners'
    BY <1>8, <2>3, <2>6, <2>7 DEF CalmInv, Tasks, Owners
  <2> QED BY <1>2, <1>3, <1>6, <1>7, <2>4, <2>8 DEF Table, Tasks, n, done
<1> QED BY <1>9, <1>10 DEF Return, Cur

\* The same transition: what it leaves of the cycle.
LEMMA CalmMovedCycle ==
  ASSUME CalmInv, Moving, adv.snap[Cur].version = node[Cur].version,
         WriteBump(Cur, adv.to), UNCHANGED <<art, stamp, casc>>,
         Return([adv.snap[Cur] EXCEPT !.state = adv.to, !.version = @ + 1])
  PROVE  Cycle'
<1> DEFINE n    == Cur
           done == [adv.snap[n] EXCEPT !.state = adv.to, !.version = @ + 1]
           what == Follow(n, adv.to, done.state, adv.launch)
           snap == [adv.snap EXCEPT ![n] = done]
<1>1. /\ node[n] = adv.snap[n]
      /\ node' \in [Node -> Row] /\ \A m \in Node \ {n} : node'[m] = node[m]
      /\ node'[n] = done /\ done.state = adv.to
  BY CalmMoved
<1>2. /\ n \in Node /\ InCycle /\ adv.i <= Len(Order)
      /\ adv.launch \in Launch /\ adv.launch # "uncounted"
      /\ ~IsGate(n) => adv.snap[n].state \notin Settled
      /\ ~IsGate(n) => adv.to \in {"READY", "BLOCKED", "IN_PROGRESS"}
      /\ IsGate(n) \/ node[n].state # "IN_PROGRESS"
  BY <1>1, MovingNode, MoveStep, CalmTypes DEF CalmInv, Cycle, Move, InCycle, Moving
<1>3. /\ snap[n] = done /\ \A m \in Node \ {n} : snap[m] = adv.snap[m]
      /\ snap \in [Node -> Row]
  BY <1>1, <1>2, CalmTypes
<1>4. \/ what = "NEXT" /\ (IsGate(n) \/ adv.to # "IN_PROGRESS")
      \/ what = "LAUNCH" /\ ~IsGate(n) /\ adv.to = "IN_PROGRESS"
      \/ what = "IN_PROGRESS" /\ adv.to = "READY" /\ (~IsGate(n) => adv.launch = "counted")
      \/ what \in {"COMPLETED", "AWAITING_APPROVAL"} /\ IsGate(n) /\ adv.to = "IN_PROGRESS"
  <2> HIDE DEF done
  <2> QED BY <1>1, <1>2, FollowCases
<1> HIDE DEF done, what
\* The three ways on, by what they set.
<1>5. /\ adv' \in Advancer /\ adv'.snap = snap /\ adv'.launch = adv.launch
      /\ \/ /\ what = "NEXT" /\ adv'.pc = "eval" /\ adv'.i = adv.i + 1
            /\ adv'.count = adv.count
         \/ /\ what = "LAUNCH" /\ adv'.pc = "eval" /\ adv'.i = adv.i + 1
            /\ adv'.count = IF adv.launch = "counted" THEN adv.count + 1 ELSE adv.count
         \/ /\ what \in NodeState /\ adv'.pc = "cas" /\ adv'.i = adv.i
            /\ adv'.to = what /\ adv'.tries = 0 /\ adv'.count = adv.count
  <2>1. \/ /\ what = "NEXT"
           /\ adv' = [adv EXCEPT !.pc = "eval", !.snap = snap, !.i = @ + 1]
        \/ /\ what = "LAUNCH"
           /\ adv' = [adv EXCEPT !.pc = "eval", !.snap = snap, !.i = @ + 1,
                        !.count = IF adv.launch = "counted" THEN @ + 1 ELSE @]
        \/ /\ what \in NodeState
           /\ adv' = [adv EXCEPT !.pc = "cas", !.snap = snap, !.to = what, !.tries = 0]
    BY DEF Return, Cur, what, done
  <2>2. /\ adv \in Advancer /\ adv.i + 1 \in Nat \ {0} /\ adv.count + 1 \in Nat
        /\ 0 \in 0..2 /\ snap \in [Node -> Row]
    BY <1>3, CalmTypes
  <2> HIDE DEF snap
  <2>3. CASE /\ what = "NEXT"
             /\ adv' = [adv EXCEPT !.pc = "eval", !.snap = snap, !.i = @ + 1]
    BY <2>2, <2>3 DEF Advancer
  <2>4. CASE /\ what = "LAUNCH"
             /\ adv' = [adv EXCEPT !.pc = "eval", !.snap = snap, !.i = @ + 1,
                          !.count = IF adv.launch = "counted" THEN @ + 1 ELSE @]
    BY <2>2, <2>4 DEF Advancer
  <2>5. CASE /\ what \in NodeState
             /\ adv' = [adv EXCEPT !.pc = "cas", !.snap = snap, !.to = what, !.tries = 0]
    BY <2>2, <2>5 DEF Advancer
  <2> QED BY <2>1, <2>3, <2>4, <2>5
<1> HIDE DEF snap
<1>6. InCycle' /\ \A m : Ahead(m)' => Ahead(m)
  BY <1>2, <1>5, AheadShrinks DEF InCycle
<1>7. Fresh'
  <2> SUFFICES ASSUME NEW m \in Node, Ahead(m), snap[m].state \notin Settled
               PROVE  Same(m)' \/ Revived(m)'
    BY <1>5, <1>6 DEF Fresh
  <2>1. CASE m = n
    BY <1>1, <1>3, <1>5, <2>1 DEF Same
  <2>2. CASE m # n
    BY <1>1, <1>3, <1>5, <2>2 DEF CalmInv, Cycle, Fresh, Same, Revived
  <2> QED BY <2>1, <2>2
<1>8. SnapDone'
  <2> SUFFICES ASSUME NEW m \in Node, snap[m].state \in Done
               PROVE  /\ Type[m] # "TASK" => node'[m].state \in Done
                      /\ Type[m] = "TASK" /\ Ahead(Pair[m]) /\ snap[Pair[m]].state \notin Settled
                           => node'[m].state \in Done
    BY <1>5, <1>6 DEF SnapDone
  <2>1. CASE m = n
    BY <1>1, <1>3, <2>1
  <2>2. CASE m # n
    <3>1. node'[m] = node[m] /\ snap[m] = adv.snap[m]
      BY <1>1, <1>3, <2>2
    <3>2. Type[m] = "TASK" => Pair[m] \in Node /\ ~IsGate(Pair[m])
      BY Pairs DEF IsGate
    <3>3. /\ Type[m] # "TASK" => node[m].state \in Done
          /\ Type[m] = "TASK" /\ Ahead(Pair[m]) /\ adv.snap[Pair[m]].state \notin Settled
               => node[m].state \in Done
      BY <1>2, <3>1 DEF CalmInv, Cycle, SnapDone
    <3> QED BY <1>2, <1>3, <3>1, <3>2, <3>3
  <2> QED BY <2>1, <2>2
<1>9. Move'
  <2> SUFFICES ASSUME Moving' PROVE Move'
    BY DEF Move
  <2>1. /\ what \in NodeState /\ adv'.pc = "cas" /\ adv'.to = what /\ adv'.tries = 0
        /\ adv'.count = adv.count /\ Cur' = n
    BY <1>5 DEF Moving, Cur
  <2>2. Same(Cur)'
    BY <1>1, <1>3, <1>5, <2>1 DEF Same
  <2>3. \/ <<snap[n].state, what>> \in Steps
        \/ IsGate(n) /\ <<snap[n].state, what>> \in GateSteps
    BY <1>1, <1>3, <1>4, <2>1 DEF Steps, GateSteps, NodeState
  <2>4. DepsDone(snap, n)
    <3>1. adv.to # "BLOCKED"
      BY <1>4, <2>1 DEF NodeState
    <3>2. DepsDone(adv.snap, n)
      BY <3>1 DEF CalmInv, Cycle, Move
    <3> QED BY <1>2, <1>3, <3>2, NotOwnDep DEF DepsDone
  <2>5. snap[n].state # "BLOCKED" /\ (~IsGate(n) => adv.launch = "counted")
        /\ what # "BLOCKED"
    BY <1>1, <1>3, <1>4, <2>1 DEF NodeState
  <2>6. ~IsGate(n) => adv.count < MaxConcurrent
    BY <2>5 DEF CalmInv, Cycle, Move
  <2> HIDE DEF n
  <2> QED BY <1>2, <1>5, <2>1, <2>2, <2>3, <2>4, <2>5, <2>6 DEF Move, DepsDone
<1>10. Counts'
  <2>1. /\ IsFiniteSet(Claimed) /\ Cardinality(Claimed) \in Nat
        /\ adv.count \in Nat /\ MaxConcurrent \in Nat /\ Cardinality(Claimed) <= adv.count
        /\ Cardinality(Claimed) <= MaxConcurrent
    BY <1>2, ClaimedFinite, FS_CardinalityType, CalmTypes, BoundAssumption
       DEF CalmInv, Cycle, Counts
  <2>2. CASE IsGate(n) \/ adv.to # "IN_PROGRESS"
    <3>1. Claimed' \subseteq Claimed
      BY <1>1, <2>2 DEF Claimed
    <3>2. Cardinality(Claimed') <= Cardinality(Claimed) /\ Cardinality(Claimed') \in Nat
      BY <2>1, <3>1, FS_Subset, FS_CardinalityType
    <3>3. adv.count <= adv'.count /\ adv'.count \in Nat
      BY <1>5, <2>1
    <3> QED BY <2>1, <3>2, <3>3 DEF Counts
  <2>3. CASE ~IsGate(n) /\ adv.to = "IN_PROGRESS"
    <3>1. Claimed' \subseteq Claimed \union {n} /\ n \notin Claimed
      BY <1>1, <1>2 DEF Claimed
    <3>2. /\ IsFiniteSet(Claimed \union {n})
          /\ Cardinality(Claimed \union {n}) = Cardinality(Claimed) + 1
      BY <2>1, <3>1, FS_AddElement
    <3>3. Cardinality(Claimed') <= Cardinality(Claimed) + 1 /\ Cardinality(Claimed') \in Nat
      BY <3>1, <3>2, FS_Subset, FS_CardinalityType
    <3>4. adv.launch = "counted" /\ adv.count < MaxConcurrent
      BY <2>3 DEF CalmInv, Cycle, Move
    <3>5. adv'.count = adv.count + 1
      BY <1>4, <1>5, <2>3, <3>4 DEF NodeState
    <3> QED BY <2>1, <3>3, <3>4, <3>5 DEF Counts
  <2> QED BY <2>2, <2>3
<1> QED BY <1>7, <1>8, <1>9, <1>10 DEF Cycle

LEMMA CalmTransition ==
  ASSUME CalmInv, Transition, UNCHANGED execVars
  PROVE  Table' /\ Tasks' /\ Cycle'
<1> DEFINE n    == Cur
           done == [adv.snap[n] EXCEPT !.state = adv.to, !.version = @ + 1]
<1>0. Moving /\ adv.pc = "cas" /\ UNCHANGED <<art, stamp, casc>>
  BY DEF Transition, Moving, execVars
<1>1. IsValid(adv.snap[n].state, adv.to)
  BY <1>0, MoveStep
<1>2. CASE adv.snap[n].version = node[n].version
  <2>1. WriteBump(n, adv.to) /\ Return(done)
    BY <1>1, <1>2 DEF Transition, Cur
  <2> QED BY <1>0, <1>2, <2>1, CalmMoved, CalmMovedCycle
<1>3. CASE adv.snap[n].version # node[n].version
  <2>1. adv' = [adv EXCEPT !.pc = "reload"] /\ UNCHANGED <<node, run>>
    BY <1>1, <1>3 DEF Transition, Cur
  <2>2. /\ adv'.pc = "reload" /\ adv'.snap = adv.snap /\ adv'.i = adv.i /\ adv'.to = adv.to
        /\ adv'.launch = adv.launch /\ adv'.tries = adv.tries /\ adv'.count = adv.count
    BY <2>1, CalmTypes DEF Advancer
  <2>3. Revived(n)
    BY <1>0, <1>3 DEF CalmInv, Cycle, Move, Same
  <2>4. InCycle /\ InCycle' /\ Cur' = Cur /\ \A m : Ahead(m)' => Ahead(m)
    BY <1>0, <2>2, AheadShrinks DEF InCycle, Moving, Cur
  <2>5. Fresh'
    BY <2>1, <2>2, <2>4 DEF CalmInv, Cycle, Fresh, Same, Revived
  <2>6. SnapDone'
    BY <2>1, <2>2, <2>4 DEF CalmInv, Cycle, SnapDone
  <2>7. Move'
    <3>1. Revived(Cur)'
      BY <2>1, <2>2, <2>3, <2>4 DEF Revived
    <3> QED BY <1>0, <2>2, <2>4, <3>1 DEF CalmInv, Cycle, Move, DepsDone
  <2>8. Counts'
    BY <2>1, <2>2, <2>4 DEF CalmInv, Cycle, Counts, Claimed
  <2>9. Table' /\ Tasks'
    BY <1>0, <2>1, TasksUnmoved
  <2> QED BY <2>5, <2>6, <2>7, <2>8, <2>9 DEF Cycle
<1> QED BY <1>2, <1>3

\* The one conflict there is: the QA was reopened since the snapshot.  The
\* fresh row is adopted and the transition tried again.
LEMMA CalmReload ==
  ASSUME CalmInv, Reload, UNCHANGED execVars
  PROVE  UNCHANGED node /\ Table' /\ Tasks' /\ Cycle'
<1> DEFINE n   == Cur
           row == Adopted(adv.snap[n], node[n])
<1>0. /\ Moving /\ adv.pc = "reload" /\ UNCHANGED <<node, art, stamp, casc>>
  BY DEF Reload, Moving, execVars
<1>1. n \in Node /\ adv.snap[n] \in Row /\ node[n] \in Row
  BY <1>0, MovingNode, CalmTypes
<1>2. Revived(n) /\ adv.tries = 0 /\ adv.to = "READY"
  BY <1>0 DEF CalmInv, Cycle, Move, Revived, Steps, GateSteps
<1>3. ~EndsOnReload(node[n], adv.to, adv.tries)
  BY <1>2 DEF EndsOnReload, IsValid, VALID_TRANSITIONS, Revived
<1>4. adv' = [adv EXCEPT !.pc = "cas", !.snap[n] = row, !.tries = @ + 1] /\ UNCHANGED run
  BY <1>3 DEF Reload, Cur
<1>5. row = node[n]
  BY <1>1, <1>2 DEF Adopted, Row, Revived
<1> HIDE DEF row, n
<1>6. /\ adv'.pc = "cas" /\ adv'.i = adv.i /\ adv'.to = adv.to
      /\ adv'.launch = adv.launch /\ adv'.count = adv.count
      /\ adv'.snap[n] = row /\ \A m \in Node \ {n} : adv'.snap[m] = adv.snap[m]
  BY <1>1, <1>4, CalmTypes DEF Advancer
<1>7. InCycle /\ InCycle' /\ Cur' = n /\ \A m : Ahead(m)' => Ahead(m)
  BY <1>0, <1>6, AheadShrinks DEF InCycle, Moving, Cur, n
<1>8. Fresh'
  <2> SUFFICES ASSUME NEW m \in Node, Ahead(m), adv'.snap[m].state \notin Settled
               PROVE  Same(m)' \/ Revived(m)'
    BY <1>7 DEF Fresh
  <2>1. CASE m = n
    BY <1>0, <1>5, <1>6, <2>1 DEF Same
  <2>2. CASE m # n
    BY <1>0, <1>6, <2>2 DEF CalmInv, Cycle, Fresh, Same, Revived
  <2> QED BY <2>1, <2>2
<1>9. SnapDone'
  <2> SUFFICES ASSUME NEW m \in Node, adv'.snap[m].state \in Done
               PROVE  /\ Type[m] # "TASK" => node[m].state \in Done
                      /\ Type[m] = "TASK" /\ Ahead(Pair[m])
                         /\ adv'.snap[Pair[m]].state \notin Settled
                           => node[m].state \in Done
    BY <1>0, <1>7 DEF SnapDone
  <2>1. m # n /\ adv.snap[m].state \in Done
    BY <1>2, <1>5, <1>6 DEF Revived, Done
  <2>2. Type[m] = "TASK" => Pair[m] \in Node
    BY Pairs DEF IsGate
  <2>3. adv.snap[n].state \notin Settled
    BY <1>2 DEF Revived, Settled
  <2> QED BY <1>6, <1>7, <2>1, <2>2, <2>3 DEF CalmInv, Cycle, SnapDone
<1>10. Move'
  <2>1. Same(Cur)'
    BY <1>0, <1>5, <1>6, <1>7 DEF Same
  <2>2. adv'.snap[n].state = "NOT_STARTED" /\ adv'.to = "READY"
    BY <1>2, <1>5, <1>6 DEF Revived
  <2>3. DepsDone(adv'.snap, n)
    <3>1. DepsDone(adv.snap, n)
      BY <1>0, <1>2 DEF CalmInv, Cycle, Move, n
    <3> QED BY <1>1, <1>6, <3>1, NotOwnDep DEF DepsDone
  <2>4. ~IsGate(n) /\ adv.launch # "uncounted"
        /\ (adv.launch = "counted" => adv.count < MaxConcurrent)
    BY <1>0, <1>2 DEF CalmInv, Cycle, Move, Revived, IsGate, n
  <2> QED BY <1>6, <1>7, <2>1, <2>2, <2>3, <2>4 DEF Move, DepsDone, Steps, IsGate
<1>11. Counts'
  BY <1>0, <1>6, <1>7 DEF CalmInv, Cycle, Counts, Claimed
<1>12. Table' /\ Tasks'
  BY <1>0, <1>4, TasksUnmoved
<1> QED BY <1>0, <1>8, <1>9, <1>10, <1>11, <1>12 DEF Cycle

LEMMA CalmAdvance ==
  ASSUME CalmInv, Advance, UNCHANGED execVars
  PROVE  Table' /\ Tasks' /\ Cycle'
<1>0. UNCHANGED <<art, stamp, casc>>
  BY DEF execVars
<1>1. CASE Dequeue \/ Finish
  <2>1. UNCHANGED <<node, run>> /\ adv'.pc \in {"wait", "load"}
    BY <1>1, CalmTypes, WaitingType DEF Dequeue, Finish, Advancer
  <2> QED BY <1>0, <2>1, TasksUnmoved, CycleIdle
<1>2. CASE Load
  BY <1>0, <1>2, TasksUnmoved, CalmLoad DEF Load
<1>3. CASE Evaluate
  BY <1>0, <1>3, TasksUnmoved, CalmEvaluate DEF Evaluate
<1> QED BY <1>1, <1>2, <1>3, CalmTransition, CalmReload DEF Advance

-----------------------------------------------------------------------------
(* The invariant *)

LEMMA CalmInit == Init => CalmInv
<1> SUFFICES ASSUME Init PROVE CalmInv
  OBVIOUS
<1>1. TypeOK /\ GatesApart
  BY TypeInit, GatesInit
<1>2. /\ \A r \in Run : run[r].pc = "free"
      /\ \A n \in Node : casc[n].pc = "idle" /\ stamp[n] = 0
      /\ adv.pc = "wait"
  BY FreeType DEF Init, EngineInit, NoCascade, Waiting
<1>a. \A n \in Node : /\ node[n].state = IF n \in Skipped THEN "SKIPPED" ELSE "NOT_STARTED"
                      /\ node[n].retry = 0
  BY DEF Init, EngineInit, InitialRow
<1>3. Table
  BY <1>a, <1>2, BoundAssumption DEF Table, Skips, Retries, Approved
<1>4. Tasks
  BY <1>2 DEF Tasks, NoCascades, Roles, Owners, Engaged
<1>5. Cycle
  <2>2. Claimed = {}
    BY <1>a DEF Claimed
  <2>3. Cardinality({}) = 0
    BY FS_EmptySet
  <2> QED BY <1>2, <2>2, <2>3, BoundAssumption
          DEF Cycle, Fresh, SnapDone, Move, Counts, Ahead, InCycle, Moving
<1> QED BY <1>1, <1>3, <1>4, <1>5 DEF CalmInv

LEMMA CalmNext == Calm /\ CalmInv /\ [Next]_vars => CalmInv'
<1> SUFFICES ASSUME Calm, CalmInv, [Next]_vars PROVE CalmInv'
  OBVIOUS
<1>1. TypeOK' /\ GatesApart'
  BY TypeNext, GatesNext DEF CalmInv
<1>2. CASE Advance /\ UNCHANGED execVars
  BY <1>1, <1>2, CalmAdvance DEF CalmInv
<1>3. ASSUME NEW r \in Run, Execute(r) PROVE CalmInv'
  BY <1>1, <1>3, CalmRunNodeSafe, CalmExecuteNode DEF CalmInv, Execute
<1>4. ASSUME NEW q \in Node PROVE ~CascadeForNode(q)
  BY DEF CalmInv, Tasks, NoCascades, CascadeForNode, CascadeRead, CascadeApply,
         CascadeResetRetry, CascadeReopenGates, CascadeEnqueue
<1>5. CASE UNCHANGED vars
  <2>1. UNCHANGED <<node, run, adv, art, stamp, casc>>
    BY <1>5 DEF vars, engine, execVars
  <2> QED BY <1>1, <2>1, TasksUnmoved, CycleUnmoved DEF CalmInv
<1> QED BY <1>2, <1>3, <1>4, <1>5 DEF Next, Poll

\* While no approval sends work back, the invariant holds.
THEOREM CalmCorrect == ASSUME Calm PROVE Spec => []CalmInv
<1>1. CalmInv /\ [Next]_vars => CalmInv'
  BY CalmNext
<1> QED BY <1>1, CalmInit, PTL DEF Spec
=============================================================================
