---------------------------- MODULE DagAdvancer ----------------------------
(***************************************************************************)
(* engine/core/dag_advancer.py: the nodes table, the single consumer loop  *)
(* of DAGAdvancer and the wrapper _run_node_safe around every executor.    *)
(* What an executor does inside the wrapper is in module Executor.         *)
(*                                                                         *)
(* Everything runs on one asyncio loop.  A step is the code between two    *)
(* awaits, and every database call is an await of its own, so the advancer *)
(* evaluates a stale snapshot while executor tasks write the table.  The   *)
(* task works on a copy of the advancer's NodeSnapshot: sharing it changes *)
(* no decision, since what a failing task writes there is never "done".    *)
(***************************************************************************)
EXTENDS StateMachine, Integers, Sequences, FiniteSets

CONSTANTS
  Node,           \* the nodes of one DAG
  Type,           \* [Node -> NodeType]
  Deps,           \* [Node -> SUBSET Node]: sources of the active edges
  Pair,           \* [Node -> Node]: the QA of a TASK, the TASK of a QA
  Order,          \* what topological_sort returns for the graph
  AutoApprove,    \* the gates with gate_auto_approve = 1
  Skipped,        \* the nodes intake creates as SKIPPED
  MaxRetries,     \* nodes.max_retries
  MaxConcurrent,  \* DAGAdvancer.MAX_CONCURRENT_NODES
  Run             \* names for executor tasks; bounds how many are alive

\* The shape intake gives a DAG: a TASK feeds nothing but its own QA.
ASSUME GraphAssumption ==
  /\ Node # {} /\ IsFiniteSet(Node)
  /\ Type \in [Node -> NodeType]
  /\ Deps \in [Node -> SUBSET Node]
  /\ Pair \in [Node -> Node]
  /\ \A n \in Node : Type[n] = "QA" => Deps[n] = {Pair[n]}
  /\ \A n \in Node : Type[n] \in {"TASK", "QA"} =>
        /\ Type[Pair[n]] \in {"TASK", "QA"} \ {Type[n]}
        /\ Pair[Pair[n]] = n
  /\ \A n \in Node : \A d \in Deps[n] :
        Type[d] = "TASK" => Type[n] = "QA" /\ Pair[n] = d

\* Order lists every node once, each after its dependencies.
ASSUME OrderAssumption ==
  /\ Order \in Seq(Node)
  /\ \A n \in Node : \E i \in 1..Len(Order) : Order[i] = n
  /\ \A i, j \in 1..Len(Order) : Order[i] = Order[j] => i = j
  /\ \A i, j \in 1..Len(Order) : Order[i] \in Deps[Order[j]] => i < j

ASSUME BoundAssumption ==
  /\ AutoApprove \subseteq Node
  /\ Skipped \subseteq Node
  /\ MaxRetries \in Nat \ {0}
  /\ MaxConcurrent \in Nat \ {0}
  /\ IsFiniteSet(Run)

VARIABLES
  node,   \* nodes table: the columns the optimistic lock reads and writes
  dag,    \* dags.status
  queue,  \* pending advance requests for this DAG
  adv,    \* the consumer: its pc, snapshot and the transition in progress
  run     \* the executor tasks

engine == <<node, dag, queue, adv, run>>

Row == [state : NodeState, version : Nat, retry : Nat]

Launch == {"no", "counted", "uncounted"}

-----------------------------------------------------------------------------
(* States *)

InitialRow(n) ==
  [state |-> IF n \in Skipped THEN "SKIPPED" ELSE "NOT_STARTED",
   version |-> 0, retry |-> 0]

Waiting ==
  [pc |-> "wait", snap |-> [n \in Node |-> InitialRow(n)], i |-> 1,
   count |-> 0, to |-> "READY", launch |-> "no", tries |-> 0]

Free == [pc |-> "free", node |-> Order[1], row |-> InitialRow(Order[1]),
         to |-> "READY", tries |-> 0, seen |-> 0, targets |-> {}, todo |-> {}]

EngineInit ==
  /\ node = [n \in Node |-> InitialRow(n)]
  /\ dag = "RUNNING"
  /\ queue = 1
  /\ adv = Waiting
  /\ run = [r \in Run |-> Free]

FreeRuns == {r \in Run : run[r].pc = "free"}

\* Tasks inside "async with self._semaphore".
Holding == {r \in Run : run[r].pc \notin {"free", "queued"}}

Write(n, s)     == node' = [node EXCEPT ![n].state = s]
WriteBump(n, s) == node' = [node EXCEPT ![n].state = s, ![n].version = @ + 1]

-----------------------------------------------------------------------------
(* _transition_node: compare-and-set on version, at most three attempts.   *)

\* The in-memory row after a conflict: state and version of the fresh row.
Adopted(row, fresh) ==
  [row EXCEPT !.state = fresh.state, !.version = fresh.version]

\* Mutant: the fresh state is not validated.
EndsOnReloadUnchecked(fresh, to, tries) ==
  \/ fresh.state = to
  \/ tries + 1 = 3

\* The reload ends the transition without having written anything.
EndsOnReload(fresh, to, tries) ==
  \/ fresh.state = to
  \/ ~IsValid(fresh.state, to)
  \/ tries + 1 = 3

\* Mutant: the task is created before its node is marked IN_PROGRESS.
FollowUnmarked(n, to, s, launch) ==
  IF to \in {"READY", "IN_PROGRESS"} /\ launch # "no" THEN "LAUNCH" ELSE "NEXT"

\* Mutant: the gate branch is missing.
FollowWithoutGates(n, to, s, launch) ==
  CASE to = "READY" /\ launch # "no" -> "IN_PROGRESS"
    [] to = "IN_PROGRESS" -> "LAUNCH"
    [] OTHER -> "NEXT"

\* What the advancer does once the transition of n to "to" has returned,
\* s being the in-memory state it left.
Follow(n, to, s, launch) ==
  LET gate == Type[n] = "GATE" /\ launch # "uncounted"
  IN  CASE gate /\ to = "READY" /\ s = "READY" -> "IN_PROGRESS"
        [] gate /\ to \in {"READY", "IN_PROGRESS"} /\ s = "IN_PROGRESS"
             -> IF n \in AutoApprove THEN "COMPLETED" ELSE "AWAITING_APPROVAL"
        [] ~gate /\ to = "READY" /\ launch # "no" -> "IN_PROGRESS"
        [] ~gate /\ to = "IN_PROGRESS" -> "LAUNCH"
        [] OTHER -> "NEXT"

\* _launch_node's create_task: the task waits for the semaphore.
Start(n, row) ==
  \E r \in FreeRuns :
    run' = [run EXCEPT ![r] = [Free EXCEPT !.pc = "queued", !.node = n,
                                           !.row = row]]

\* Return from a transition of Order[adv.i] that left the row "row".
Return(row) ==
  LET n    == Order[adv.i]
      what == Follow(n, adv.to, row.state, adv.launch)
      snap == [adv.snap EXCEPT ![n] = row]
  IN  \/ /\ what = "NEXT"
         /\ adv' = [adv EXCEPT !.pc = "eval", !.snap = snap, !.i = @ + 1]
         /\ UNCHANGED run
      \/ /\ what = "LAUNCH"
         /\ Start(n, row)
         /\ adv' = [adv EXCEPT !.pc = "eval", !.snap = snap, !.i = @ + 1,
                      !.count = IF adv.launch = "counted" THEN @ + 1 ELSE @]
      \/ /\ what \in NodeState
         /\ adv' = [adv EXCEPT !.pc = "cas", !.snap = snap, !.to = what,
                               !.tries = 0]
         /\ UNCHANGED run

-----------------------------------------------------------------------------
(* The consumer loop: run and _advance_dag *)

\* Mutant: get_nowait on an empty queue.
DequeueUnguarded ==
  /\ adv.pc = "wait"
  /\ queue' = queue - 1
  /\ adv' = [adv EXCEPT !.pc = "load"]
  /\ UNCHANGED <<node, dag, run>>

\* queue.get() and the status read; a paused DAG ends the cycle at once.
Dequeue ==
  /\ adv.pc = "wait"
  /\ queue > 0
  /\ queue' = queue - 1
  /\ adv' = IF dag = "PAUSED" THEN adv ELSE [adv EXCEPT !.pc = "load"]
  /\ UNCHANGED <<node, dag, run>>

\* _load_nodes; the IN_PROGRESS count is taken once, from this snapshot.
Load ==
  /\ adv.pc = "load"
  /\ adv' = [adv EXCEPT !.pc = "eval", !.snap = node, !.i = 1,
               !.count = Cardinality({n \in Node : node[n].state = "IN_PROGRESS"})]
  /\ UNCHANGED <<node, dag, queue, run>>

DepsDone(rows, n)  == \A d \in Deps[n] : rows[d].state \in Done
DepFailed(rows, n) == \E d \in Deps[n] : rows[d].state \in Failing

\* Mutant: one launch too many.
RoomInclusive == adv.count <= MaxConcurrent

Room == adv.count < MaxConcurrent

\* Mutant: no dependency has failed, so the node may go.
UnblockedSoon(n) == ~DepFailed(adv.snap, n)

Unblocked(n) == DepsDone(adv.snap, n)

\* The first transition an advance attempts on node n: [to, launch], or
\* "none" when it leaves the node alone.
Plan(n) ==
  LET row  == adv.snap[n]
      s    == row.state
      todo(to, launch) == [to |-> to, launch |-> launch]
      none == todo("none", "no")
  IN  CASE s \in Settled -> none
        [] s = "FAILED" ->
             IF row.retry < MaxRetries /\ Unblocked(n)
             THEN todo("READY", "uncounted") ELSE none
        [] s \notin Settled \union {"FAILED"} /\ DepFailed(adv.snap, n) ->
             IF s # "BLOCKED" THEN todo("BLOCKED", "no") ELSE none
        [] s \notin Settled \union {"FAILED"} /\ Unblocked(n) ->
             IF s \in Restartable
             THEN todo("READY", IF Room THEN "counted" ELSE "no")
             ELSE IF Type[n] = "GATE" \/ Room
                  THEN todo("IN_PROGRESS", "counted") ELSE none
        [] OTHER ->
             IF s # "BLOCKED" THEN todo("BLOCKED", "no") ELSE none

\* Evaluate the next node of the topological order.
Evaluate ==
  /\ adv.pc = "eval"
  /\ adv.i <= Len(Order)
  /\ LET plan == Plan(Order[adv.i])
     IN  adv' = IF plan.to = "none"
                THEN [adv EXCEPT !.i = @ + 1]
                ELSE [adv EXCEPT !.pc = "cas", !.to = plan.to, !.tries = 0,
                                 !.launch = plan.launch]
  /\ UNCHANGED <<node, dag, queue, run>>

\* An attempt of _transition_node: an invalid transition raises and ends the
\* cycle, otherwise UPDATE ... WHERE id=? AND version=?.
Transition ==
  LET n   == Order[adv.i]
      row == adv.snap[n]
  IN  /\ adv.pc = "cas"
      /\ IF ~IsValid(row.state, adv.to)
         THEN adv' = Waiting /\ UNCHANGED <<node, run>>
         ELSE \/ /\ row.version = node[n].version
                 /\ WriteBump(n, adv.to)
                 /\ Return([row EXCEPT !.state = adv.to, !.version = @ + 1])
              \/ /\ row.version # node[n].version
                 /\ adv' = [adv EXCEPT !.pc = "reload"]
                 /\ UNCHANGED <<node, run>>
      /\ UNCHANGED <<dag, queue>>

\* The SELECT after a conflict.  Giving up is silent: the caller goes on.
Reload ==
  LET n   == Order[adv.i]
      row == Adopted(adv.snap[n], node[n])
  IN  /\ adv.pc = "reload"
      /\ \/ /\ EndsOnReload(node[n], adv.to, adv.tries)
            /\ Return(row)
         \/ /\ ~EndsOnReload(node[n], adv.to, adv.tries)
            /\ adv' = [adv EXCEPT !.pc = "cas", !.snap[n] = row,
                                  !.tries = @ + 1]
            /\ UNCHANGED run
      /\ UNCHANGED <<node, dag, queue>>

\* Mutant: the DAG is done when its QAs are.
FinishOnQa ==
  /\ adv.pc = "eval"
  /\ adv.i > Len(Order)
  /\ dag' = IF \A n \in Node : Type[n] = "TASK" => adv.snap[n].state \in Done
            THEN "COMPLETED" ELSE dag
  /\ adv' = Waiting
  /\ UNCHANGED <<node, queue, run>>

\* The end of the cycle: the completion test reads the snapshot only.
Finish ==
  /\ adv.pc = "eval"
  /\ adv.i > Len(Order)
  /\ dag' = IF \A n \in Node : Type[n] # "GATE" => adv.snap[n].state \in Done
            THEN "COMPLETED" ELSE dag
  /\ adv' = Waiting
  /\ UNCHANGED <<node, queue, run>>

Advance == Dequeue \/ Load \/ Evaluate \/ Transition \/ Reload \/ Finish

-----------------------------------------------------------------------------
(* _run_node_safe: the semaphore, the outcome of the executor, the retries *)

Goto(r, pc) == run' = [run EXCEPT ![r].pc = pc]

\* Mutant: one slot too many.
AcquireInclusive(r) ==
  /\ run[r].pc = "queued"
  /\ Cardinality(Holding) <= MaxConcurrent
  /\ Goto(r, IF run[r].row.state = "SKIPPED" THEN "return" ELSE "stall")
  /\ UNCHANGED <<node, dag, queue, adv>>

\* "async with self._semaphore": the node is IN_PROGRESS already.
Acquire(r) ==
  /\ run[r].pc = "queued"
  /\ Cardinality(Holding) < MaxConcurrent
  /\ Goto(r, IF run[r].row.state = "SKIPPED" THEN "return" ELSE "stall")
  /\ UNCHANGED <<node, dag, queue, adv>>

\* Mutant: the DAG is not enqueued after a success.
SuccessSilent(r) ==
  /\ run[r].pc = "return"
  /\ run' = [run EXCEPT ![r] = Free]
  /\ UNCHANGED <<node, dag, queue, adv>>

\* The executor returned: enqueue the DAG.
Success(r) ==
  /\ run[r].pc = "return"
  /\ queue' = queue + 1
  /\ run' = [run EXCEPT ![r] = Free]
  /\ UNCHANGED <<node, dag, adv>>

\* Mutant: the slot is not released.
LimitReachedHeld(r) ==
  /\ run[r].pc = "limit"
  /\ Write(run[r].node, "SUSPENDED")
  /\ Goto(r, "held")
  /\ UNCHANGED <<dag, queue, adv>>

\* An API limit suspends the node and does not enqueue.
LimitReached(r) ==
  /\ run[r].pc = "limit"
  /\ Write(run[r].node, "SUSPENDED")
  /\ run' = [run EXCEPT ![r] = Free]
  /\ UNCHANGED <<dag, queue, adv>>

\* Mutant: one retry more than max_retries.
CountRetryInclusive(r) ==
  LET n     == run[r].node
      retry == run[r].row.retry + 1
  IN  /\ run[r].pc = "fail"
      /\ node' = [node EXCEPT ![n].retry = retry]
      /\ run' = [run EXCEPT ![r].pc = "cas", ![r].row.retry = retry,
                   ![r].to = IF retry <= MaxRetries THEN "READY" ELSE "FAILED"]
      /\ UNCHANGED <<dag, queue, adv>>

\* Any other exception: retry_count is written from the snapshot.
CountRetry(r) ==
  LET n     == run[r].node
      retry == run[r].row.retry + 1
  IN  /\ run[r].pc = "fail"
      /\ node' = [node EXCEPT ![n].retry = retry]
      /\ run' = [run EXCEPT ![r].pc = "cas", ![r].row.retry = retry,
                   ![r].to = IF retry < MaxRetries THEN "READY" ELSE "FAILED"]
      /\ UNCHANGED <<dag, queue, adv>>

\* The task's own _transition_node, to READY or FAILED.  An invalid READY
\* falls back to FAILED; an invalid FAILED then escapes the handler and the
\* DAG is not enqueued, unless the retries were exhausted.
RunTransition(r) ==
  LET n   == run[r].node
      row == run[r].row
      to  == run[r].to
  IN  /\ run[r].pc = "cas"
      /\ IF ~IsValid(row.state, to)
         THEN /\ run' = IF to = "READY"
                        THEN [run EXCEPT ![r].to = "FAILED"]
                        ELSE IF row.retry < MaxRetries
                             THEN [run EXCEPT ![r] = Free]
                             ELSE [run EXCEPT ![r].pc = "return"]
              /\ UNCHANGED node
         ELSE \/ /\ row.version = node[n].version
                 /\ WriteBump(n, to)
                 /\ run' = [run EXCEPT ![r].pc = "return", ![r].row.state = to,
                                       ![r].row.version = @ + 1]
              \/ /\ row.version # node[n].version
                 /\ Goto(r, "reload")
                 /\ UNCHANGED node
      /\ UNCHANGED <<dag, queue, adv>>

RunReload(r) ==
  LET n   == run[r].node
      row == Adopted(run[r].row, node[n])
  IN  /\ run[r].pc = "reload"
      /\ run' = IF EndsOnReload(node[n], run[r].to, run[r].tries)
                THEN [run EXCEPT ![r].pc = "return", ![r].row = row]
                ELSE [run EXCEPT ![r].pc = "cas", ![r].row = row,
                                 ![r].tries = @ + 1]
      /\ UNCHANGED <<node, dag, queue, adv>>

RunNodeSafe(r) ==
  \/ Acquire(r) \/ Success(r) \/ LimitReached(r)
  \/ CountRetry(r) \/ RunTransition(r) \/ RunReload(r)
=============================================================================
