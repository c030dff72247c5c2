---------------------------- MODULE OperatorApi ----------------------------
(***************************************************************************)
(* api/server.py, validation_gateway.py, dag_repair.py and                 *)
(* engine_version.py: the requests of an operator against a DAG whose      *)
(* advancer and executors are at work.  A handler is a coroutine on the    *)
(* same event loop; each of its SELECTs and UPDATEs is a step.  Requests a *)
(* handler refuses (404, 409) change nothing and are not made here.        *)
(***************************************************************************)
EXTENDS Executor

CONSTANTS
  Client,       \* concurrent HTTP requests
  Requests,     \* the requests that are made, a subset of RequestKinds
  Together,     \* bound: one request is made, or one of each of these kinds
  Define, Build \* the TASK nodes of the phases DEFINE and BUILD

RequestKinds == {"approve", "feedback", "skip", "retry", "start", "pause",
                 "suspend", "resume", "repair", "force_close",
                 "edge_approve", "edge_reject", "revise", "edit", "revalidate"}

ASSUME RequestAssumption ==
  /\ Requests \subseteq RequestKinds
  /\ Together \subseteq RequestKinds
  /\ \A n \in Define \union Build : n \in Node /\ Type[n] = "TASK"

VARIABLES
  op,    \* the handlers' local variables
  made,  \* the kinds of the requests accepted so far
  why    \* nodes table: suspension_reason, "none" when NULL

operatorVars == <<op, made, why>>

\* A handler between requests.
Idle == [pc |-> "idle", node |-> Order[1], row |-> InitialRow(Order[1]), todo |-> {},
         seen |-> 0]

OperatorInit ==
  /\ op = [c \in Client |-> Idle]
  /\ made = {}
  /\ why = [n \in Node |-> "none"]

Counted(kind) ==
  /\ kind \in Requests \ made
  /\ made # {} => made \union {kind} \subseteq Together
  /\ made' = made \union {kind}

\* A request of the kind is accepted by client c, which goes on at pc.
AcceptFor(c, kind, pc, n, todo) ==
  /\ op[c].pc = "idle"
  /\ Counted(kind)
  /\ op' = [op EXCEPT ![c] = [pc |-> pc, node |-> n, row |-> node[n], todo |-> todo,
                               seen |-> art[n]]]

Accept(c, kind, pc, n) == AcceptFor(c, kind, pc, n, {})

\* A request whose handler has a single step.
AtOnce(kind) == Counted(kind) /\ UNCHANGED op

At(c, pc)   == op[c].pc = pc /\ UNCHANGED made
Step(c, pc) == op' = [op EXCEPT ![c].pc = pc]
Reply(c)    == op' = [op EXCEPT ![c] = Idle]

OnlyNodes == UNCHANGED <<dag, queue, adv, run, execVars, why>>
OnlyReads == UNCHANGED <<vars, why>>

\* UPDATE ... WHERE id=? AND version=?
Unchanged(c) == node[op[c].node].version = op[c].row.version

-----------------------------------------------------------------------------
(* Gates *)

Approve(c, g) ==
  /\ node[g].state = "AWAITING_APPROVAL"
  /\ Accept(c, "approve", "approve", g)
  /\ OnlyReads

\* Mutant: the version is not compared.
ApproveWriteBlind(c) ==
  /\ At(c, "approve")
  /\ WriteBump(op[c].node, "COMPLETED")
  /\ Step(c, "enqueue")
  /\ OnlyNodes

\* 409 when the gate has changed since.
ApproveWrite(c) ==
  /\ At(c, "approve")
  /\ IF Unchanged(c) THEN WriteBump(op[c].node, "COMPLETED") /\ Step(c, "enqueue")
                     ELSE Reply(c) /\ UNCHANGED node
  /\ OnlyNodes

\* Mutant: nobody tells the advancer.
EnqueueSilent(c) ==
  /\ At(c, "enqueue")
  /\ Reply(c)
  /\ OnlyReads

\* The handlers' last step.
Enqueue(c) ==
  /\ At(c, "enqueue")
  /\ queue' = queue + 1
  /\ Reply(c)
  /\ UNCHANGED <<node, dag, adv, run, execVars, why>>

\* Feedback on a gate: the gate is reset whatever its state is ...
Feedback(c, g) ==
  /\ Type[g] = "GATE"
  /\ Accept(c, "feedback", "feedback", g)
  /\ WriteBump(g, "NOT_STARTED")
  /\ OnlyNodes

\* ... then the words of the feedback select some COMPLETED tasks of BUILD;
\* each is invalidated and its QA reset, with no second look at either row.
FeedbackSelect(c) ==
  /\ At(c, "feedback")
  /\ \E todo \in SUBSET {t \in Build : node[t].state = "COMPLETED"} :
       op' = [op EXCEPT ![c].pc = "feedback_task", ![c].todo = todo]
  /\ OnlyReads

FeedbackTask(c) ==
  /\ At(c, "feedback_task")
  /\ IF op[c].todo = {}
     THEN Step(c, "enqueue") /\ UNCHANGED node
     ELSE \E t \in op[c].todo :
            /\ Write(t, "INVALID")
            /\ op' = [op EXCEPT ![c].pc = "feedback_qa", ![c].node = t,
                                ![c].todo = @ \ {t}]
  /\ OnlyNodes

FeedbackQa(c) ==
  LET q == Pair[op[c].node]
  IN  /\ At(c, "feedback_qa")
      /\ node' = [node EXCEPT ![q].state = "NOT_STARTED", ![q].retry = 0]
      /\ Step(c, "feedback_task")
      /\ OnlyNodes

\* The gates of an engagement's edges, in one UPDATE; nothing is enqueued.
EdgeDecision(g, kind, to) ==
  /\ Type[g] = "GATE"
  /\ node[g].state = "AWAITING_APPROVAL"
  /\ AtOnce(kind)
  /\ WriteBump(g, to)
  /\ OnlyNodes

EdgeApprove(g) == EdgeDecision(g, "edge_approve", "COMPLETED")
EdgeReject(g)  == EdgeDecision(g, "edge_reject", "INVALID")

-----------------------------------------------------------------------------
(* Nodes *)

Skip(c, n) ==
  /\ node[n].state \in {"FAILED", "BLOCKED", "NOT_STARTED"}
  /\ Accept(c, "skip", "skip", n)
  /\ OnlyReads

\* Neither the node nor its QA is looked at again.
SkipWrite(c) ==
  /\ At(c, "skip")
  /\ WriteBump(op[c].node, "SKIPPED")
  /\ Step(c, IF Type[op[c].node] = "TASK" THEN "skip_pair" ELSE "enqueue")
  /\ OnlyNodes

SkipPair(c) ==
  /\ At(c, "skip_pair")
  /\ WriteBump(Pair[op[c].node], "SKIPPED")
  /\ Step(c, "enqueue")
  /\ OnlyNodes

\* retry_node: a TASK with an artifact whose QA is stuck keeps its artifact,
\* unless the QA has stalled twice; any other node is executed again.
Retry(c, n) ==
  LET q    == Pair[n]
      kept == /\ Type[n] = "TASK" /\ node[n].state \in {"SUSPENDED", "COMPLETED"}
              /\ art[n] > 0 /\ stall[q] < 2
              /\ node[q].state \in {"FAILED", "BLOCKED", "NOT_STARTED", "SUSPENDED"}
  IN  /\ Accept(c, "retry", IF kept THEN "retry_qa" ELSE "retry_full", n)
      /\ OnlyReads

RetryQaOnly(c) ==
  LET n == op[c].node
  IN  /\ At(c, "retry_qa")
      /\ IF node[n].state = "COMPLETED" THEN UNCHANGED <<node, stall>>
         ELSE /\ node' = [node EXCEPT ![n].state = "COMPLETED", ![n].retry = 0]
              /\ stall' = [stall EXCEPT ![n] = 0]
      /\ Step(c, "reopen_qa")
      /\ UNCHANGED <<dag, queue, adv, run, art, stamp, casc, why>>

ReopenQa(c) ==
  LET q == Pair[op[c].node]
  IN  /\ At(c, "reopen_qa")
      /\ node' = [node EXCEPT ![q].state = "NOT_STARTED", ![q].retry = 0]
      /\ Step(c, "enqueue")
      /\ OnlyNodes

RetryFull(c) ==
  /\ At(c, "retry_full")
  /\ stall' = [stall EXCEPT ![op[c].node] = 0]
  /\ Step(c, "retry_read")
  /\ UNCHANGED <<engine, art, stamp, casc, why>>

\* c9_manual_retry: a row from which READY is not allowed is an error;
\* IN_PROGRESS allows it.
Checked(c) ==
  LET n == op[c].node
  IN  op' = IF IsValid(node[n].state, "READY")
            THEN [op EXCEPT ![c].pc = "retry_write", ![c].row = node[n]]
            ELSE [op EXCEPT ![c] = Idle]

\* COMPLETED is first made INVALID, and the row read again.
RetryRead(c) ==
  LET n == op[c].node
  IN  /\ At(c, "retry_read")
      /\ IF node[n].state = "COMPLETED"
         THEN op' = [op EXCEPT ![c].pc = "retry_again", ![c].row = node[n]]
         ELSE Checked(c)
      /\ OnlyReads

RetryInvalidate(c) ==
  /\ At(c, "retry_again")
  /\ IF Unchanged(c) THEN WriteBump(op[c].node, "INVALID") ELSE UNCHANGED node
  /\ Step(c, "retry_check")
  /\ OnlyNodes

RetryCheck(c) == At(c, "retry_check") /\ Checked(c) /\ OnlyReads

RetryWrite(c) ==
  LET n == op[c].node
  IN  /\ At(c, "retry_write")
      /\ IF Unchanged(c)
         THEN /\ node' = [node EXCEPT ![n] = [state |-> "READY", retry |-> 0,
                                              version |-> @.version + 1]]
              /\ stall' = [stall EXCEPT ![n] = 0]
              /\ Step(c, "enqueue")
         ELSE Reply(c) /\ UNCHANGED <<node, stall>>
      /\ UNCHANGED <<dag, queue, adv, run, art, stamp, casc, why>>

\* Suspending a node does not cancel its task; resuming does not enqueue.
Suspend(c, n) == Accept(c, "suspend", "suspend", n) /\ OnlyReads

SuspendNode(c) ==
  LET n == op[c].node
  IN  /\ At(c, "suspend")
      /\ IF Unchanged(c) /\ node[n].state = "IN_PROGRESS"
         THEN WriteBump(n, "SUSPENDED") /\ why' = [why EXCEPT ![n] = "operator"]
         ELSE UNCHANGED <<node, why>>
      /\ Reply(c)
      /\ UNCHANGED <<dag, queue, adv, run, execVars>>

Resume(c, n) ==
  /\ node[n].state = "SUSPENDED"
  /\ Accept(c, "resume", "resume", n)
  /\ OnlyReads

ResumeNode(c) ==
  LET n == op[c].node
  IN  /\ At(c, "resume")
      /\ IF Unchanged(c)
         THEN WriteBump(n, "READY") /\ why' = [why EXCEPT ![n] = "none"]
         ELSE UNCHANGED <<node, why>>
      /\ Reply(c)
      /\ UNCHANGED <<dag, queue, adv, run, execVars>>

-----------------------------------------------------------------------------
(* The DAG *)

\* start_engagement_dag reads the status; a COMPLETED DAG is not started.
StartDag(c) ==
  /\ dag # "COMPLETED"
  /\ Accept(c, "start", IF dag = "PAUSED" THEN "start_dag" ELSE "start", Order[1])
  /\ OnlyReads

StartRunning(c) ==
  /\ At(c, "start_dag")
  /\ dag' = "RUNNING"
  /\ Step(c, "start")
  /\ UNCHANGED <<node, queue, adv, run, execVars, why>>

\* Tasks of DEFINE that wait for nothing but QAs become READY.
StartReady(c) ==
  /\ At(c, "start")
  /\ node' = [n \in Node |->
                IF /\ n \in Define /\ node[n].state = "NOT_STARTED"
                   /\ \A d \in Deps[n] : Type[d] = "QA"
                THEN [node[n] EXCEPT !.state = "READY"] ELSE node[n]]
  /\ Step(c, "enqueue")
  /\ OnlyNodes

Pause ==
  /\ dag = "RUNNING"
  /\ AtOnce("pause")
  /\ dag' = "PAUSED"
  /\ UNCHANGED <<node, queue, adv, run, execVars, why>>

\* resume_api_suspended: the nodes an API limit has suspended are read,
\* made BLOCKED whatever they are by then, and the DAG set RUNNING.
Repair(c) ==
  LET limited == {n \in Node : node[n].state = "SUSPENDED" /\ why[n] = "api"}
  IN  /\ AcceptFor(c, "repair", IF limited = {} THEN "enqueue" ELSE "repair",
                    Order[1], limited)
      /\ OnlyReads

RepairNodes(c) ==
  LET limited == op[c].todo
  IN  /\ At(c, "repair")
      /\ node' = [n \in Node |->
                    IF n \in limited
                    THEN [node[n] EXCEPT !.state = "BLOCKED", !.version = @ + 1]
                    ELSE node[n]]
      /\ why' = [n \in Node |-> IF n \in limited THEN "none" ELSE why[n]]
      /\ Step(c, "repair_dag")
      /\ UNCHANGED <<dag, queue, adv, run, execVars>>

RepairDag(c) ==
  /\ At(c, "repair_dag")
  /\ dag' = "RUNNING"
  /\ Step(c, "enqueue")
  /\ UNCHANGED <<node, queue, adv, run, execVars, why>>

\* force_close_engagement: the running nodes are suspended with the reason
\* of a shutdown; neither their tasks nor the DAG are stopped.
ForceClose ==
  LET running == {n \in Node : node[n].state = "IN_PROGRESS"}
  IN  /\ AtOnce("force_close")
      /\ node' = [n \in Node |->
                    IF n \in running
                    THEN [node[n] EXCEPT !.state = "SUSPENDED", !.version = @ + 1]
                    ELSE node[n]]
      /\ why' = [n \in Node |-> IF n \in running THEN "drain" ELSE why[n]]
      /\ UNCHANGED <<dag, queue, adv, run, execVars>>

\* retroactive-validate first compares the engine's files with the copy in
\* kv_store.  No schema has that table and a SELECT that raises counts as no
\* copy, so each request takes every group for changed: the COMPLETED TASKs
\* their patterns match are read, and made again.  Nothing is enqueued.
Revalidate(c) ==
  /\ \E todo \in SUBSET {t \in Node : Type[t] = "TASK" /\ node[t].state = "COMPLETED"} :
       AcceptFor(c, "revalidate", "revalidate", Order[1], todo)
  /\ OnlyReads

RevalidateTask(c) ==
  /\ At(c, "revalidate")
  /\ \/ op[c].todo = {} /\ Reply(c) /\ UNCHANGED node
     \/ \E t \in op[c].todo :
          /\ node' = IF node[t].state = "COMPLETED"
                     THEN [node EXCEPT ![t] = [state |-> "NOT_STARTED", retry |-> 0,
                                               version |-> @.version + 1]]
                     ELSE node
          /\ op' = [op EXCEPT ![c].pc = "revalidate_pair", ![c].node = t,
                              ![c].todo = @ \ {t}]
  /\ OnlyNodes

\* The QA is looked at in one statement and written in the next.
RevalidatePair(c) ==
  /\ At(c, "revalidate_pair")
  /\ Step(c, IF node[Pair[op[c].node]].state = "COMPLETED"
             THEN "revalidate_qa" ELSE "revalidate")
  /\ OnlyReads

RevalidateQa(c) ==
  /\ At(c, "revalidate_qa")
  /\ WriteBump(Pair[op[c].node], "NOT_STARTED")
  /\ Step(c, "revalidate")
  /\ OnlyNodes

-----------------------------------------------------------------------------

\* A request is accepted.
Ask(c) ==
  \/ \E g \in Node : Approve(c, g) \/ Feedback(c, g)
  \/ \E n \in Node : Skip(c, n) \/ Retry(c, n) \/ Suspend(c, n) \/ Resume(c, n)
  \/ StartDag(c) \/ Repair(c) \/ Revalidate(c)

\* A request is accepted and answered.
Decide ==
  \/ \E g \in Node : EdgeApprove(g) \/ EdgeReject(g)
  \/ Pause \/ ForceClose

\* A handler goes on.
Handle(c) ==
  \/ ApproveWrite(c) \/ Enqueue(c)
  \/ FeedbackSelect(c) \/ FeedbackTask(c) \/ FeedbackQa(c)
  \/ SkipWrite(c) \/ SkipPair(c)
  \/ RetryQaOnly(c) \/ ReopenQa(c) \/ RetryFull(c) \/ RetryRead(c)
  \/ RetryInvalidate(c) \/ RetryCheck(c) \/ RetryWrite(c)
  \/ SuspendNode(c) \/ ResumeNode(c)
  \/ StartRunning(c) \/ StartReady(c) \/ RepairNodes(c) \/ RepairDag(c)
  \/ RevalidateTask(c) \/ RevalidatePair(c) \/ RevalidateQa(c)

\* Handlers between requests, and the step in which one of them replies.
Resting == \A c \in Client : op[c].pc = "idle"

\* A step of the engine; LimitReached is the one that gives a reason.
Engine(step) ==
  /\ step
  /\ why' = [n \in Node |->
               IF \E r \in Run : run[r].node = n /\ run[r].pc = "limit" /\ run'[r].pc = "free"
               THEN "api" ELSE why[n]]
  /\ UNCHANGED <<op, made>>

OperatedInit == Init /\ OperatorInit

OperatedNext ==
  \/ Engine(Next)
  \/ Decide
  \/ \E c \in Client : Ask(c) \/ Handle(c)

operated == <<vars, operatorVars>>

OperatedSpec == OperatedInit /\ [][OperatedNext]_operated
=============================================================================
