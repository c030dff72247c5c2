------------------------------ MODULE Revision ------------------------------
(***************************************************************************)
(* api/server.py: an operator changes the artifact of a TASK, by words     *)
(* that a model carries out (revise_artifact) or by hand                   *)
(* (update_node_artifact).  Both save a version, invalidate what depends   *)
(* on it and put a failed node right.  The successors of a TASK are its    *)
(* QA; it has no TASK upstream, so _revise_upstream finds nothing.         *)
(* The saves are taken apart in module ArtifactStore.                      *)
(***************************************************************************)
EXTENDS OperatorApi

CONSTANT
  Change  \* what may come of a change, a subset of ChangeKinds

\* The model call raises, is over budget, or the change is found to be minor
\* (no cascade) or major.
ChangeKinds == {"error", "budget", "minor", "major"}

ASSUME ChangeAssumption == Change \subseteq ChangeKinds

Successors(n) == {m \in Node : n \in Deps[m]}

\* The successors a change invalidates.
Reached(n) ==
  {m \in Successors(n) : node[m].state \in {"COMPLETED", "IN_PROGRESS", "READY"}}

\* UPDATE artifacts, then INSERT INTO artifact_versions under UNIQUE(artifact_id,
\* version_num): the number was read by the handler's first statement, and the
\* handler ends with an error when another writer has used it since.
SaveChange(c, pc, next) ==
  LET n == op[c].node
  IN  /\ At(c, pc)
      /\ art' = [art EXCEPT ![n] = op[c].seen + 1]
      /\ IF art[n] > op[c].seen THEN Reply(c) ELSE Step(c, next)
      /\ UNCHANGED <<engine, stall, stamp, casc, why>>

\* COMPLETED, attempts forgotten: the TASK, then its QA, which nobody asks.
MendTask(c, pc, next) ==
  LET n == op[c].node
  IN  /\ At(c, pc)
      /\ node' = [node EXCEPT ![n] = [state |-> "COMPLETED", retry |-> 0,
                                      version |-> @.version + 1]]
      /\ Step(c, next)
      /\ OnlyNodes

MendQa(c, pc, next) ==
  LET q == Pair[op[c].node]
  IN  /\ At(c, pc)
      /\ node' = [node EXCEPT ![q] = [state |-> "COMPLETED", retry |-> 0,
                                      version |-> @.version + 1]]
      /\ Step(c, next)
      /\ OnlyNodes

-----------------------------------------------------------------------------
(* revise_artifact *)

\* The policy refuses QAs and gates; then current_version is read.
Revise(c, n) ==
  /\ Type[n] = "TASK" /\ art[n] > 0
  /\ Accept(c, "revise", "revise_take", n)
  /\ OnlyReads

ReviseTake(c) ==
  LET n == op[c].node
  IN  /\ At(c, "revise_take")
      /\ IF node[n].state = "COMPLETED" THEN Write(n, "IN_PROGRESS") ELSE UNCHANGED node
      /\ Step(c, "revise_call")
      /\ OnlyNodes

\* An exception of the model leaves the node IN_PROGRESS; only a prompt over
\* budget gives it back.
ReviseCall(c) ==
  LET n == op[c].node
  IN  /\ At(c, "revise_call")
      /\ \/ Step(c, "revise_save") /\ UNCHANGED node
         \/ "error" \in Change /\ Reply(c) /\ UNCHANGED node
         \/ /\ "budget" \in Change
            /\ IF node[n].state = "IN_PROGRESS" THEN Write(n, "COMPLETED") ELSE UNCHANGED node
            /\ Reply(c)
      /\ OnlyNodes

ReviseSave(c) == SaveChange(c, "revise_save", "revise_cascade")

\* _cascade_invalidate, in one transaction.
ReviseCascade(c) ==
  LET hit == Reached(op[c].node)
  IN  /\ At(c, "revise_cascade")
      /\ \/ "minor" \in Change /\ Step(c, "revise_end") /\ UNCHANGED node
         \/ /\ "major" \in Change
            /\ node' = [n \in Node |-> IF n \in hit
                                       THEN [node[n] EXCEPT !.state = "INVALID", !.version = @ + 1]
                                       ELSE node[n]]
            /\ op' = [op EXCEPT ![c].pc = IF hit = {} THEN "revise_end" ELSE "revise_dag",
                                ![c].todo = hit]
      /\ OnlyNodes

\* A COMPLETED DAG is set RUNNING.
Rerun(c, pc, next) ==
  /\ At(c, pc)
  /\ dag' = IF dag = "COMPLETED" THEN "RUNNING" ELSE dag
  /\ Step(c, next)
  /\ UNCHANGED <<node, queue, adv, run, execVars, why>>

ReviseDag(c) == Rerun(c, "revise_dag", "revise_end")

\* A node that is neither FAILED nor IN_PROGRESS is left alone, and then the
\* DAG is not enqueued either.
ReviseEnd(c) ==
  /\ At(c, "revise_end")
  /\ IF node[op[c].node].state \in {"FAILED", "IN_PROGRESS"}
     THEN Step(c, "revise_mend") ELSE Reply(c)
  /\ OnlyReads

ReviseMend(c) == MendTask(c, "revise_mend", "revise_qa")
ReviseQa(c)   == MendQa(c, "revise_qa", "revise_run")
ReviseRun(c)  == Rerun(c, "revise_run", "enqueue")

-----------------------------------------------------------------------------
(* update_node_artifact *)

Edit(c, n) ==
  /\ Type[n] = "TASK" /\ art[n] > 0
  /\ Accept(c, "edit", "edit_save", n)
  /\ OnlyReads

EditSave(c) == SaveChange(c, "edit_save", "edit_judge")

\* The judgement of the change, and the SELECT of what it reaches.
EditJudge(c) ==
  LET hit == Reached(op[c].node)
  IN  /\ At(c, "edit_judge")
      /\ \/ "minor" \in Change /\ Step(c, "edit_end")
         \/ /\ "major" \in Change
            /\ op' = [op EXCEPT ![c].pc = IF hit = {} THEN "edit_end" ELSE "edit_cascade",
                                ![c].todo = hit]
      /\ OnlyReads

\* One UPDATE per successor, whatever it is by then.
EditCascade(c) ==
  /\ At(c, "edit_cascade")
  /\ \E m \in op[c].todo :
       /\ WriteBump(m, "INVALID")
       /\ op' = [op EXCEPT ![c].pc = IF op[c].todo = {m} THEN "edit_enqueue" ELSE @,
                           ![c].todo = @ \ {m}]
  /\ OnlyNodes

EditEnqueue(c) ==
  /\ At(c, "edit_enqueue")
  /\ queue' = queue + 1
  /\ Step(c, "edit_end")
  /\ UNCHANGED <<node, dag, adv, run, execVars, why>>

EditEnd(c) ==
  /\ At(c, "edit_end")
  /\ IF node[op[c].node].state = "FAILED" THEN Step(c, "edit_mend") ELSE Reply(c)
  /\ OnlyReads

EditMend(c) == MendTask(c, "edit_mend", "edit_qa")
EditQa(c)   == MendQa(c, "edit_qa", "enqueue")

-----------------------------------------------------------------------------

AskChange(c) == \E n \in Node : Revise(c, n) \/ Edit(c, n)

HandleChange(c) ==
  \/ ReviseTake(c) \/ ReviseCall(c) \/ ReviseSave(c) \/ ReviseCascade(c) \/ ReviseDag(c)
  \/ ReviseEnd(c) \/ ReviseMend(c) \/ ReviseQa(c) \/ ReviseRun(c)
  \/ EditSave(c) \/ EditJudge(c) \/ EditCascade(c) \/ EditEnqueue(c)
  \/ EditEnd(c) \/ EditMend(c) \/ EditQa(c)

RevisedNext ==
  \/ OperatedNext
  \/ \E c \in Client : AskChange(c) \/ HandleChange(c)

RevisedSpec == OperatedInit /\ [][RevisedNext]_operated
-----------------------------------------------------------------------------
(* Properties *)

\* approve_gate: nothing was written to the gate between the handler's SELECT
\* and its UPDATE, although not every writer advances the version compared in
\* between.  What the operator saw before the request is not compared at all.
ApprovalFresh ==
  [][\A c \in Client : op[c].pc = "approve" /\ op'[c].pc = "enqueue"
       => node[op[c].node] = op[c].row /\ op[c].row.state = "AWAITING_APPROVAL"]_operated

\* The requests after which the DAG is put on the queue.  The decisions on
\* edges, a resumed and a suspended node, a closed engagement, a revalidation
\* and a change whose node has moved on are not among them.
Enqueuing == {"approve", "feedback", "skip", "retry", "start", "pause", "repair", "edit"}

\* Whatever operators interfere with: when no handler is at work and the
\* engine is at rest, a node that could run was left behind only by a pause
\* or a suspension.
NothingLost ==
  made \subseteq Enqueuing /\ Resting /\ Quiescent /\ dag # "PAUSED" =>
    \A n \in Node :
      node[n].state \in Restartable \union {"READY", "IN_PROGRESS"} /\ DepsDone(node, n)
        => \E m \in Node : node[m].state = "SUSPENDED"

\* The policy's promise that what depends on a revised artifact runs again:
\* the handler does not itself complete a node it has invalidated.
RevisionReruns ==
  [][\A c \in Client : op[c].pc = "revise_qa" /\ op'[c].pc = "revise_run"
       => \A m \in op[c].todo : node'[m].state # "COMPLETED"]_operated
=============================================================================
