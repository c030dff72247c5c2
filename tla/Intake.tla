------------------------------- MODULE Intake -------------------------------
(***************************************************************************)
(* From a submitted form to the DAGs of an engagement: the conversion, the *)
(* requests that change, reset or purge what it makes, and the start that  *)
(* makes missing DAGs again (src/engine/intake/processor.py,               *)
(* project_planner.py and the handlers of src/api/server.py).  A crash     *)
(* leaves the rows written so far.                                         *)
(***************************************************************************)
EXTENDS Integers, Sequences, FiniteSets

CONSTANTS Client,          \* concurrent HTTP requests
          Docs,            \* NODE_TEMPLATES are 1..Docs
          DocPhase,        \* [1..Docs -> the phase of a template]
          When,            \* [1..Docs -> "always", "new", "upgrade" or a scope]
          IntraPhase,      \* INTRA_PHASE_DEPS
          Forms,           \* the forms, [type, scope]
          Plans,           \* the exclusions a plan may ask for
          MaxEngagements, MaxDags,
          MaxRequests      \* bound: requests made by hand

\* There is a template; requests are finitely many at a time.
ASSUME IntakeAssumption ==
  /\ Docs \in Nat \ {0} /\ DocPhase \in [1..Docs -> Nat]
  /\ IsFiniteSet(Client)

\* Documents wait for others of their phase, and not in a circle.
ASSUME DependencyAssumption ==
  LET deps == IntraPhase \cap ((1..Docs) \X (1..Docs)) IN
    /\ \A b \in deps : DocPhase[b[1]] = DocPhase[b[2]]
    /\ \E rank \in [1..Docs -> 1..Docs] : \A b \in deps : rank[b[1]] < rank[b[2]]

VARIABLES form,     \* what the form says: its type, its scope
          sub,      \* intake_submissions: status, engagement_id
          eng,      \* engagements: status and components, touched once reset
          dags,     \* rows of dags with their nodes and edges, in creation order
          op,       \* the local variables of a handler
          patches,  \* status changes by hand so far
          requests  \* deletions, resets, purges and starts so far

intakeVars == <<form, sub, eng, dags, op, patches, requests>>

NoRequest == [pc |-> "idle", eng |-> 0, comp |-> 0, dag |-> 0, without |-> {}, saw |-> "none"]

IntakeInit == /\ form \in Forms
              /\ sub = [status |-> "RECEIVED", eng |-> 0]
              /\ eng = <<>> /\ dags = <<>> /\ patches = 0 /\ requests = 0
              /\ op = [c \in Client |-> NoRequest]

(***************************************************************************)
(* The graph of one component.                                             *)
(***************************************************************************)
Task(d) == <<"TASK", d>>
Qa(d) == <<"QA", d>>
GateNode(p) == <<"GATE", p>>

Applicable(d) == \/ When[d] = "always"
                 \/ When[d] = form.type
                 \/ When[d] \in form.scope
State(d, without) == IF Applicable(d) /\ d \notin without THEN "NOT_STARTED" ELSE "SKIPPED"

\* The pairs of the templates, as _insert_node makes them.
Pairs(without) == [n \in {"TASK", "QA"} \X (1..Docs) |-> State(n[2], without)]

\* Mutant: a document waits for the one before it, and not for its QA.
OrderEdgesEarly(docs) == {<<Task(b[1]), Task(b[2])>> : b \in IntraPhase \cap (docs \X docs)}

\* A document waits for the QA of the one before it.
OrderEdges(docs) == {<<Qa(b[1]), Task(b[2])>> : b \in IntraPhase \cap (docs \X docs)}

\* Phases that follow each other among those with nodes; between them a gate.
Phases == {DocPhase[d] : d \in 1..Docs}
Active == {p \in Phases \X Phases :
             p[1] < p[2] /\ \A q \in Phases : ~(p[1] < q /\ q < p[2])}
GateEdges ==
  UNION {{<<Qa(d), GateNode(p[1])>> : d \in {x \in 1..Docs : DocPhase[x] = p[1]}}
         \cup {<<GateNode(p[1]), Task(d)>> : d \in {x \in 1..Docs : DocPhase[x] = p[2]}}
         : p \in Active}
Gates == {GateNode(p[1]) : p \in Active}
WithGates(nodes) ==
  [n \in DOMAIN nodes \cup Gates |-> IF n \in Gates THEN "NOT_STARTED" ELSE nodes[n]]

(***************************************************************************)
(* Conversion.                                                             *)
(***************************************************************************)
Components == IF "si" \in form.scope THEN 2 ELSE 1   \* MASTER, SI
Purging == \E c \in Client : op[c].pc = "purge"

ConvertRead(c) == /\ op[c].pc = "idle" /\ sub.status \in {"RECEIVED", "VALID"}
                  /\ op' = [op EXCEPT ![c] = [NoRequest EXCEPT !.pc = "claim"]]
                  /\ UNCHANGED <<form, sub, eng, dags, patches, requests>>

\* Mutant: the UPDATE does not test the status.
ClaimedBlind == sub.status # "deleted"

\* The rows the UPDATE ... WHERE status IN ('RECEIVED', 'VALID') changes.
Claimed == sub.status \in {"RECEIVED", "VALID"}

ConvertClaim(c) ==
  /\ op[c].pc = "claim"
  /\ IF Claimed THEN /\ sub' = [sub EXCEPT !.status = "CONVERTING"]
                     /\ op' = [op EXCEPT ![c].pc = "plan"]
     ELSE /\ op' = [op EXCEPT ![c] = NoRequest]
          /\ UNCHANGED sub
  /\ UNCHANGED <<form, eng, dags, patches, requests>>

\* References and plan; an exception there is passed over, without a plan.
MakePlan(c) == /\ op[c].pc = "plan"
               /\ \E p \in Plans :
                    op' = [op EXCEPT ![c].pc = "engagement", ![c].without = p]
               /\ UNCHANGED <<form, sub, eng, dags, patches, requests>>

CreateEngagement(c) ==
  /\ op[c].pc = "engagement" /\ Len(eng) < MaxEngagements
  /\ eng' = Append(eng, [status |-> "INTAKE", made |-> 0, touched |-> FALSE])
  /\ op' = [op EXCEPT ![c].pc = "project", ![c].eng = Len(eng'), ![c].comp = 1]
  /\ UNCHANGED <<form, sub, dags, patches, requests>>

\* A project with its settings.
CreateProject(c) ==
  /\ op[c].pc = "project"
  /\ eng[op[c].eng].status # "gone" \/ Purging
  /\ eng' = [eng EXCEPT ![op[c].eng].made = @ + 1]
  /\ op' = [op EXCEPT ![c].pc = "dag"]
  /\ UNCHANGED <<form, sub, dags, patches, requests>>

CreateDag(c) ==
  /\ op[c].pc \in {"dag", "again"} /\ Len(dags) < MaxDags
  /\ eng[op[c].eng].status # "gone" \/ Purging
  /\ dags' = Append(dags, [eng |-> op[c].eng, comp |-> op[c].comp, edges |-> {},
                           status |-> "INITIALIZING", nodes |-> <<>>, total |-> 0])
  /\ op' = [op EXCEPT ![c].dag = Len(dags'),
                      ![c].pc = IF @ = "again" THEN "rebuild" ELSE "build"]
  /\ UNCHANGED <<form, sub, eng, patches, requests>>

(***************************************************************************)
(* The rows of one DAG.  An INSERT for a DAG that is gone raises, unless a *)
(* purge has switched the foreign keys off.                                *)
(***************************************************************************)
Building(c) == /\ op[c].pc \in {"build", "rebuild"}
               /\ dags[op[c].dag].status # "gone" \/ Purging
Row(c) == dags[op[c].dag]

\* The pairs in the order of the templates, then the order among them.
InsertNodes(c) ==
  /\ Building(c) /\ DOMAIN Row(c).nodes = {}
  /\ dags' = [dags EXCEPT
       ![op[c].dag].nodes = Pairs(op[c].without),
       ![op[c].dag].edges = {<<Task(d), Qa(d)>> : d \in 1..Docs} \cup OrderEdges(1..Docs)]
  /\ UNCHANGED <<form, sub, eng, op, patches, requests>>

\* The gates, then total_nodes and VALID; then the next component.
InsertGates(c) ==
  /\ Building(c) /\ DOMAIN Row(c).nodes # {}
  /\ dags' = [dags EXCEPT ![op[c].dag].nodes = WithGates(@),
                          ![op[c].dag].edges = @ \cup GateEdges,
                          ![op[c].dag].status = IF @ = "gone" THEN @ ELSE "VALID",
                          ![op[c].dag].total = 2 * Docs + Cardinality(Gates)]
  /\ LET again == op[c].pc = "rebuild"
         last == op[c].comp >= IF again THEN eng[op[c].eng].made ELSE Components IN
     op' = [op EXCEPT ![c].comp = IF last THEN @ ELSE @ + 1,
                      ![c].pc = CASE last -> IF again THEN "start" ELSE "finish"
                                  [] OTHER -> IF again THEN "again" ELSE "project"]
  /\ UNCHANGED <<form, sub, eng, patches, requests>>

ConvertDone(c) ==
  /\ op[c].pc = "finish"
  /\ sub' = IF sub.status = "deleted" THEN sub
            ELSE [sub EXCEPT !.status = "CONVERTED", !.eng = op[c].eng]
  /\ op' = [op EXCEPT ![c] = NoRequest]
  /\ UNCHANGED <<form, eng, dags, patches, requests>>

Converting == {"engagement", "project", "dag", "build", "finish"}

\* Mutant: a component that cannot be made is passed over.
ConversionFailsOver(c) ==
  /\ op[c].pc \in Converting \ {"finish"}
  /\ op' = [op EXCEPT ![c].pc = IF op[c].eng = 0 THEN "idle" ELSE "finish"]
  /\ UNCHANGED <<form, sub, eng, dags, patches, requests>>

\* Any statement may raise: the submission is FAILED, whatever it is by now,
\* and the rows made so far stay.
ConversionFails(c) ==
  /\ op[c].pc \in Converting
  /\ sub' = IF sub.status = "deleted" THEN sub ELSE [sub EXCEPT !.status = "FAILED"]
  /\ op' = [op EXCEPT ![c] = NoRequest]
  /\ UNCHANGED <<form, eng, dags, patches, requests>>

(***************************************************************************)
(* Requests of the operator; each reads, then writes.                      *)
(***************************************************************************)
Request == requests + patches < MaxRequests /\ requests' = requests + 1

ByHand == {<<"RECEIVED", "VALID">>, <<"VALID", "RECEIVED">>,
           <<"FAILED", "RECEIVED">>, <<"CONVERTING", "RECEIVED">>}

PatchRead(c) == /\ op[c].pc = "idle" /\ requests + patches < MaxRequests
                /\ \E new \in {"RECEIVED", "VALID"} :
                     /\ <<sub.status, new>> \in ByHand
                     /\ op' = [op EXCEPT ![c] = [NoRequest EXCEPT !.pc = "patch", !.saw = new]]
                /\ patches' = patches + 1
                /\ UNCHANGED <<form, sub, eng, dags, requests>>
PatchWrite(c) == /\ op[c].pc = "patch"
                 /\ sub' = IF sub.status = "deleted" THEN sub
                           ELSE [sub EXCEPT !.status = op[c].saw]
                 /\ op' = [op EXCEPT ![c] = NoRequest]
                 /\ UNCHANGED <<form, eng, dags, patches, requests>>

DeleteRead(c) == /\ op[c].pc = "idle" /\ Request
                 /\ sub.status \in {"RECEIVED", "VALID", "FAILED"}
                 /\ op' = [op EXCEPT ![c] = [NoRequest EXCEPT !.pc = "delete"]]
                 /\ UNCHANGED <<form, sub, eng, dags, patches>>
DeleteWrite(c) == /\ op[c].pc = "delete"
                  /\ sub' = [sub EXCEPT !.status = "deleted"]
                  /\ op' = [op EXCEPT ![c] = NoRequest]
                  /\ UNCHANGED <<form, eng, dags, patches, requests>>

Of(e) == {i \in DOMAIN dags : dags[i].eng = e /\ dags[i].status # "gone"}
Erase(S) == [i \in DOMAIN dags |-> IF i \in S
               THEN [dags[i] EXCEPT !.status = "gone", !.nodes = <<>>, !.edges = {}, !.total = 0]
               ELSE dags[i]]

\* The script holds the lock; the rows it deletes are those read before.
Reset(c) == /\ op[c].pc = "idle" /\ Request
            /\ \E e \in DOMAIN eng :
                 /\ eng[e].status # "gone"
                 /\ dags' = Erase(Of(e))
                 /\ eng' = [eng EXCEPT ![e].status = "INTAKE", ![e].touched = TRUE]
            /\ UNCHANGED <<form, sub, op, patches>>

PurgeRead(c) == /\ op[c].pc = "idle" /\ Request
                /\ \E e \in DOMAIN eng :
                     /\ eng[e].status # "gone"
                     /\ dags' = Erase(Of(e))
                     /\ eng' = [eng EXCEPT ![e].made = 0, ![e].touched = TRUE]
                     /\ op' = [op EXCEPT ![c] = [NoRequest EXCEPT !.pc = "purge", !.eng = e]]
                /\ UNCHANGED <<form, sub, patches>>
Purge(c) == /\ op[c].pc = "purge"
            /\ eng' = [eng EXCEPT ![op[c].eng].status = "gone"]
            /\ sub' = IF sub.eng = op[c].eng THEN [sub EXCEPT !.status = "deleted"] ELSE sub
            /\ op' = [op EXCEPT ![c] = NoRequest]
            /\ UNCHANGED <<form, dags, patches, requests>>

(***************************************************************************)
(* A start of an engagement without DAGs makes them from the submission,   *)
(* without what the request excludes and with what the plan did.           *)
(***************************************************************************)
StartRead(c) == /\ op[c].pc = "idle" /\ Request
                /\ \E e \in DOMAIN eng, p \in Plans :
                     /\ eng[e].status # "gone"
                     /\ Of(e) = {} => sub.status # "deleted" /\ eng[e].made > 0
                     /\ op' = [op EXCEPT ![c] =
                          [NoRequest EXCEPT !.pc = IF Of(e) = {} THEN "again" ELSE "start",
                                            !.eng = e, !.comp = 1, !.without = p]]
                /\ UNCHANGED <<form, sub, eng, dags, patches>>

\* Whatever is not finished is started with the rest.
StartDags(c) == /\ op[c].pc = "start"
                /\ dags' = [i \in DOMAIN dags |->
                              IF i \in Of(op[c].eng) THEN [dags[i] EXCEPT !.status = "RUNNING"]
                              ELSE dags[i]]
                /\ eng' = [eng EXCEPT ![op[c].eng].status = IF @ = "gone" THEN @ ELSE "ACTIVE"]
                /\ op' = [op EXCEPT ![c] = NoRequest]
                /\ UNCHANGED <<form, sub, patches, requests>>

RebuildFails(c) == /\ op[c].pc \in {"again", "rebuild"}
                   /\ op' = [op EXCEPT ![c] = NoRequest]
                   /\ UNCHANGED <<form, sub, eng, dags, patches, requests>>

IntakeStops == /\ \E c \in Client : op[c].pc # "idle"
               /\ op' = [c \in Client |-> NoRequest]
               /\ UNCHANGED <<form, sub, eng, dags, patches, requests>>

IntakeNext == \/ IntakeStops
              \/ \E c \in Client :
                   \/ ConvertRead(c) \/ ConvertClaim(c) \/ MakePlan(c) \/ CreateEngagement(c)
                   \/ CreateProject(c) \/ CreateDag(c) \/ InsertNodes(c)
                   \/ InsertGates(c) \/ ConvertDone(c) \/ ConversionFails(c)
                   \/ PatchRead(c) \/ PatchWrite(c) \/ DeleteRead(c) \/ DeleteWrite(c)
                   \/ Reset(c) \/ PurgeRead(c) \/ Purge(c)
                   \/ StartRead(c) \/ StartDags(c) \/ RebuildFails(c)

IntakeSpec == IntakeInit /\ [][IntakeNext]_intakeVars

(***************************************************************************)
(* Properties.                                                             *)
(***************************************************************************)
\* No two requests convert a submission at once, unless its status has been
\* changed by hand.
OneConversion ==
  Cardinality({c \in Client : op[c].pc \in Converting \cup {"plan"}}) <= 1 + patches

\* Component k of engagement e has a DAG that is finished.
Built(e, k) == \E i \in Of(e) : dags[i].comp = k /\ dags[i].total # 0

\* A CONVERTED submission has its whole engagement: each component with a
\* DAG that is finished, until somebody resets or purges it.
ConvertedWhole ==
  sub.status = "CONVERTED" /\ ~eng[sub.eng].touched =>
    \A k \in 1..Components : Built(sub.eng, k)

\* The ends of the paths of a graph, whose nodes are 3 * Docs at most.
Prolonged(R, E) == R \cup {<<p[1][1], p[2][2]>> : p \in {x \in R \X E : x[1][2] = x[2][1]}}
Follows(E) == LET paths[k \in 0..(3 * Docs)] ==
                    IF k = 0 THEN E ELSE Prolonged(paths[k - 1], E)
              IN  paths[3 * Docs]

\* The graph of a finished DAG is one the advancer can run: it has no cycle, a
\* document waits for the approval of those before it, a phase for the approval
\* of all of the phase before, and no pair is skipped by half.
GraphsShaped ==
  \A i \in DOMAIN dags : dags[i].total # 0 =>
    LET F == Follows(dags[i].edges) IN
      /\ \A n \in DOMAIN dags[i].nodes : <<n, n>> \notin F
      /\ \A a, b \in 1..Docs :
           <<a, b>> \in IntraPhase \/ DocPhase[a] < DocPhase[b] => <<Qa(a), Task(b)>> \in F
      /\ \A d \in 1..Docs :
           /\ <<Task(d), Qa(d)>> \in dags[i].edges
           /\ dags[i].nodes[Task(d)] = dags[i].nodes[Qa(d)]
=============================================================================
