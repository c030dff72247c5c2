-------------------------- MODULE EngagementProofs --------------------------
(***************************************************************************)
(* The two ends of an engagement.  For every form, plan, set of templates  *)
(* and number of requests: a submission is converted once, unless its      *)
(* status was changed by hand, a CONVERTED one has its whole engagement,   *)
(* and the graph of a finished DAG has no cycle and no dependency missing. *)
(* For every such graph and any number of callers: the repairs they put in *)
(* leave it sortable, and go beyond the limit by at most a node each.      *)
(* For any number of projects and ports: no build is deployed more often   *)
(* than the limit says.                                                    *)
(***************************************************************************)
EXTENDS Intake, DynamicDag, Deployment, Functions, FiniteSetTheorems, WellFoundedInduction, TLAPS

\* The types of the rows and of the local variables of a handler.
SubStatus == {"RECEIVED", "VALID", "CONVERTING", "CONVERTED", "FAILED", "deleted"}
Submission == [status : SubStatus, eng : Nat]
Engagement == [status : {"INTAKE", "ACTIVE", "gone"}, made : Nat, touched : BOOLEAN]
NodeName == {"TASK", "QA", "GATE"} \X Nat
Nodes == UNION {[S -> {"NOT_STARTED", "SKIPPED"}] : S \in SUBSET NodeName}
Dag == [eng : Nat, comp : Nat, edges : SUBSET (NodeName \X NodeName),
        status : {"INITIALIZING", "VALID", "RUNNING", "gone"}, nodes : Nodes,
        total : Nat]
OpPc == {"idle", "claim", "plan", "engagement", "project", "dag", "build", "finish",
         "patch", "delete", "purge", "again", "rebuild", "start"}
Handler == [pc : OpPc, eng : Nat, comp : Nat, dag : Nat, without : Plans \cup {{}},
            saw : {"none", "RECEIVED", "VALID"}]

IntakeTypes ==
  /\ sub \in Submission
  /\ eng \in Seq(Engagement)
  /\ dags \in Seq(Dag)
  /\ op \in [Client -> Handler]
  /\ patches \in Nat

\* What a handler refers to is there.
Refs ==
  \A c \in Client :
    /\ op[c].pc \in {"project", "dag", "build", "finish", "again", "rebuild", "start",
                     "purge"} => op[c].eng \in 1..Len(eng)
    /\ op[c].pc \in {"build", "rebuild"} => op[c].dag \in 1..Len(dags)
    /\ op[c].pc = "patch" => op[c].saw \in {"RECEIVED", "VALID"}

TypesInv == IntakeTypes /\ Refs
-----------------------------------------------------------------------------
(* The graph *)

LEMMA GatesFinite == Gates \subseteq NodeName /\ IsFiniteSet(Gates)
<1>1. IsFiniteSet(Phases) /\ Phases \subseteq Nat
  <2>1. DocPhase \in Surjection(1..Docs, Phases)
    BY IntakeAssumption DEF Phases, Surjection
  <2>2. IsFiniteSet(1..Docs)
    BY IntakeAssumption, FS_Interval
  <2>3. Phases \subseteq Nat
    BY IntakeAssumption DEF Phases
  <2> QED BY <2>1, <2>2, <2>3, FS_Surjection
<1>2. Gates \subseteq {"GATE"} \X Phases
  BY DEF Gates, GateNode, Active
<1>3. IsFiniteSet({"GATE"} \X Phases)
  BY <1>1, FS_Singleton, FS_Product
<1>4. IsFiniteSet(Gates)
  BY <1>2, <1>3, FS_Subset
<1> QED BY <1>1, <1>2, <1>4 DEF NodeName

LEMMA TotalIsSome == 2 * Docs + Cardinality(Gates) \in Nat \ {0}
  BY GatesFinite, FS_CardinalityType, IntakeAssumption

LEMMA EdgesTyped ==
  /\ {<<Task(d), Qa(d)>> : d \in 1..Docs} \cup OrderEdges(1..Docs)
       \subseteq NodeName \X NodeName
  /\ GateEdges \subseteq NodeName \X NodeName
<1>1. \A d \in 1..Docs : Task(d) \in NodeName /\ Qa(d) \in NodeName
  BY IntakeAssumption DEF Task, Qa, NodeName
<1>2. {<<Task(d), Qa(d)>> : d \in 1..Docs} \subseteq NodeName \X NodeName
  BY <1>1
<1>3. OrderEdges(1..Docs) \subseteq NodeName \X NodeName
  BY <1>1 DEF OrderEdges
<1>4. ASSUME NEW e \in GateEdges
      PROVE  e \in NodeName \X NodeName
  <2>1. PICK p \in Active :
          \/ \E d \in 1..Docs : e = <<Qa(d), GateNode(p[1])>>
          \/ \E d \in 1..Docs : e = <<GateNode(p[1]), Task(d)>>
    BY <1>4 DEF GateEdges
  <2>2. GateNode(p[1]) \in NodeName
    BY <2>1, GatesFinite DEF Gates
  <2> QED BY <1>1, <2>1, <2>2
<1> QED BY <1>2, <1>3, <1>4

LEMMA NodesTyped ==
  /\ <<>> \in Nodes
  /\ \A without : Pairs(without) \in Nodes
  /\ \A nodes \in Nodes : WithGates(nodes) \in Nodes
<1>1. <<>> \in [{} -> {"NOT_STARTED", "SKIPPED"}]
  OBVIOUS
<1>2. <<>> \in Nodes
  BY <1>1 DEF Nodes
<1>3. ASSUME NEW without
      PROVE  Pairs(without) \in Nodes
  <2>1. {"TASK", "QA"} \X (1..Docs) \subseteq NodeName
    BY IntakeAssumption DEF NodeName
  <2>2. Pairs(without) \in [{"TASK", "QA"} \X (1..Docs) -> {"NOT_STARTED", "SKIPPED"}]
    BY DEF Pairs, State
  <2> QED BY <2>1, <2>2 DEF Nodes
<1>4. ASSUME NEW nodes \in Nodes
      PROVE  WithGates(nodes) \in Nodes
  <2>1. PICK S \in SUBSET NodeName : nodes \in [S -> {"NOT_STARTED", "SKIPPED"}]
    BY DEF Nodes
  <2>2. WithGates(nodes) \in [S \cup Gates -> {"NOT_STARTED", "SKIPPED"}]
    BY <2>1 DEF WithGates
  <2>3. S \cup Gates \in SUBSET NodeName
    BY GatesFinite
  <2> QED BY <2>2, <2>3 DEF Nodes
<1> QED BY <1>2, <1>3, <1>4
-----------------------------------------------------------------------------
(* Types *)

LEMMA OthersStay ==
  ASSUME IntakeTypes, NEW c \in Client, NEW r \in Handler, op' = [op EXCEPT ![c] = r]
  PROVE  /\ op' \in [Client -> Handler]
         /\ op'[c] = r /\ \A d \in Client \ {c} : op'[d] = op[d]
  BY DEF IntakeTypes

\* A step of one handler, from r's references alone.
LEMMA TypesKept ==
  ASSUME TypesInv, NEW c \in Client, NEW r \in Handler, op' = [op EXCEPT ![c] = r],
         sub' \in Submission, patches' \in Nat,
         eng' \in Seq(Engagement), Len(eng') >= Len(eng),
         dags' \in Seq(Dag), Len(dags') >= Len(dags),
         r.pc \in {"project", "dag", "build", "finish", "again", "rebuild", "start",
                   "purge"} => r.eng \in 1..Len(eng'),
         r.pc \in {"build", "rebuild"} => r.dag \in 1..Len(dags'),
         r.pc = "patch" => r.saw \in {"RECEIVED", "VALID"}
  PROVE  TypesInv'
<1>1. /\ op' \in [Client -> Handler]
      /\ op'[c] = r /\ \A d \in Client \ {c} : op'[d] = op[d]
  BY OthersStay DEF TypesInv
<1>2. IntakeTypes'
  BY <1>1 DEF IntakeTypes
<1>3. Len(eng) \in Nat /\ Len(eng') \in Nat /\ Len(dags) \in Nat /\ Len(dags') \in Nat
  BY DEF TypesInv, IntakeTypes
<1>4. \A i : (i \in 1..Len(eng) => i \in 1..Len(eng'))
             /\ (i \in 1..Len(dags) => i \in 1..Len(dags'))
  BY <1>3
<1>5. Refs'
  BY <1>1, <1>4 DEF TypesInv, Refs
<1> QED BY <1>2, <1>5 DEF TypesInv

\* A DAG whose row is replaced by another.
LEMMA DagKept ==
  ASSUME TypesInv, NEW i \in 1..Len(dags), NEW d \in Dag, dags' = [dags EXCEPT ![i] = d]
  PROVE  /\ dags' \in Seq(Dag) /\ Len(dags') = Len(dags)
         /\ dags'[i] = d /\ \A j \in 1..Len(dags) : j # i => dags'[j] = dags[j]
  BY DEF TypesInv, IntakeTypes

LEMMA EngagementKept ==
  ASSUME TypesInv, NEW i \in 1..Len(eng), NEW e \in Engagement, eng' = [eng EXCEPT ![i] = e]
  PROVE  /\ eng' \in Seq(Engagement) /\ Len(eng') = Len(eng)
         /\ eng'[i] = e /\ \A j \in 1..Len(eng) : j # i => eng'[j] = eng[j]
  BY DEF TypesInv, IntakeTypes

LEMMA ErasedTyped ==
  ASSUME TypesInv, NEW S, dags' = Erase(S)
  PROVE  /\ dags' \in Seq(Dag) /\ Len(dags') = Len(dags)
         /\ \A i \in 1..Len(dags) : i \notin S => dags'[i] = dags[i]
<1>1. dags \in Seq(Dag) /\ DOMAIN dags = 1..Len(dags) /\ Len(dags) \in Nat
  BY DEF TypesInv, IntakeTypes
<1>2. ASSUME NEW i \in 1..Len(dags)
      PROVE  [dags[i] EXCEPT !.status = "gone", !.nodes = <<>>, !.edges = {}, !.total = 0]
               \in Dag
  <2>1. dags[i] \in Dag
    BY <1>1
  <2> QED BY <2>1, NodesTyped DEF Dag
<1>3. dags' \in [1..Len(dags) -> Dag]
  <2>1. \A i \in 1..Len(dags) : dags[i] \in Dag
    BY <1>1
  <2> DEFINE gone(i) ==
        [dags[i] EXCEPT !.status = "gone", !.nodes = <<>>, !.edges = {}, !.total = 0]
  <2>2. \A i \in 1..Len(dags) : gone(i) \in Dag
    BY <1>2
  <2>3. dags' = [i \in 1..Len(dags) |-> IF i \in S THEN gone(i) ELSE dags[i]]
    BY <1>1 DEF Erase
  <2> HIDE DEF gone
  <2> QED BY <2>1, <2>2, <2>3
<1>4. dags' \in Seq(Dag) /\ Len(dags') = Len(dags)
  BY <1>1, <1>3
<1> QED BY <1>1, <1>4 DEF Erase

LEMMA InitTypes == IntakeInit => TypesInv
<1> SUFFICES ASSUME IntakeInit PROVE TypesInv
  OBVIOUS
<1>1. NoRequest \in Handler
  BY DEF NoRequest, Handler, OpPc
<1>2. IntakeTypes
  BY <1>1 DEF IntakeInit, IntakeTypes, Submission, SubStatus
<1>3. Refs
  BY DEF IntakeInit, Refs, NoRequest
<1> QED BY <1>2, <1>3 DEF TypesInv

LEMMA Parts ==
  ASSUME TypesInv, NEW c \in Client
  PROVE  /\ op[c] \in Handler /\ NoRequest \in Handler
         /\ Len(eng) \in Nat /\ Len(dags) \in Nat
         /\ DOMAIN eng = 1..Len(eng) /\ DOMAIN dags = 1..Len(dags)
         /\ \A i \in 1..Len(eng) : eng[i] \in Engagement
         /\ \A i \in 1..Len(dags) : dags[i] \in Dag
         /\ sub \in Submission /\ patches \in Nat
         /\ eng \in Seq(Engagement) /\ dags \in Seq(Dag)
         /\ op[c].pc \in {"project", "dag", "build", "finish", "again", "rebuild", "start",
                          "purge"} => op[c].eng \in 1..Len(eng)
         /\ op[c].pc \in {"build", "rebuild"} => op[c].dag \in 1..Len(dags)
         /\ op[c].pc = "patch" => op[c].saw \in {"RECEIVED", "VALID"}
  BY DEF TypesInv, IntakeTypes, Refs, NoRequest, Handler, OpPc

\* The steps that change no row of an engagement or a DAG.
LEMMA LocalTypes ==
  ASSUME TypesInv, NEW c \in Client, NEW r \in Handler, op' = [op EXCEPT ![c] = r],
         sub' \in Submission, patches' \in Nat, eng' = eng, dags' = dags,
         r.pc \in {"project", "dag", "build", "finish", "again", "rebuild", "start",
                   "purge"} => r.eng \in 1..Len(eng),
         r.pc \in {"build", "rebuild"} => r.dag \in 1..Len(dags),
         r.pc = "patch" => r.saw \in {"RECEIVED", "VALID"}
  PROVE  TypesInv'
<1>1. /\ Len(eng) \in Nat /\ Len(dags) \in Nat
      /\ eng \in Seq(Engagement) /\ dags \in Seq(Dag)
  BY Parts
<1>2. Len(eng') >= Len(eng) /\ Len(dags') >= Len(dags)
  BY <1>1
<1> QED BY <1>1, <1>2, TypesKept

\* The steps that end a request, and change the submission at most.
LEMMA EndTypes ==
  ASSUME TypesInv, NEW c \in Client, op' = [op EXCEPT ![c] = NoRequest],
         sub' \in Submission, UNCHANGED <<eng, dags, patches>>
  PROVE  TypesInv'
  BY Parts, LocalTypes DEF NoRequest

LEMMA ConvertTypes ==
  ASSUME TypesInv, NEW c \in Client,
         \/ ConvertRead(c) \/ ConvertClaim(c) \/ MakePlan(c) \/ ConvertDone(c)
         \/ ConversionFails(c) \/ RebuildFails(c)
  PROVE  TypesInv'
<1>0. /\ op[c] \in Handler /\ NoRequest \in Handler
      /\ Len(eng) \in Nat /\ sub \in Submission /\ patches \in Nat
      /\ DOMAIN eng = 1..Len(eng) /\ \A i \in 1..Len(eng) : eng[i] \in Engagement
      /\ op[c].pc \in {"project", "dag", "build", "finish", "again", "rebuild", "start",
                       "purge"} => op[c].eng \in 1..Len(eng)
      /\ op[c].pc \in {"build", "rebuild"} => op[c].dag \in 1..Len(dags)
      /\ op[c].pc = "patch" => op[c].saw \in {"RECEIVED", "VALID"}
      /\ eng \in Seq(Engagement) /\ dags \in Seq(Dag)
  BY Parts
<1> USE <1>0
<1>1. CASE ConvertRead(c)
  <2> DEFINE r == [NoRequest EXCEPT !.pc = "claim"]
  <2>1. r \in Handler /\ r.pc = "claim"
    BY DEF NoRequest, Handler, OpPc
  <2>2. op' = [op EXCEPT ![c] = r] /\ sub' = sub /\ eng' = eng
         /\ dags' = dags /\ patches' = patches
    BY <1>1 DEF ConvertRead
  <2> HIDE DEF r
  <2> QED BY <2>1, <2>2, LocalTypes
<1>2. CASE ConvertClaim(c)
  <2>1. CASE Claimed
    <3> DEFINE r == [op[c] EXCEPT !.pc = "plan"]
    <3>1. r \in Handler /\ r.pc = "plan"
      BY DEF Handler, OpPc
    <3>2. op' = [op EXCEPT ![c] = r] /\ eng' = eng /\ dags' = dags
         /\ patches' = patches
      BY <1>2, <2>1 DEF ConvertClaim
    <3>3. sub' \in Submission
      BY <1>2, <2>1 DEF ConvertClaim, Submission, SubStatus
    <3> HIDE DEF r
    <3> QED BY <3>1, <3>2, <3>3, LocalTypes
  <2>2. CASE ~Claimed
    BY <1>2, <2>2, EndTypes DEF ConvertClaim
  <2> QED BY <2>1, <2>2
<1>3. CASE MakePlan(c)
  <2>1. PICK p \in Plans : op' = [op EXCEPT ![c].pc = "engagement", ![c].without = p]
    BY <1>3 DEF MakePlan
  <2> DEFINE r == [op[c] EXCEPT !.pc = "engagement", !.without = p]
  <2>2. r \in Handler /\ r.pc = "engagement"
    BY DEF Handler, OpPc
  <2>3. op' = [op EXCEPT ![c] = r] /\ sub' = sub /\ eng' = eng
         /\ dags' = dags /\ patches' = patches
    BY <1>3, <2>1 DEF MakePlan, IntakeTypes, TypesInv
  <2> HIDE DEF r
  <2> QED BY <2>2, <2>3, LocalTypes
<1>4. CASE ConvertDone(c)
  <2>1. sub' \in Submission
    BY <1>4 DEF ConvertDone, Submission, SubStatus, Handler
  <2> QED BY <1>4, <2>1, EndTypes DEF ConvertDone
<1>5. CASE ConversionFails(c)
  <2>1. sub' \in Submission
    BY <1>5 DEF ConversionFails, Submission, SubStatus
  <2> QED BY <1>5, <2>1, EndTypes DEF ConversionFails
<1>6. CASE RebuildFails(c)
  BY <1>6, EndTypes DEF RebuildFails
<1> QED BY <1>1, <1>2, <1>3, <1>4, <1>5, <1>6

LEMMA RequestTypes ==
  ASSUME TypesInv, NEW c \in Client,
         \/ PatchRead(c) \/ PatchWrite(c) \/ DeleteRead(c) \/ DeleteWrite(c)
         \/ StartRead(c) \/ Purge(c)
  PROVE  TypesInv'
<1>0. /\ op[c] \in Handler /\ NoRequest \in Handler
      /\ Len(eng) \in Nat /\ sub \in Submission /\ patches \in Nat
      /\ DOMAIN eng = 1..Len(eng) /\ \A i \in 1..Len(eng) : eng[i] \in Engagement
      /\ op[c].pc \in {"project", "dag", "build", "finish", "again", "rebuild", "start",
                       "purge"} => op[c].eng \in 1..Len(eng)
      /\ op[c].pc \in {"build", "rebuild"} => op[c].dag \in 1..Len(dags)
      /\ op[c].pc = "patch" => op[c].saw \in {"RECEIVED", "VALID"}
      /\ eng \in Seq(Engagement) /\ dags \in Seq(Dag)
  BY Parts
<1> USE <1>0
<1>1. CASE PatchRead(c)
  <2>1. PICK new \in {"RECEIVED", "VALID"} :
          op' = [op EXCEPT ![c] = [NoRequest EXCEPT !.pc = "patch", !.saw = new]]
    BY <1>1 DEF PatchRead
  <2> DEFINE r == [NoRequest EXCEPT !.pc = "patch", !.saw = new]
  <2>2. r \in Handler /\ r.pc = "patch" /\ r.saw = new
    BY DEF NoRequest, Handler, OpPc
  <2>3. op' = [op EXCEPT ![c] = r] /\ sub' = sub /\ eng' = eng
         /\ dags' = dags /\ patches' = patches + 1
    BY <1>1, <2>1 DEF PatchRead
  <2>4. patches' \in Nat
    BY <2>3
  <2> HIDE DEF r
  <2> QED BY <2>1, <2>2, <2>3, <2>4, LocalTypes
<1>2. CASE PatchWrite(c)
  <2>1. sub' \in Submission
    BY <1>2 DEF PatchWrite, Submission, SubStatus
  <2> QED BY <1>2, <2>1, EndTypes DEF PatchWrite
<1>3. CASE DeleteRead(c)
  <2> DEFINE r == [NoRequest EXCEPT !.pc = "delete"]
  <2>1. r \in Handler /\ r.pc = "delete"
    BY DEF NoRequest, Handler, OpPc
  <2>2. op' = [op EXCEPT ![c] = r] /\ sub' = sub /\ eng' = eng
         /\ dags' = dags /\ patches' = patches
    BY <1>3 DEF DeleteRead
  <2> HIDE DEF r
  <2> QED BY <2>1, <2>2, LocalTypes
<1>4. CASE DeleteWrite(c)
  <2>1. sub' \in Submission
    BY <1>4 DEF DeleteWrite, Submission, SubStatus
  <2> QED BY <1>4, <2>1, EndTypes DEF DeleteWrite
<1>5. CASE StartRead(c)
  <2>1. PICK e \in DOMAIN eng, p \in Plans :
          op' = [op EXCEPT ![c] =
                   [NoRequest EXCEPT !.pc = IF Of(e) = {} THEN "again" ELSE "start",
                                     !.eng = e, !.comp = 1, !.without = p]]
    BY <1>5 DEF StartRead
  <2> DEFINE r == [NoRequest EXCEPT !.pc = IF Of(e) = {} THEN "again" ELSE "start",
                                    !.eng = e, !.comp = 1, !.without = p]
  <2>2. r \in Handler /\ r.pc \in {"again", "start"} /\ r.eng = e
    <3>1. e \in Nat /\ p \in Plans
      BY <2>1
    <3>2. (IF Of(e) = {} THEN "again" ELSE "start") \in {"again", "start"}
      OBVIOUS
    <3> QED BY <3>1, <3>2 DEF NoRequest, Handler, OpPc
  <2>3. op' = [op EXCEPT ![c] = r] /\ sub' = sub /\ eng' = eng
         /\ dags' = dags /\ patches' = patches
    BY <1>5, <2>1 DEF StartRead
  <2> HIDE DEF r
  <2> QED BY <2>1, <2>2, <2>3, LocalTypes
<1>6. CASE Purge(c)
  <2> DEFINE e == [eng[op[c].eng] EXCEPT !.status = "gone"]
  <2>1. op[c].eng \in 1..Len(eng)
    BY <1>6 DEF Purge
  <2>2. e \in Engagement
    BY <2>1 DEF Engagement
  <2>3. eng' = [eng EXCEPT ![op[c].eng] = e]
    BY <1>6 DEF Purge
  <2> HIDE DEF e
  <2>4. eng' \in Seq(Engagement) /\ Len(eng') = Len(eng)
    BY <2>1, <2>2, <2>3, EngagementKept
  <2>5. sub' \in Submission
    BY <1>6 DEF Purge, Submission, SubStatus
  <2>6. op' = [op EXCEPT ![c] = NoRequest] /\ UNCHANGED <<dags, patches>>
    BY <1>6 DEF Purge
  <2>7. NoRequest.pc = "idle"
    BY DEF NoRequest, Handler, OpPc
  <2>8. Len(eng') >= Len(eng) /\ dags' \in Seq(Dag) /\ Len(dags') >= Len(dags)
    BY <2>4, <2>6
  <2> QED BY <2>4, <2>5, <2>6, <2>7, <2>8, TypesKept
<1> QED BY <1>1, <1>2, <1>3, <1>4, <1>5, <1>6

\* The rows that are made, and the one a builder changes.
LEMMA BuildTypes ==
  ASSUME TypesInv, NEW c \in Client,
         \/ CreateEngagement(c) \/ CreateProject(c) \/ CreateDag(c)
         \/ InsertNodes(c) \/ InsertGates(c)
  PROVE  TypesInv'
<1>0. /\ op[c] \in Handler /\ Len(eng) \in Nat /\ Len(dags) \in Nat
      /\ sub \in Submission /\ patches \in Nat
      /\ \A i \in 1..Len(eng) : eng[i] \in Engagement
      /\ \A i \in 1..Len(dags) : dags[i] \in Dag
      /\ op[c].pc \in {"project", "dag", "build", "finish", "again", "rebuild", "start",
                       "purge"} => op[c].eng \in 1..Len(eng)
      /\ op[c].pc \in {"build", "rebuild"} => op[c].dag \in 1..Len(dags)
      /\ eng \in Seq(Engagement) /\ dags \in Seq(Dag)
  BY Parts
<1> USE <1>0
<1>1. CASE CreateEngagement(c)
  <2> DEFINE e == [status |-> "INTAKE", made |-> 0, touched |-> FALSE]
             r == [op[c] EXCEPT !.pc = "project", !.eng = Len(eng'), !.comp = 1]
  <2>1. e \in Engagement
    BY DEF Engagement
  <2>2. eng' = Append(eng, e)
    BY <1>1 DEF CreateEngagement
  <2> HIDE DEF e
  <2>3. eng' \in Seq(Engagement) /\ Len(eng') = Len(eng) + 1
    BY <2>1, <2>2
  <2>4. r \in Handler /\ r.pc = "project" /\ r.eng \in 1..Len(eng')
    <3>1. Len(eng') \in Nat /\ Len(eng') \in 1..Len(eng') /\ 1 \in Nat
      BY <2>3
    <3> QED BY <3>1 DEF Handler, OpPc
  <2>5. op' = [op EXCEPT ![c] = r] /\ sub' = sub /\ dags' = dags /\ patches' = patches
    BY <1>1 DEF CreateEngagement
  <2> HIDE DEF r
  <2>6. Len(eng') >= Len(eng) /\ dags' \in Seq(Dag) /\ Len(dags') >= Len(dags)
    BY <2>3, <2>5
  <2> QED BY <2>3, <2>4, <2>5, <2>6, TypesKept
<1>2. CASE CreateProject(c)
  <2> DEFINE e == [eng[op[c].eng] EXCEPT !.made = @ + 1]
             r == [op[c] EXCEPT !.pc = "dag"]
  <2>1. op[c].eng \in 1..Len(eng)
    BY <1>2 DEF CreateProject
  <2>2. e \in Engagement
    <3>1. eng[op[c].eng] \in Engagement
      BY <2>1
    <3>2. eng[op[c].eng].made + 1 \in Nat
      BY <3>1 DEF Engagement
    <3> QED BY <3>1, <3>2 DEF Engagement
  <2>3. eng' = [eng EXCEPT ![op[c].eng] = e]
    BY <1>2 DEF CreateProject
  <2> HIDE DEF e
  <2>4. eng' \in Seq(Engagement) /\ Len(eng') = Len(eng)
    BY <2>1, <2>2, <2>3, EngagementKept
  <2>5. r \in Handler /\ r.pc = "dag" /\ r.eng \in 1..Len(eng')
    BY <2>1, <2>4 DEF Handler, OpPc
  <2>6. op' = [op EXCEPT ![c] = r] /\ sub' = sub /\ dags' = dags /\ patches' = patches
    BY <1>2 DEF CreateProject
  <2> HIDE DEF r
  <2>7. Len(eng') >= Len(eng) /\ dags' \in Seq(Dag) /\ Len(dags') >= Len(dags)
    BY <2>4, <2>6
  <2> QED BY <2>4, <2>5, <2>6, <2>7, TypesKept
<1>3. CASE CreateDag(c)
  <2> DEFINE d == [eng |-> op[c].eng, comp |-> op[c].comp, edges |-> {},
                   status |-> "INITIALIZING", nodes |-> <<>>, total |-> 0]
             r == [op[c] EXCEPT !.dag = Len(dags'),
                                !.pc = IF @ = "again" THEN "rebuild" ELSE "build"]
  <2>1. d \in Dag
    BY NodesTyped DEF Dag, Handler
  <2>2. dags' = Append(dags, d)
    BY <1>3 DEF CreateDag
  <2> HIDE DEF d
  <2>3. dags' \in Seq(Dag) /\ Len(dags') = Len(dags) + 1
    BY <2>1, <2>2
  <2>4. op[c].eng \in 1..Len(eng)
    BY <1>3 DEF CreateDag
  <2>5. /\ r \in Handler /\ r.pc \in {"build", "rebuild"}
        /\ r.eng \in 1..Len(eng) /\ r.dag \in 1..Len(dags')
    <3>1. Len(dags') \in Nat /\ Len(dags') \in 1..Len(dags')
      BY <2>3
    <3>2. (IF op[c].pc = "again" THEN "rebuild" ELSE "build") \in {"build", "rebuild"}
      OBVIOUS
    <3> QED BY <2>4, <3>1, <3>2 DEF Handler, OpPc
  <2>6. op' = [op EXCEPT ![c] = r] /\ sub' = sub /\ eng' = eng /\ patches' = patches
    BY <1>3 DEF CreateDag
  <2> HIDE DEF r
  <2>7. /\ Len(eng') >= Len(eng) /\ eng' \in Seq(Engagement) /\ Len(dags') >= Len(dags)
        /\ r.eng \in 1..Len(eng')
    BY <2>3, <2>5, <2>6
  <2> QED BY <2>3, <2>5, <2>6, <2>7, TypesKept
<1>4. CASE InsertNodes(c)
  <2> DEFINE d == [dags[op[c].dag] EXCEPT
                     !.nodes = Pairs(op[c].without),
                     !.edges = {<<Task(x), Qa(x)>> : x \in 1..Docs} \cup OrderEdges(1..Docs)]
  <2>1. op[c].dag \in 1..Len(dags)
    BY <1>4 DEF InsertNodes, Building
  <2>2. d \in Dag
    BY <2>1, NodesTyped, EdgesTyped DEF Dag
  <2>3. dags' = [dags EXCEPT ![op[c].dag] = d]
    BY <1>4 DEF InsertNodes
  <2> HIDE DEF d
  <2>4. dags' \in Seq(Dag) /\ Len(dags') = Len(dags)
    BY <2>1, <2>2, <2>3, DagKept
  <2>5. op' = op /\ sub' = sub /\ eng' = eng /\ patches' = patches
    BY <1>4 DEF InsertNodes
  <2> QED BY <2>4, <2>5 DEF TypesInv, IntakeTypes, Refs
<1>5. CASE InsertGates(c)
  <2> DEFINE old == dags[op[c].dag]
             d == [old EXCEPT
                     !.nodes = WithGates(@), !.edges = @ \cup GateEdges,
                     !.status = IF @ = "gone" THEN @ ELSE "VALID",
                     !.total = 2 * Docs + Cardinality(Gates)]
             again == op[c].pc = "rebuild"
             last == op[c].comp >= IF again THEN eng[op[c].eng].made ELSE Components
             comp == IF last THEN op[c].comp ELSE op[c].comp + 1
             pc == CASE last -> IF again THEN "start" ELSE "finish"
                     [] OTHER -> IF again THEN "again" ELSE "project"
             r == [op[c] EXCEPT !.comp = comp, !.pc = pc]
  <2>1. op[c].dag \in 1..Len(dags) /\ op[c].eng \in 1..Len(eng)
    BY <1>5 DEF InsertGates, Building
  <2>2. d \in Dag
    <3>1. old \in Dag
      BY <2>1
    <3>2. /\ WithGates(old.nodes) \in Nodes
          /\ old.edges \cup GateEdges \subseteq NodeName \X NodeName
          /\ (IF old.status = "gone" THEN old.status ELSE "VALID") \in {"VALID", "gone"}
          /\ 2 * Docs + Cardinality(Gates) \in Nat
      BY <3>1, NodesTyped, EdgesTyped, TotalIsSome DEF Dag
    <3> HIDE DEF old
    <3> QED BY <3>1, <3>2 DEF Dag
  <2>3. dags' = [dags EXCEPT ![op[c].dag] = d]
    BY <1>5 DEF InsertGates
  <2> HIDE DEF d
  <2>4. dags' \in Seq(Dag) /\ Len(dags') = Len(dags)
    BY <2>1, <2>2, <2>3, DagKept
  <2>5. comp \in Nat
    BY DEF Handler
  <2>6. pc \in {"start", "finish", "again", "project"}
    <3> HIDE DEF last, again
    <3> QED OBVIOUS
  <2>7. op' = [op EXCEPT ![c] = r]
    BY <1>5 DEF InsertGates
  <2>8. sub' = sub /\ eng' = eng /\ patches' = patches
    BY <1>5 DEF InsertGates
  <2>9. r \in Handler /\ r.pc = pc /\ r.eng \in 1..Len(eng')
    <3> HIDE DEF comp, pc
    <3> QED BY <2>1, <2>5, <2>6, <2>8 DEF Handler, OpPc
  <2> HIDE DEF r, pc
  <2>10. Len(eng') >= Len(eng) /\ eng' \in Seq(Engagement) /\ Len(dags') >= Len(dags)
    BY <2>4, <2>8
  <2> QED BY <2>4, <2>6, <2>7, <2>8, <2>9, <2>10, TypesKept
<1> QED BY <1>1, <1>2, <1>3, <1>4, <1>5

\* The rows that are erased or started.
LEMMA EraseTypes ==
  ASSUME TypesInv, NEW c \in Client, Reset(c) \/ PurgeRead(c) \/ StartDags(c)
  PROVE  TypesInv'
<1>0. /\ op[c] \in Handler /\ Len(eng) \in Nat /\ Len(dags) \in Nat
      /\ sub \in Submission /\ patches \in Nat
      /\ DOMAIN eng = 1..Len(eng) /\ DOMAIN dags = 1..Len(dags)
      /\ \A i \in 1..Len(eng) : eng[i] \in Engagement
      /\ \A i \in 1..Len(dags) : dags[i] \in Dag
      /\ op[c].pc = "start" => op[c].eng \in 1..Len(eng)
      /\ eng \in Seq(Engagement) /\ dags \in Seq(Dag)
  BY Parts
<1> USE <1>0
<1>1. CASE Reset(c)
  <2>1. PICK i \in 1..Len(eng) :
          /\ dags' = Erase(Of(i))
          /\ eng' = [eng EXCEPT ![i].status = "INTAKE", ![i].touched = TRUE]
    BY <1>1 DEF Reset
  <2> DEFINE e == [eng[i] EXCEPT !.status = "INTAKE", !.touched = TRUE]
  <2>2. e \in Engagement /\ eng' = [eng EXCEPT ![i] = e]
    BY <2>1 DEF Engagement
  <2> HIDE DEF e
  <2>3. eng' \in Seq(Engagement) /\ Len(eng') = Len(eng)
    BY <2>2, EngagementKept
  <2>4. dags' \in Seq(Dag) /\ Len(dags') = Len(dags)
    BY <2>1, ErasedTyped
  <2>5. op' = op /\ sub' = sub /\ patches' = patches
    BY <1>1 DEF Reset
  <2> QED BY <2>3, <2>4, <2>5 DEF TypesInv, IntakeTypes, Refs
<1>2. CASE PurgeRead(c)
  <2>1. PICK i \in 1..Len(eng) :
          /\ dags' = Erase(Of(i))
          /\ eng' = [eng EXCEPT ![i].made = 0, ![i].touched = TRUE]
          /\ op' = [op EXCEPT ![c] = [NoRequest EXCEPT !.pc = "purge", !.eng = i]]
    BY <1>2 DEF PurgeRead
  <2> DEFINE e == [eng[i] EXCEPT !.made = 0, !.touched = TRUE]
             r == [NoRequest EXCEPT !.pc = "purge", !.eng = i]
  <2>2. e \in Engagement /\ eng' = [eng EXCEPT ![i] = e]
    BY <2>1 DEF Engagement
  <2> HIDE DEF e
  <2>3. eng' \in Seq(Engagement) /\ Len(eng') = Len(eng)
    BY <2>2, EngagementKept
  <2>4. dags' \in Seq(Dag) /\ Len(dags') = Len(dags)
    BY <2>1, ErasedTyped
  <2>5. sub' = sub /\ patches' = patches
    BY <1>2 DEF PurgeRead
  <2>6. /\ r \in Handler /\ r.pc = "purge" /\ r.eng \in 1..Len(eng')
        /\ op' = [op EXCEPT ![c] = r]
    <3>1. i \in Nat /\ i \in 1..Len(eng')
      BY <2>1, <2>3
    <3> QED BY <2>1, <3>1 DEF NoRequest, Handler, OpPc
  <2> HIDE DEF r
  <2>7. Len(eng') >= Len(eng) /\ Len(dags') >= Len(dags)
    BY <2>3, <2>4
  <2> QED BY <2>3, <2>4, <2>5, <2>6, <2>7, TypesKept
<1>3. CASE StartDags(c)
  <2> DEFINE s == IF eng[op[c].eng].status = "gone" THEN "gone" ELSE "ACTIVE"
             e == [eng[op[c].eng] EXCEPT !.status = s]
             run(i) == [dags[i] EXCEPT !.status = "RUNNING"]
  <2>1. op[c].eng \in 1..Len(eng)
    BY <1>3 DEF StartDags
  <2>2. e \in Engagement /\ eng' = [eng EXCEPT ![op[c].eng] = e]
    <3>1. eng' = [eng EXCEPT ![op[c].eng].status = IF @ = "gone" THEN @ ELSE "ACTIVE"]
      BY <1>3 DEF StartDags
    <3> QED BY <2>1, <3>1 DEF Engagement
  <2> HIDE DEF e
  <2>3. eng' \in Seq(Engagement) /\ Len(eng') = Len(eng)
    BY <2>1, <2>2, EngagementKept
  <2>4. \A i \in 1..Len(dags) : dags[i] \in Dag /\ run(i) \in Dag
    BY DEF Dag
  <2>5. dags' = [i \in 1..Len(dags) |-> IF i \in Of(op[c].eng) THEN run(i) ELSE dags[i]]
    BY <1>3 DEF StartDags
  <2> HIDE DEF run
  <2>6. dags' \in Seq(Dag) /\ Len(dags') = Len(dags)
    BY <2>4, <2>5
  <2>7. op' = [op EXCEPT ![c] = NoRequest] /\ sub' = sub /\ patches' = patches
    BY <1>3 DEF StartDags
  <2>8. NoRequest \in Handler /\ NoRequest.pc = "idle"
    BY DEF NoRequest, Handler, OpPc
  <2>9. Len(eng') >= Len(eng) /\ Len(dags') >= Len(dags)
    BY <2>3, <2>6
  <2> QED BY <2>3, <2>6, <2>7, <2>8, <2>9, TypesKept
<1> QED BY <1>1, <1>2, <1>3

LEMMA StepTypes == TypesInv /\ [IntakeNext]_intakeVars => TypesInv'
<1> SUFFICES ASSUME TypesInv, [IntakeNext]_intakeVars PROVE TypesInv'
  OBVIOUS
<1>1. CASE IntakeStops
  <2>1. \A c \in Client : op'[c] = NoRequest
    BY <1>1 DEF IntakeStops
  <2>2. op' \in [Client -> Handler]
    BY <1>1 DEF IntakeStops, NoRequest, Handler, OpPc
  <2>3. Refs'
    BY <2>1 DEF Refs, NoRequest
  <2> QED BY <1>1, <2>2, <2>3 DEF IntakeStops, TypesInv, IntakeTypes
<1>2. CASE UNCHANGED intakeVars
  BY <1>2 DEF intakeVars, TypesInv, IntakeTypes, Refs
<1>3. ASSUME NEW c \in Client,
             \/ ConvertRead(c) \/ ConvertClaim(c) \/ MakePlan(c) \/ CreateEngagement(c)
             \/ CreateProject(c) \/ CreateDag(c) \/ InsertNodes(c)
             \/ InsertGates(c) \/ ConvertDone(c) \/ ConversionFails(c)
             \/ PatchRead(c) \/ PatchWrite(c) \/ DeleteRead(c) \/ DeleteWrite(c)
             \/ Reset(c) \/ PurgeRead(c) \/ Purge(c)
             \/ StartRead(c) \/ StartDags(c) \/ RebuildFails(c)
      PROVE  TypesInv'
  BY <1>3, ConvertTypes, RequestTypes, BuildTypes, EraseTypes
<1> QED BY <1>1, <1>2, <1>3 DEF IntakeNext
-----------------------------------------------------------------------------
(* One conversion *)

Converters == {c \in Client : op[c].pc \in Converting \cup {"plan"}}
Patching == {c \in Client : op[c].pc = "patch"}

\* A status that may be claimed is nobody's: who converts took it, and who is
\* about to write it by hand has been counted.
Taken == IF sub.status \in {"RECEIVED", "VALID"} THEN 0 ELSE 1
CountInv == Cardinality(Converters) + Cardinality(Patching) <= patches + Taken

Bit(b) == IF b THEN 1 ELSE 0

LEMMA CountOf ==
  ASSUME NEW S, IsFiniteSet(S), NEW c
  PROVE  Cardinality(S) = Cardinality(S \ {c}) + Bit(c \in S)
         /\ Cardinality(S) \in Nat /\ Cardinality(S \ {c}) \in Nat
<1>1. Cardinality(S) \in Nat
  BY FS_CardinalityType
<1>2. IsFiniteSet(S \ {c}) /\ (c \in S => Cardinality(S \ {c}) = Cardinality(S) - 1)
  BY FS_RemoveElement, FS_Subset
<1>3. Cardinality(S \ {c}) \in Nat
  BY <1>2, FS_CardinalityType
<1>4. c \notin S => S \ {c} = S
  OBVIOUS
<1>5. CASE c \in S
  BY <1>1, <1>2, <1>3, <1>5 DEF Bit
<1>6. CASE c \notin S
  BY <1>1, <1>3, <1>4, <1>6 DEF Bit
<1> QED BY <1>5, <1>6

\* What a step of one handler does to the two counts.
LEMMA CountStep ==
  ASSUME TypesInv, NEW c \in Client, \A d \in Client \ {c} : op'[d] = op[d]
  PROVE  LET n == Cardinality(Converters \ {c})
             m == Cardinality(Patching \ {c})
         IN  /\ n \in Nat /\ m \in Nat
             /\ Cardinality(Converters) = n + Bit(op[c].pc \in Converting \cup {"plan"})
             /\ Cardinality(Converters') = n + Bit(op'[c].pc \in Converting \cup {"plan"})
             /\ Cardinality(Patching) = m + Bit(op[c].pc = "patch")
             /\ Cardinality(Patching') = m + Bit(op'[c].pc = "patch")
<1>1. /\ IsFiniteSet(Converters) /\ IsFiniteSet(Converters')
      /\ IsFiniteSet(Patching) /\ IsFiniteSet(Patching')
  <2>1. /\ Converters \subseteq Client /\ Converters' \subseteq Client
        /\ Patching \subseteq Client /\ Patching' \subseteq Client
    BY DEF Converters, Patching
  <2> QED BY <2>1, IntakeAssumption, FS_Subset
<1>2. Converters' \ {c} = Converters \ {c} /\ Patching' \ {c} = Patching \ {c}
  BY DEF Converters, Patching
<1>3. /\ (c \in Converters) = (op[c].pc \in Converting \cup {"plan"})
      /\ (c \in Converters') = (op'[c].pc \in Converting \cup {"plan"})
      /\ (c \in Patching) = (op[c].pc = "patch")
      /\ (c \in Patching') = (op'[c].pc = "patch")
  BY DEF Converters, Patching
<1>4. /\ Cardinality(Converters) = Cardinality(Converters \ {c}) + Bit(c \in Converters)
      /\ Cardinality(Converters \ {c}) \in Nat
      /\ Cardinality(Patching) = Cardinality(Patching \ {c}) + Bit(c \in Patching)
      /\ Cardinality(Patching \ {c}) \in Nat
  BY <1>1, CountOf
<1>5. /\ Cardinality(Converters') = Cardinality(Converters' \ {c}) + Bit(c \in Converters')
      /\ Cardinality(Patching') = Cardinality(Patching' \ {c}) + Bit(c \in Patching')
  BY <1>1, CountOf
<1> QED BY <1>2, <1>3, <1>4, <1>5

LEMMA InitCount == IntakeInit => CountInv
<1> SUFFICES ASSUME IntakeInit PROVE CountInv
  OBVIOUS
<1>1. Converters = {} /\ Patching = {}
  BY DEF IntakeInit, NoRequest, Converters, Patching, Converting
<1> QED BY <1>1, FS_EmptySet DEF IntakeInit, CountInv, Taken

\* Where the gates leave a builder.
LEMMA GatesPc ==
  ASSUME TypesInv, NEW c \in Client, InsertGates(c)
  PROVE  \/ op[c].pc = "build" /\ op'[c].pc \in {"finish", "project"}
         \/ op[c].pc = "rebuild" /\ op'[c].pc \in {"start", "again"}
<1> DEFINE again == op[c].pc = "rebuild"
           last == op[c].comp >= IF again THEN eng[op[c].eng].made ELSE Components
           comp == IF last THEN op[c].comp ELSE op[c].comp + 1
           pc == CASE last -> IF again THEN "start" ELSE "finish"
                   [] OTHER -> IF again THEN "again" ELSE "project"
<1>1. op \in [Client -> Handler] /\ op[c] \in Handler
  BY DEF TypesInv, IntakeTypes
<1>2. op[c].pc \in {"build", "rebuild"}
  BY DEF InsertGates, Building
<1>3. op' = [op EXCEPT ![c].comp = comp, ![c].pc = pc]
  BY DEF InsertGates
<1>4. op'[c].pc = pc
  <2> HIDE DEF comp, pc
  <2> QED BY <1>1, <1>3 DEF Handler
<1>5. pc \in IF again THEN {"start", "again"} ELSE {"finish", "project"}
  <2> HIDE DEF last, again
  <2> QED OBVIOUS
<1> HIDE DEF pc, last, comp
<1> QED BY <1>2, <1>4, <1>5

\* A claim takes a status that was free, a request to change it is counted when
\* it begins, and nothing else frees it.
LEMMA Counted ==
  ASSUME TypesInv, NEW c \in Client,
         \/ ConvertRead(c) \/ ConvertClaim(c) \/ MakePlan(c) \/ CreateEngagement(c)
         \/ CreateProject(c) \/ CreateDag(c) \/ InsertNodes(c)
         \/ InsertGates(c) \/ ConvertDone(c) \/ ConversionFails(c)
         \/ PatchRead(c) \/ PatchWrite(c) \/ DeleteRead(c) \/ DeleteWrite(c)
         \/ Reset(c) \/ PurgeRead(c) \/ Purge(c)
         \/ StartRead(c) \/ StartDags(c) \/ RebuildFails(c)
  PROVE  Bit(op'[c].pc \in Converting \cup {"plan"}) + Bit(op'[c].pc = "patch")
           + patches + Taken
         <= Bit(op[c].pc \in Converting \cup {"plan"}) + Bit(op[c].pc = "patch")
           + patches' + Taken'
<1> DEFINE is == Bit(op[c].pc \in Converting \cup {"plan"})
           willBe == Bit(op'[c].pc \in Converting \cup {"plan"})
           was == Bit(op[c].pc = "patch")
           will == Bit(op'[c].pc = "patch")
<1>0. /\ op \in [Client -> Handler] /\ op[c] \in Handler
      /\ sub \in Submission /\ patches \in Nat
  BY DEF TypesInv, IntakeTypes
<1>1. /\ is \in {0, 1} /\ willBe \in {0, 1} /\ was \in {0, 1} /\ will \in {0, 1}
      /\ Taken \in {0, 1} /\ Taken' \in {0, 1}
  BY DEF Bit, Taken
<1>2. CASE ConvertClaim(c) /\ Claimed
  <2>1. op'[c].pc = "plan" /\ op[c].pc = "claim" /\ Taken = 0 /\ Taken' = 1
    BY <1>0, <1>2 DEF ConvertClaim, Claimed, Taken, Handler, Submission
  <2>2. is = 0 /\ was = 0 /\ will = 0 /\ patches' = patches
    BY <1>2, <2>1 DEF Bit, Converting, ConvertClaim
  <2> HIDE DEF is, was, will, willBe
  <2> QED BY <1>0, <1>1, <2>1, <2>2 DEF is, was, will, willBe
<1>3. CASE PatchRead(c)
  <2>1. op'[c].pc = "patch" /\ op[c].pc = "idle" /\ patches' = patches + 1 /\ sub' = sub
    BY <1>0, <1>3 DEF PatchRead, NoRequest
  <2>2. is = 0 /\ was = 0 /\ willBe = 0 /\ Taken' = Taken
    BY <2>1 DEF Bit, Converting, Taken
  <2> HIDE DEF is, was, will, willBe
  <2> QED BY <1>0, <1>1, <2>1, <2>2 DEF is, was, will, willBe
<1>4. CASE PatchWrite(c)
  <2>1. op[c].pc = "patch" /\ op'[c].pc = "idle" /\ patches' = patches
    BY <1>0, <1>4 DEF PatchWrite, NoRequest
  <2>2. was = 1 /\ is = 0 /\ willBe = 0 /\ will = 0
    BY <2>1 DEF Bit, Converting
  <2> HIDE DEF is, was, will, willBe
  <2> QED BY <1>0, <1>1, <2>1, <2>2 DEF is, was, will, willBe
<1>5. CASE ConvertDone(c) \/ ConversionFails(c) \/ DeleteWrite(c) \/ Purge(c) \/ RebuildFails(c)
           \/ StartDags(c) \/ (ConvertClaim(c) /\ ~Claimed)
  <2>1. op'[c].pc = "idle" /\ patches' = patches
    BY <1>0, <1>5 DEF ConvertDone, ConversionFails, DeleteWrite, Purge, RebuildFails, StartDags,
       ConvertClaim, NoRequest
  <2>2. Taken <= Taken'
    <3>1. sub' = sub \/ sub'.status \in {"CONVERTED", "FAILED", "deleted"}
      BY <1>0, <1>5 DEF ConvertDone, ConversionFails, DeleteWrite, Purge, RebuildFails,
         StartDags, ConvertClaim, Submission
    <3>2. Taken' = Taken \/ Taken' = 1
      BY <3>1 DEF Taken
    <3> QED BY <1>1, <3>2
  <2>3. willBe = 0 /\ will = 0
    BY <2>1 DEF Bit, Converting
  <2> HIDE DEF is, was, will, willBe
  <2> QED BY <1>0, <1>1, <2>1, <2>2, <2>3 DEF is, was, will, willBe
<1>6. CASE \/ ConvertRead(c) \/ MakePlan(c) \/ CreateEngagement(c) \/ CreateProject(c)
           \/ CreateDag(c) \/ InsertNodes(c) \/ InsertGates(c) \/ DeleteRead(c)
           \/ Reset(c) \/ PurgeRead(c) \/ StartRead(c)
  <2>1. sub' = sub /\ patches' = patches
    BY <1>6 DEF ConvertRead, MakePlan, CreateEngagement, CreateProject, CreateDag, InsertNodes,
       InsertGates, DeleteRead, Reset, PurgeRead, StartRead
  <2>2. (op[c].pc \in Converting \cup {"plan"}) = (op'[c].pc \in Converting \cup {"plan"})
    <3> USE <1>0 DEF Converting
    <3>1. CASE ConvertRead(c) \/ DeleteRead(c)
      BY <3>1 DEF ConvertRead, DeleteRead, NoRequest
    <3>2. CASE PurgeRead(c) \/ StartRead(c)
      <4>1. op[c].pc = "idle"
        BY <3>2 DEF PurgeRead, StartRead
      <4>2. op'[c].pc \in {"purge", "start", "again"}
        <5>1. CASE PurgeRead(c)
          BY <5>1 DEF PurgeRead, NoRequest
        <5>2. CASE StartRead(c)
          BY <5>2 DEF StartRead, NoRequest
        <5> QED BY <3>2, <5>1, <5>2
      <4> QED BY <4>1, <4>2
    <3>3. CASE MakePlan(c)
      <4>1. PICK p \in Plans : op' = [op EXCEPT ![c].pc = "engagement", ![c].without = p]
        BY <3>3 DEF MakePlan
      <4>2. op[c].pc = "plan" /\ op'[c].pc = "engagement"
        BY <3>3, <4>1 DEF MakePlan, Handler
      <4> QED BY <4>2
    <3>4. CASE CreateEngagement(c)
      BY <3>4 DEF CreateEngagement, Handler
    <3>5. CASE CreateProject(c)
      BY <3>5 DEF CreateProject, Handler
    <3>6. CASE CreateDag(c)
      BY <3>6 DEF CreateDag, Handler
    <3>7. CASE InsertNodes(c) \/ Reset(c)
      BY <3>7 DEF InsertNodes, Reset
    <3>8. CASE InsertGates(c)
      BY <3>8, GatesPc
    <3> QED BY <1>6, <3>1, <3>2, <3>3, <3>4, <3>5, <3>6, <3>7, <3>8
  <2>3. op'[c].pc # "patch"
    <3> USE <1>0
    <3>1. CASE ConvertRead(c) \/ DeleteRead(c)
      BY <3>1 DEF ConvertRead, DeleteRead, NoRequest
    <3>2. CASE PurgeRead(c) \/ StartRead(c)
      BY <3>2 DEF PurgeRead, StartRead, NoRequest
    <3>3. CASE MakePlan(c) \/ CreateEngagement(c) \/ CreateProject(c) \/ CreateDag(c)
      BY <3>3 DEF MakePlan, CreateEngagement, CreateProject, CreateDag, Handler
    <3>4. CASE InsertNodes(c) \/ Reset(c)
      BY <3>4 DEF InsertNodes, Reset, Building
    <3>5. CASE InsertGates(c)
      BY <3>5, GatesPc
    <3> QED BY <1>6, <3>1, <3>2, <3>3, <3>4, <3>5
  <2>4. is = willBe /\ will = 0 /\ Taken' = Taken
    BY <2>1, <2>2, <2>3 DEF Bit, Taken
  <2> HIDE DEF is, was, will, willBe
  <2> QED BY <1>0, <1>1, <2>1, <2>4 DEF is, was, will, willBe
<1> HIDE DEF is, was, will, willBe
<1> QED BY <1>2, <1>3, <1>4, <1>5, <1>6 DEF is, was, will, willBe

LEMMA StepCount == TypesInv /\ CountInv /\ [IntakeNext]_intakeVars => CountInv'
<1> SUFFICES ASSUME TypesInv, CountInv, [IntakeNext]_intakeVars PROVE CountInv'
  OBVIOUS
<1>0. patches \in Nat /\ Taken \in {0, 1} /\ Taken' \in {0, 1}
  BY DEF TypesInv, IntakeTypes, Taken
<1>1. CASE IntakeStops
  <2>1. Converters' = {} /\ Patching' = {}
    BY <1>1 DEF IntakeStops, NoRequest, Converters, Patching, Converting
  <2>2. patches' = patches
    BY <1>1 DEF IntakeStops
  <2> QED BY <1>0, <2>1, <2>2, FS_EmptySet DEF CountInv
<1>2. CASE UNCHANGED intakeVars
  BY <1>2 DEF intakeVars, CountInv, Converters, Patching, Taken
<1>3. ASSUME NEW c \in Client,
             \/ ConvertRead(c) \/ ConvertClaim(c) \/ MakePlan(c) \/ CreateEngagement(c)
             \/ CreateProject(c) \/ CreateDag(c) \/ InsertNodes(c)
             \/ InsertGates(c) \/ ConvertDone(c) \/ ConversionFails(c)
             \/ PatchRead(c) \/ PatchWrite(c) \/ DeleteRead(c) \/ DeleteWrite(c)
             \/ Reset(c) \/ PurgeRead(c) \/ Purge(c)
             \/ StartRead(c) \/ StartDags(c) \/ RebuildFails(c)
      PROVE  CountInv'
  <2> DEFINE is == Bit(op[c].pc \in Converting \cup {"plan"})
             willBe == Bit(op'[c].pc \in Converting \cup {"plan"})
             was == Bit(op[c].pc = "patch")
             will == Bit(op'[c].pc = "patch")
             then == patches'
             free == Taken'
  <2>1. op \in [Client -> Handler] /\ op[c] \in Handler /\ sub \in Submission
    BY DEF TypesInv, IntakeTypes
  <2>2. \A d \in Client \ {c} : op'[d] = op[d]
    BY <1>3, <2>1 DEF ConvertRead, ConvertClaim, MakePlan, CreateEngagement, CreateProject,
       CreateDag, InsertNodes, InsertGates, ConvertDone, ConversionFails, PatchRead, PatchWrite,
       DeleteRead, DeleteWrite, Reset, PurgeRead, Purge, StartRead, StartDags, RebuildFails
  <2>3. willBe + will + patches + Taken <= is + was + then + free
    BY <1>3, Counted
  <2>4. is \in {0, 1} /\ was \in {0, 1} /\ will \in {0, 1} /\ willBe \in {0, 1}
    BY DEF Bit
  <2>5. then \in Nat /\ free \in {0, 1}
    BY <1>0, StepTypes DEF TypesInv, IntakeTypes
  <2> HIDE DEF is, was, will, willBe, then, free
  <2>6. PICK n \in Nat, m \in Nat :
          /\ Cardinality(Converters) = n + is /\ Cardinality(Converters') = n + willBe
          /\ Cardinality(Patching) = m + was /\ Cardinality(Patching') = m + will
    BY <2>2, CountStep DEF is, was, will, willBe
  <2>7. (n + is) + (m + was) <= patches + Taken
    BY <2>6 DEF CountInv
  <2>8. (n + willBe) + (m + will) <= then + free
    BY <1>0, <2>3, <2>4, <2>5, <2>6, <2>7
  <2> QED BY <2>6, <2>8 DEF CountInv, then, free
<1> QED BY <1>1, <1>2, <1>3 DEF IntakeNext
-----------------------------------------------------------------------------
(* The whole engagement *)

\* What a converter has built by now: the components before the one it is at,
\* and all of them when it is about to finish, unless the engagement has been
\* reset or purged under it; and the DAG it is at is its own.
Reached(c) == IF op[c].pc = "finish" THEN Components ELSE op[c].comp - 1
Progress(c) ==
  /\ op[c].pc \in {"project", "dag", "build", "finish"} =>
       /\ op[c].comp \in 1..Components
       /\ ~eng[op[c].eng].touched => \A k \in 1..Reached(c) : Built(op[c].eng, k)
  /\ op[c].pc = "build" =>
       /\ dags[op[c].dag].eng = op[c].eng /\ dags[op[c].dag].comp = op[c].comp
       /\ dags[op[c].dag].status = "gone" => eng[op[c].eng].touched
SubWhole ==
  sub.status = "CONVERTED" =>
    /\ sub.eng \in 1..Len(eng)
    /\ ~eng[sub.eng].touched => \A k \in 1..Components : Built(sub.eng, k)
WholeInv == SubWhole /\ \A c \in Client : Progress(c)

\* What every step keeps: rows stay where they are, and only a step that
\* touches an engagement erases a DAG of it.
Kept ==
  /\ form' = form
  /\ Len(eng) \in Nat /\ Len(eng') \in Nat /\ Len(eng) <= Len(eng')
  /\ Len(dags) \in Nat /\ Len(dags') \in Nat /\ Len(dags) <= Len(dags')
  /\ DOMAIN dags = 1..Len(dags) /\ DOMAIN dags' = 1..Len(dags')
  /\ \A e \in 1..Len(eng) : eng[e].touched => eng'[e].touched
  /\ \A i \in 1..Len(dags) :
       /\ dags'[i].eng = dags[i].eng /\ dags'[i].comp = dags[i].comp
       /\ dags[i].eng \in 1..Len(eng) /\ ~eng'[dags[i].eng].touched =>
            /\ dags[i].status # "gone" => dags'[i].status # "gone"
            /\ dags[i].total # 0 => dags'[i].total # 0

LEMMA BuiltKept ==
  ASSUME Kept, NEW e \in 1..Len(eng), ~eng'[e].touched, NEW k, Built(e, k)
  PROVE  Built(e, k)'
<1>1. PICK i \in Of(e) : dags[i].comp = k /\ dags[i].total # 0
  BY DEF Built
<1>2. i \in 1..Len(dags) /\ dags[i].eng = e /\ dags[i].status # "gone"
  BY <1>1 DEF Of, Kept
<1>3. i \in 1..Len(dags')
  BY <1>2 DEF Kept
<1>4. /\ dags'[i].eng = e /\ dags'[i].comp = k /\ dags'[i].status # "gone"
      /\ dags'[i].total # 0
  BY <1>1, <1>2 DEF Kept
<1>5. i \in Of(e)'
  BY <1>3, <1>4 DEF Of, Kept
<1> QED BY <1>4, <1>5 DEF Built

LEMMA OthersProgress ==
  ASSUME TypesInv, Kept, NEW c \in Client, op'[c] = op[c], Progress(c)
  PROVE  Progress(c)'
<1>1. /\ op[c].pc \in {"project", "dag", "build", "finish"} => op[c].eng \in 1..Len(eng)
      /\ op[c].pc = "build" => op[c].dag \in 1..Len(dags)
  BY DEF TypesInv, Refs
<1>2. Components' = Components /\ Reached(c)' = Reached(c)
  BY DEF Kept, Components, Reached
<1>3. ASSUME op[c].pc \in {"project", "dag", "build", "finish"},
             ~eng'[op[c].eng].touched, NEW k \in 1..Reached(c)
      PROVE  Built(op[c].eng, k)'
  <2>1. ~eng[op[c].eng].touched
    BY <1>1, <1>3 DEF Kept
  <2>2. Built(op[c].eng, k)
    BY <1>3, <2>1 DEF Progress
  <2> QED BY <1>1, <1>3, <2>2, BuiltKept
<1>4. ASSUME op[c].pc = "build"
      PROVE  /\ dags'[op[c].dag].eng = op[c].eng /\ dags'[op[c].dag].comp = op[c].comp
             /\ dags'[op[c].dag].status = "gone" => eng'[op[c].eng].touched
  BY <1>1, <1>4 DEF Kept, Progress
<1> QED BY <1>2, <1>3, <1>4 DEF Progress

LEMMA SubKept ==
  ASSUME TypesInv, Kept, SubWhole, sub' = sub \/ sub'.status # "CONVERTED"
  PROVE  SubWhole'
<1> SUFFICES ASSUME sub' = sub, sub.status = "CONVERTED" PROVE SubWhole'
  BY DEF SubWhole
<1>1. sub.eng \in 1..Len(eng) /\ sub.eng \in 1..Len(eng')
  BY DEF SubWhole, Kept
<1>2. Components' = Components
  BY DEF Kept, Components
<1>3. ASSUME ~eng'[sub.eng].touched, NEW k \in 1..Components
      PROVE  Built(sub.eng, k)'
  <2>1. ~eng[sub.eng].touched
    BY <1>1, <1>3 DEF Kept
  <2>2. Built(sub.eng, k)
    BY <1>3, <2>1 DEF SubWhole
  <2> QED BY <1>1, <1>3, <2>2, BuiltKept
<1> QED BY <1>1, <1>2, <1>3 DEF SubWhole

\* A step of one handler: its own progress, and the submission's.
LEMMA WholeStep ==
  ASSUME TypesInv, WholeInv, Kept, NEW c \in Client,
         \A d \in Client \ {c} : op'[d] = op[d], Progress(c)', SubWhole'
  PROVE  WholeInv'
<1>1. ASSUME NEW d \in Client PROVE Progress(d)'
  BY OthersProgress DEF WholeInv
<1> QED BY <1>1 DEF WholeInv

\* Rows that are left alone.
LEMMA KeptAll ==
  ASSUME TypesInv, form' = form, eng' = eng, dags' = dags
  PROVE  Kept
<1>1. /\ Len(eng) \in Nat /\ Len(dags) \in Nat /\ DOMAIN dags = 1..Len(dags)
  BY DEF TypesInv, IntakeTypes
<1> QED BY <1>1 DEF Kept

\* Engagements that are added or changed, without touching one less.
LEMMA KeptEngagements ==
  ASSUME TypesInv, form' = form, dags' = dags, eng' \in Seq(Engagement),
         Len(eng) <= Len(eng'), \A e \in 1..Len(eng) : eng[e].touched => eng'[e].touched
  PROVE  Kept
<1>1. /\ Len(eng) \in Nat /\ Len(dags) \in Nat /\ DOMAIN dags = 1..Len(dags)
      /\ Len(eng') \in Nat
  BY DEF TypesInv, IntakeTypes
<1> QED BY <1>1 DEF Kept

\* The steps of a handler that is not in the middle of a conversion after it.
LEMMA WholeElse ==
  ASSUME TypesInv, WholeInv, Kept, NEW c \in Client,
         \A d \in Client \ {c} : op'[d] = op[d],
         op'[c].pc \notin {"project", "dag", "build", "finish"},
         sub' = sub \/ sub'.status # "CONVERTED"
  PROVE  WholeInv'
<1>1. Progress(c)'
  BY DEF Progress
<1>2. SubWhole'
  BY SubKept DEF WholeInv
<1> QED BY <1>1, <1>2, WholeStep

LEMMA Indexed ==
  ASSUME TypesInv
  PROVE  /\ Len(eng) \in Nat /\ Len(dags) \in Nat
         /\ DOMAIN eng = 1..Len(eng) /\ DOMAIN dags = 1..Len(dags)
         /\ eng \in Seq(Engagement) /\ dags \in Seq(Dag)
  BY DEF TypesInv, IntakeTypes

LEMMA LocalWhole ==
  ASSUME TypesInv, WholeInv, NEW c \in Client,
         \/ ConvertRead(c) \/ ConvertClaim(c) \/ MakePlan(c) \/ ConversionFails(c)
         \/ PatchRead(c) \/ PatchWrite(c) \/ DeleteRead(c) \/ DeleteWrite(c)
         \/ StartRead(c) \/ RebuildFails(c)
  PROVE  WholeInv'
<1>0. op \in [Client -> Handler] /\ op[c] \in Handler /\ sub \in Submission
  BY DEF TypesInv, IntakeTypes
<1>1. form' = form /\ eng' = eng /\ dags' = dags
  BY DEF ConvertRead, ConvertClaim, MakePlan, ConversionFails, PatchRead, PatchWrite,
     DeleteRead, DeleteWrite, StartRead, RebuildFails
<1>2. \A d \in Client \ {c} : op'[d] = op[d]
  BY <1>0 DEF ConvertRead, ConvertClaim, MakePlan, ConversionFails, PatchRead, PatchWrite,
     DeleteRead, DeleteWrite, StartRead, RebuildFails
<1>3. op'[c].pc \notin {"project", "dag", "build", "finish"}
  <2>1. CASE MakePlan(c)
    <3>1. PICK p \in Plans : op' = [op EXCEPT ![c].pc = "engagement", ![c].without = p]
      BY <2>1 DEF MakePlan
    <3>2. op'[c].pc = "engagement"
      BY <1>0, <3>1 DEF Handler
    <3> QED BY <3>2
  <2>2. CASE StartRead(c)
    <3>1. op'[c].pc \in {"start", "again"}
      BY <1>0, <2>2 DEF StartRead, NoRequest
    <3> QED BY <3>1
  <2>3. CASE ConvertClaim(c)
    <3>1. op'[c].pc \in {"plan", "idle"}
      BY <1>0, <2>3 DEF ConvertClaim, NoRequest, Handler
    <3> QED BY <3>1
  <2>4. CASE \/ ConvertRead(c) \/ ConversionFails(c) \/ PatchRead(c) \/ PatchWrite(c)
             \/ DeleteRead(c) \/ DeleteWrite(c) \/ RebuildFails(c)
    <3>1. CASE ConvertRead(c) \/ DeleteRead(c)
      BY <1>0, <3>1 DEF ConvertRead, DeleteRead, NoRequest
    <3>2. CASE PatchRead(c)
      BY <1>0, <3>2 DEF PatchRead, NoRequest
    <3>3. CASE ConversionFails(c) \/ PatchWrite(c) \/ DeleteWrite(c) \/ RebuildFails(c)
      BY <1>0, <3>3 DEF ConversionFails, PatchWrite, DeleteWrite, RebuildFails, NoRequest
    <3> QED BY <2>4, <3>1, <3>2, <3>3
  <2> QED BY <2>1, <2>2, <2>3, <2>4
<1>4. sub' = sub \/ sub'.status # "CONVERTED"
  <2>1. CASE PatchWrite(c)
    <3>1. op[c].saw \in {"RECEIVED", "VALID"}
      BY <2>1 DEF PatchWrite, TypesInv, Refs
    <3> QED BY <1>0, <2>1, <3>1 DEF PatchWrite, Submission
  <2>2. CASE ConvertClaim(c) \/ ConversionFails(c) \/ DeleteWrite(c)
    BY <1>0, <2>2 DEF ConvertClaim, ConversionFails, DeleteWrite, Submission
  <2>3. CASE \/ ConvertRead(c) \/ MakePlan(c) \/ PatchRead(c) \/ DeleteRead(c)
             \/ StartRead(c) \/ RebuildFails(c)
    BY <2>3 DEF ConvertRead, MakePlan, PatchRead, DeleteRead, StartRead, RebuildFails
  <2> QED BY <2>1, <2>2, <2>3
<1>5. Kept
  BY <1>1, KeptAll
<1> HIDE <1>0
<1> QED BY <1>2, <1>3, <1>4, <1>5, WholeElse

LEMMA EngagementWhole ==
  ASSUME TypesInv, WholeInv, NEW c \in Client,
         CreateEngagement(c) \/ CreateProject(c) \/ Purge(c) \/ ConvertDone(c)
  PROVE  WholeInv'
<1>0. /\ op \in [Client -> Handler] /\ op[c] \in Handler /\ sub \in Submission
      /\ Len(eng) \in Nat /\ eng \in Seq(Engagement)
      /\ op[c].pc \in {"project", "finish", "purge"} => op[c].eng \in 1..Len(eng)
  BY DEF TypesInv, IntakeTypes, Refs
<1>1. \A d \in Client \ {c} : op'[d] = op[d]
  BY <1>0 DEF CreateEngagement, CreateProject, Purge, ConvertDone
<1>2. CASE CreateEngagement(c)
  <2> DEFINE e == [status |-> "INTAKE", made |-> 0, touched |-> FALSE]
  <2>1. e \in Engagement /\ eng' = Append(eng, e)
    BY <1>2 DEF CreateEngagement, Engagement
  <2> HIDE DEF e
  <2>2. /\ eng' \in Seq(Engagement) /\ Len(eng') = Len(eng) + 1
        /\ \A i \in 1..Len(eng) : eng'[i] = eng[i]
    BY <1>0, <2>1
  <2>3. form' = form /\ dags' = dags /\ sub' = sub
    BY <1>2 DEF CreateEngagement
  <2>4. Kept
    BY <1>0, <2>2, <2>3, KeptEngagements
  <2>5. op'[c].pc = "project" /\ op'[c].comp = 1
    BY <1>0, <1>2 DEF CreateEngagement, Handler
  <2>6. Progress(c)'
    <3>1. Components' \in {1, 2}
      BY DEF Components
    <3>2. Reached(c)' = 0
      BY <2>5 DEF Reached
    <3> QED BY <2>5, <3>1, <3>2 DEF Progress
  <2>7. SubWhole'
    BY <2>3, <2>4, SubKept DEF WholeInv
  <2> QED BY <1>1, <2>4, <2>6, <2>7, WholeStep
<1>3. CASE CreateProject(c)
  <2> DEFINE e == [eng[op[c].eng] EXCEPT !.made = @ + 1]
  <2>1. op[c].pc = "project" /\ op[c].eng \in 1..Len(eng)
    BY <1>0, <1>3 DEF CreateProject
  <2>2. e \in Engagement /\ e.touched = eng[op[c].eng].touched
    <3>1. eng[op[c].eng] \in Engagement
      BY <1>0, <2>1
    <3>2. eng[op[c].eng].made + 1 \in Nat
      BY <3>1 DEF Engagement
    <3> QED BY <3>1, <3>2 DEF Engagement
  <2>3. eng' = [eng EXCEPT ![op[c].eng] = e]
    BY <1>3 DEF CreateProject
  <2> HIDE DEF e
  <2>4. /\ eng' \in Seq(Engagement) /\ Len(eng') = Len(eng)
        /\ \A i \in 1..Len(eng) : eng'[i].touched = eng[i].touched
    BY <2>1, <2>2, <2>3, EngagementKept
  <2>5. form' = form /\ dags' = dags /\ sub' = sub
    BY <1>3 DEF CreateProject
  <2>6. Kept
    BY <1>0, <2>4, <2>5, KeptEngagements
  <2>7. op'[c] = [op[c] EXCEPT !.pc = "dag"]
    BY <1>0, <1>3 DEF CreateProject
  <2>8. op'[c].pc = "dag" /\ op'[c].eng = op[c].eng /\ op'[c].comp = op[c].comp
    BY <1>0, <2>7 DEF Handler
  <2>9. Progress(c)'
    <3>1. Components' = Components /\ Reached(c)' = Reached(c)
      BY <2>1, <2>5, <2>8 DEF Components, Reached
    <3>2. ASSUME ~eng'[op[c].eng].touched, NEW k \in 1..Reached(c)
          PROVE  Built(op[c].eng, k)'
      <4>1. Built(op[c].eng, k)
        <5>1. ~eng[op[c].eng].touched /\ Progress(c)
          BY <2>1, <2>4, <3>2 DEF WholeInv
        <5> QED BY <2>1, <3>2, <5>1 DEF Progress
      <4> QED BY <2>1, <2>6, <2>8, <3>2, <4>1, BuiltKept
    <3>3. op[c].comp \in 1..Components
      BY <2>1 DEF WholeInv, Progress
    <3> QED BY <2>8, <3>1, <3>2, <3>3 DEF Progress
  <2>10. SubWhole'
    BY <2>5, <2>6, SubKept DEF WholeInv
  <2> QED BY <1>1, <2>6, <2>9, <2>10, WholeStep
<1>4. CASE Purge(c)
  <2> DEFINE e == [eng[op[c].eng] EXCEPT !.status = "gone"]
  <2>1. op[c].eng \in 1..Len(eng)
    BY <1>0, <1>4 DEF Purge
  <2>2. e \in Engagement /\ e.touched = eng[op[c].eng].touched
    <3>1. eng[op[c].eng] \in Engagement
      BY <1>0, <2>1
    <3> QED BY <3>1 DEF Engagement
  <2>3. eng' = [eng EXCEPT ![op[c].eng] = e]
    BY <1>4 DEF Purge
  <2> HIDE DEF e
  <2>4. /\ eng' \in Seq(Engagement) /\ Len(eng') = Len(eng)
        /\ \A i \in 1..Len(eng) : eng'[i].touched = eng[i].touched
    BY <2>1, <2>2, <2>3, EngagementKept
  <2>5. form' = form /\ dags' = dags
    BY <1>4 DEF Purge
  <2>6. Kept
    BY <1>0, <2>4, <2>5, KeptEngagements
  <2>7. sub' = sub \/ sub'.status # "CONVERTED"
    BY <1>0, <1>4 DEF Purge, Submission
  <2>8. op'[c].pc = "idle"
    BY <1>0, <1>4 DEF Purge, NoRequest
  <2> QED BY <1>1, <2>6, <2>7, <2>8, WholeElse
<1>5. CASE ConvertDone(c)
  <2>1. op[c].pc = "finish" /\ op[c].eng \in 1..Len(eng)
    BY <1>0, <1>5 DEF ConvertDone
  <2>2. form' = form /\ eng' = eng /\ dags' = dags
    BY <1>5 DEF ConvertDone
  <2>3. Kept
    BY <2>2, KeptAll
  <2>4. op'[c].pc = "idle"
    BY <1>0, <1>5 DEF ConvertDone, NoRequest
  <2>5. SubWhole'
    <3>1. CASE sub.status = "deleted"
      BY <1>5, <2>3, <3>1, SubKept DEF WholeInv, ConvertDone
    <3>2. CASE sub.status # "deleted"
      <4>1. sub'.eng = op[c].eng
        BY <1>0, <1>5, <3>2 DEF ConvertDone, Submission
      <4>2. Components' = Components /\ Reached(c) = Components
        BY <2>1, <2>2 DEF Components, Reached
      <4>3. PICK e \in 1..Len(eng) : e = op[c].eng
        BY <2>1
      <4>4. ASSUME ~eng'[e].touched, NEW k \in 1..Components
            PROVE  Built(e, k)'
        <5>1. Built(e, k)
          <6>1. ~eng[op[c].eng].touched /\ Progress(c)
            BY <2>2, <4>3, <4>4 DEF WholeInv
          <6> QED BY <2>1, <4>2, <4>3, <4>4, <6>1 DEF Progress
        <5> QED BY <2>3, <4>4, <5>1, BuiltKept
      <4>5. sub'.eng \in 1..Len(eng') /\ sub'.eng = e
        BY <2>1, <2>2, <4>1, <4>3
      <4> QED BY <4>2, <4>4, <4>5 DEF SubWhole
    <3> QED BY <3>1, <3>2
  <2>6. Progress(c)'
    BY <2>4 DEF Progress
  <2> QED BY <1>1, <2>3, <2>5, <2>6, WholeStep
<1> QED BY <1>2, <1>3, <1>4, <1>5

LEMMA RowsWhole ==
  ASSUME TypesInv, WholeInv, NEW c \in Client, CreateDag(c) \/ InsertNodes(c)
  PROVE  WholeInv'
<1>0. /\ op \in [Client -> Handler] /\ op[c] \in Handler
      /\ Len(eng) \in Nat /\ Len(dags) \in Nat /\ dags \in Seq(Dag)
      /\ DOMAIN dags = 1..Len(dags)
      /\ op[c].pc \in {"dag", "again"} => op[c].eng \in 1..Len(eng)
      /\ op[c].pc \in {"build", "rebuild"} => op[c].dag \in 1..Len(dags)
  BY DEF TypesInv, IntakeTypes, Refs
<1>1. /\ \A d \in Client \ {c} : op'[d] = op[d]
      /\ form' = form /\ eng' = eng /\ sub' = sub
  BY <1>0 DEF CreateDag, InsertNodes
<1>2. CASE CreateDag(c)
  <2> DEFINE d == [eng |-> op[c].eng, comp |-> op[c].comp, edges |-> {},
                   status |-> "INITIALIZING", nodes |-> <<>>, total |-> 0]
  <2>1. d \in Dag /\ dags' = Append(dags, d)
    BY <1>0, <1>2, NodesTyped DEF CreateDag, Dag, Handler
  <2>2. d.eng = op[c].eng /\ d.comp = op[c].comp /\ d.status = "INITIALIZING"
    OBVIOUS
  <2> HIDE DEF d
  <2>3. /\ dags' \in Seq(Dag) /\ Len(dags') = Len(dags) + 1 /\ dags'[Len(dags')] = d
        /\ \A i \in 1..Len(dags) : dags'[i] = dags[i]
    BY <1>0, <2>1
  <2>4. Kept
    <3>1. DOMAIN dags' = 1..Len(dags') /\ Len(dags') \in Nat
      BY <2>3
    <3> QED BY <1>0, <1>1, <2>3, <3>1 DEF Kept
  <2>5. /\ op'[c].eng = op[c].eng /\ op'[c].comp = op[c].comp /\ op'[c].dag = Len(dags')
        /\ op'[c].pc = IF op[c].pc = "again" THEN "rebuild" ELSE "build"
    BY <1>0, <1>2 DEF CreateDag, Handler
  <2>6. op[c].pc \in {"dag", "again"}
    BY <1>2 DEF CreateDag
  <2>7. Progress(c)'
    <3>1. CASE op[c].pc = "again"
      BY <2>5, <3>1 DEF Progress
    <3>2. CASE op[c].pc = "dag"
      <4>1. Components' = Components /\ Reached(c)' = Reached(c)
        BY <1>1, <2>5, <3>2 DEF Components, Reached
      <4>2. ASSUME ~eng'[op[c].eng].touched, NEW k \in 1..Reached(c)
            PROVE  Built(op[c].eng, k)'
        <5>1. Built(op[c].eng, k)
          <6>1. ~eng[op[c].eng].touched /\ Progress(c)
            BY <1>1, <4>2 DEF WholeInv
          <6> QED BY <3>2, <4>2, <6>1 DEF Progress
        <5> QED BY <1>0, <2>4, <2>5, <3>2, <4>2, <5>1, BuiltKept
      <4>3. op[c].comp \in 1..Components
        BY <3>2 DEF WholeInv, Progress
      <4>4. /\ dags'[op'[c].dag].eng = op'[c].eng /\ dags'[op'[c].dag].comp = op'[c].comp
            /\ dags'[op'[c].dag].status # "gone"
        BY <2>2, <2>3, <2>5
      <4> QED BY <2>5, <3>2, <4>1, <4>2, <4>3, <4>4 DEF Progress
    <3> QED BY <2>6, <3>1, <3>2
  <2>8. SubWhole'
    BY <1>1, <2>4, SubKept DEF WholeInv
  <2> QED BY <1>1, <2>4, <2>7, <2>8, WholeStep
<1>3. CASE InsertNodes(c)
  <2> DEFINE d == [dags[op[c].dag] EXCEPT
                     !.nodes = Pairs(op[c].without),
                     !.edges = {<<Task(x), Qa(x)>> : x \in 1..Docs} \cup OrderEdges(1..Docs)]
  <2>1. op[c].dag \in 1..Len(dags) /\ dags[op[c].dag] \in Dag
    BY <1>0, <1>3 DEF InsertNodes, Building
  <2>2. d \in Dag
    BY <2>1, NodesTyped, EdgesTyped DEF Dag
  <2>3. /\ d.eng = dags[op[c].dag].eng /\ d.comp = dags[op[c].dag].comp
        /\ d.status = dags[op[c].dag].status /\ d.total = dags[op[c].dag].total
    BY <2>1 DEF Dag
  <2>4. dags' = [dags EXCEPT ![op[c].dag] = d]
    BY <1>3 DEF InsertNodes
  <2> HIDE DEF d
  <2>5. /\ dags' \in Seq(Dag) /\ Len(dags') = Len(dags)
        /\ \A i \in 1..Len(dags) :
             /\ dags'[i].eng = dags[i].eng /\ dags'[i].comp = dags[i].comp
             /\ dags'[i].status = dags[i].status /\ dags'[i].total = dags[i].total
    BY <2>1, <2>2, <2>3, <2>4, DagKept
  <2>6. Kept
    <3>1. DOMAIN dags' = 1..Len(dags')
      BY <2>5
    <3> QED BY <1>0, <1>1, <2>5, <3>1 DEF Kept
  <2>7. op' = op
    BY <1>3 DEF InsertNodes
  <2>8. Progress(c)'
    BY <2>6, <2>7, OthersProgress DEF WholeInv
  <2>9. SubWhole'
    BY <1>1, <2>6, SubKept DEF WholeInv
  <2> QED BY <1>1, <2>6, <2>8, <2>9, WholeStep
<1> QED BY <1>2, <1>3

LEMMA GatesWhole ==
  ASSUME TypesInv, WholeInv, NEW c \in Client, InsertGates(c)
  PROVE  WholeInv'
<1> DEFINE old == dags[op[c].dag]
           d == [old EXCEPT
                   !.nodes = WithGates(@), !.edges = @ \cup GateEdges,
                   !.status = IF @ = "gone" THEN @ ELSE "VALID",
                   !.total = 2 * Docs + Cardinality(Gates)]
<1>0. /\ op \in [Client -> Handler] /\ op[c] \in Handler
      /\ Len(eng) \in Nat /\ Len(dags) \in Nat /\ dags \in Seq(Dag)
      /\ op[c].pc = "build" => op[c].eng \in 1..Len(eng)
      /\ op[c].dag \in 1..Len(dags) /\ op[c].pc \in {"build", "rebuild"}
      /\ old \in Dag
  BY DEF TypesInv, IntakeTypes, Refs, InsertGates, Building
<1>1. /\ \A x \in Client \ {c} : op'[x] = op[x]
      /\ form' = form /\ eng' = eng /\ sub' = sub
  BY <1>0 DEF InsertGates
<1>2. d \in Dag
  <2>1. /\ WithGates(old.nodes) \in Nodes
        /\ old.edges \cup GateEdges \subseteq NodeName \X NodeName
        /\ (IF old.status = "gone" THEN old.status ELSE "VALID") \in {"VALID", "gone"}
        /\ 2 * Docs + Cardinality(Gates) \in Nat
    BY <1>0, NodesTyped, EdgesTyped, TotalIsSome DEF Dag
  <2> HIDE DEF old
  <2> QED BY <1>0, <2>1 DEF Dag
<1>3. /\ d.eng = old.eng /\ d.comp = old.comp /\ d.total # 0
      /\ old.status # "gone" => d.status # "gone"
  <2> HIDE DEF old
  <2> QED BY <1>0, TotalIsSome DEF Dag
<1>4. dags' = [dags EXCEPT ![op[c].dag] = d]
  BY DEF InsertGates
<1> HIDE DEF d
<1>5. /\ dags' \in Seq(Dag) /\ Len(dags') = Len(dags) /\ dags'[op[c].dag] = d
      /\ \A i \in 1..Len(dags) : i # op[c].dag => dags'[i] = dags[i]
  BY <1>0, <1>2, <1>4, DagKept
<1>6. Kept
  <2>1. DOMAIN dags' = 1..Len(dags') /\ DOMAIN dags = 1..Len(dags)
    BY <1>0, <1>5
  <2>2. ASSUME NEW i \in 1..Len(dags)
        PROVE  /\ dags'[i].eng = dags[i].eng /\ dags'[i].comp = dags[i].comp
               /\ dags[i].status # "gone" => dags'[i].status # "gone"
               /\ dags[i].total # 0 => dags'[i].total # 0
    BY <1>3, <1>5
  <2> QED BY <1>0, <1>1, <1>5, <2>1, <2>2 DEF Kept
<1>7. SubWhole'
  BY <1>1, <1>6, SubKept DEF WholeInv
<1>8. Progress(c)'
  <2>1. CASE op'[c].pc \notin {"project", "finish"}
    <3>1. op'[c].pc \in {"start", "again"}
      BY <2>1, GatesPc
    <3> QED BY <3>1 DEF Progress
  <2>2. CASE op'[c].pc \in {"project", "finish"}
    <3>1. op[c].pc = "build"
      BY <2>2, GatesPc
    <3>2. /\ op'[c].eng = op[c].eng
          /\ op[c].comp >= Components => op'[c].pc = "finish" /\ op'[c].comp = op[c].comp
          /\ ~(op[c].comp >= Components) =>
               op'[c].pc = "project" /\ op'[c].comp = op[c].comp + 1
      BY <1>0, <3>1 DEF InsertGates, Handler
    <3>3. /\ op[c].comp \in 1..Components /\ Components \in {1, 2}
          /\ old.eng = op[c].eng /\ old.comp = op[c].comp
          /\ old.status = "gone" => eng[op[c].eng].touched
      BY <3>1 DEF WholeInv, Progress, Components
    <3>4. Components' = Components
      BY <1>1 DEF Components
    <3>5. op'[c].comp \in 1..Components /\ Reached(c)' = op[c].comp
      BY <3>2, <3>3, <3>4 DEF Reached
    <3>6. PICK e \in 1..Len(eng), m \in 1..Components :
            e = op[c].eng /\ m = op[c].comp
      BY <1>0, <3>1, <3>3
    <3>7. ASSUME ~eng'[e].touched, NEW k \in 1..m
          PROVE  Built(e, k)'
      <4>1. CASE k = m
        <5>1. old.status # "gone" /\ old.eng = e /\ old.comp = m
          BY <1>1, <3>3, <3>6, <3>7
        <5>2. PICK i \in 1..Len(dags) : i = op[c].dag
          BY <1>0
        <5>3. /\ dags'[i].eng = e /\ dags'[i].comp = m /\ dags'[i].status # "gone"
              /\ dags'[i].total # 0
          BY <1>3, <1>5, <5>1, <5>2
        <5>4. i \in Of(e)'
          BY <1>5, <5>2, <5>3 DEF Of
        <5> QED BY <4>1, <5>3, <5>4 DEF Built
      <4>2. CASE k # m
        <5>1. k \in 1..Reached(c)
          BY <3>1, <3>6, <3>7, <4>2 DEF Reached
        <5>2. ~eng[e].touched /\ Progress(c)
          BY <1>1, <3>7 DEF WholeInv
        <5>3. Built(e, k)
          BY <3>1, <3>6, <5>1, <5>2 DEF Progress
        <5> QED BY <1>6, <3>7, <5>3, BuiltKept
      <4> QED BY <4>1, <4>2
    <3>8. op'[c].eng = e /\ Reached(c)' = m
      BY <3>2, <3>5, <3>6
    <3> QED BY <2>2, <3>4, <3>5, <3>7, <3>8 DEF Progress
  <2> QED BY <2>1, <2>2
<1> QED BY <1>1, <1>6, <1>7, <1>8, WholeStep

LEMMA EraseWhole ==
  ASSUME TypesInv, WholeInv, NEW c \in Client, Reset(c) \/ PurgeRead(c) \/ StartDags(c)
  PROVE  WholeInv'
<1>0. /\ op \in [Client -> Handler] /\ op[c] \in Handler
      /\ Len(eng) \in Nat /\ Len(dags) \in Nat /\ dags \in Seq(Dag) /\ eng \in Seq(Engagement)
      /\ DOMAIN eng = 1..Len(eng) /\ DOMAIN dags = 1..Len(dags)
      /\ op[c].pc = "start" => op[c].eng \in 1..Len(eng)
  BY DEF TypesInv, IntakeTypes, Refs
<1>1. /\ \A x \in Client \ {c} : op'[x] = op[x]
      /\ form' = form /\ sub' = sub
  BY <1>0 DEF Reset, PurgeRead, StartDags
<1>2. CASE Reset(c) \/ PurgeRead(c)
  <2>1. PICK e \in 1..Len(eng) :
          /\ dags' = Erase(Of(e))
          /\ \/ eng' = [eng EXCEPT ![e].status = "INTAKE", ![e].touched = TRUE]
             \/ eng' = [eng EXCEPT ![e].made = 0, ![e].touched = TRUE]
    BY <1>0, <1>2 DEF Reset, PurgeRead
  <2>2. eng[e] \in Engagement
    BY <1>0
  <2>3. PICK old \in Engagement : eng' = [eng EXCEPT ![e] = old] /\ old.touched
    BY <2>1, <2>2 DEF Engagement
  <2>4. /\ eng' \in Seq(Engagement) /\ Len(eng') = Len(eng) /\ eng'[e] = old
        /\ \A x \in 1..Len(eng) : x # e => eng'[x] = eng[x]
    BY <2>3, EngagementKept
  <2>5. /\ dags' \in Seq(Dag) /\ Len(dags') = Len(dags)
        /\ \A i \in 1..Len(dags) : i \notin Of(e) => dags'[i] = dags[i]
    BY <2>1, ErasedTyped
  <2>6. \A i \in 1..Len(dags) : dags'[i].eng = dags[i].eng /\ dags'[i].comp = dags[i].comp
    <3>1. \A i \in 1..Len(dags) : dags[i] \in Dag
      BY <1>0
    <3> QED BY <1>0, <2>1, <3>1 DEF Erase, Dag
  <2>7. Kept
    <3>1. ASSUME NEW i \in 1..Len(dags), dags[i].eng \in 1..Len(eng),
                 ~eng'[dags[i].eng].touched
          PROVE  dags'[i] = dags[i]
      <4>1. dags[i].eng # e
        BY <2>3, <2>4, <3>1
      <4> QED BY <2>5, <4>1 DEF Of
    <3>2. \A x \in 1..Len(eng) : eng[x].touched => eng'[x].touched
      BY <2>3, <2>4
    <3>3. DOMAIN dags' = 1..Len(dags') /\ Len(dags') \in Nat
      BY <2>5
    <3> QED BY <1>0, <1>1, <2>4, <2>5, <2>6, <3>1, <3>2, <3>3 DEF Kept
  <2>8. op'[c].pc \in {"idle", "purge"}
    <3>1. CASE Reset(c)
      BY <3>1 DEF Reset
    <3>2. CASE PurgeRead(c)
      <4>1. PICK i : op' = [op EXCEPT ![c] = [NoRequest EXCEPT !.pc = "purge", !.eng = i]]
        BY <3>2 DEF PurgeRead
      <4> QED BY <1>0, <4>1 DEF NoRequest
    <3> QED BY <1>2, <3>1, <3>2
  <2>9. op'[c].pc \notin {"project", "dag", "build", "finish"}
    BY <2>8
  <2> HIDE <1>0
  <2> QED BY <1>1, <2>7, <2>9, WholeElse
<1>3. CASE StartDags(c)
  <2> DEFINE run(i) == [dags[i] EXCEPT !.status = "RUNNING"]
  <2>1. op[c].eng \in 1..Len(eng)
    BY <1>0, <1>3 DEF StartDags
  <2>2. /\ Len(eng') = Len(eng)
        /\ \A e \in 1..Len(eng) : eng[e].touched => eng'[e].touched
    <3>1. \A e \in 1..Len(eng) : eng[e] \in Engagement
      BY <1>0
    <3>2. eng' = [eng EXCEPT ![op[c].eng].status = IF @ = "gone" THEN @ ELSE "ACTIVE"]
      BY <1>3 DEF StartDags
    <3> QED BY <1>0, <2>1, <3>1, <3>2 DEF Engagement
  <2>3. \A i \in 1..Len(dags) :
          /\ dags[i] \in Dag
          /\ run(i).eng = dags[i].eng /\ run(i).comp = dags[i].comp
          /\ run(i).status = "RUNNING" /\ run(i).total = dags[i].total
    <3>1. \A i \in 1..Len(dags) : dags[i] \in Dag
      BY <1>0
    <3> QED BY <3>1 DEF Dag
  <2>4. dags' = [i \in 1..Len(dags) |-> IF i \in Of(op[c].eng) THEN run(i) ELSE dags[i]]
    BY <1>0, <1>3 DEF StartDags
  <2> HIDE DEF run
  <2>5. /\ Len(dags') = Len(dags) /\ DOMAIN dags' = 1..Len(dags)
        /\ \A i \in 1..Len(dags) : dags'[i] = dags[i] \/ dags'[i] = run(i)
    BY <1>0, <2>4
  <2>6. Kept
    BY <1>0, <1>1, <2>2, <2>3, <2>5 DEF Kept
  <2>7. op'[c].pc = "idle"
    BY <1>0, <1>3 DEF StartDags, NoRequest
  <2> QED BY <1>1, <2>6, <2>7, WholeElse
<1> QED BY <1>2, <1>3

LEMMA InitWhole == IntakeInit => WholeInv
  BY DEF IntakeInit, NoRequest, WholeInv, SubWhole, Progress

LEMMA StepWhole == TypesInv /\ WholeInv /\ [IntakeNext]_intakeVars => WholeInv'
<1> SUFFICES ASSUME TypesInv, WholeInv, [IntakeNext]_intakeVars PROVE WholeInv'
  OBVIOUS
<1>1. CASE IntakeStops
  <2>1. form' = form /\ eng' = eng /\ dags' = dags /\ sub' = sub
    BY <1>1 DEF IntakeStops
  <2>2. Kept
    BY <2>1, KeptAll
  <2>3. SubWhole'
    BY <2>1, <2>2, SubKept DEF WholeInv
  <2>4. \A c \in Client : op'[c].pc = "idle"
    BY <1>1 DEF IntakeStops, NoRequest
  <2> QED BY <2>3, <2>4 DEF WholeInv, Progress
<1>2. CASE UNCHANGED intakeVars
  <2>1. /\ form' = form /\ eng' = eng /\ dags' = dags /\ sub' = sub /\ op' = op
    BY <1>2 DEF intakeVars
  <2>2. Kept
    BY <2>1, KeptAll
  <2>3. SubWhole'
    BY <2>1, <2>2, SubKept DEF WholeInv
  <2>4. \A c \in Client : Progress(c)'
    BY <2>1, <2>2, OthersProgress DEF WholeInv
  <2> QED BY <2>3, <2>4 DEF WholeInv
<1>3. ASSUME NEW c \in Client,
             \/ ConvertRead(c) \/ ConvertClaim(c) \/ MakePlan(c) \/ CreateEngagement(c)
             \/ CreateProject(c) \/ CreateDag(c) \/ InsertNodes(c)
             \/ InsertGates(c) \/ ConvertDone(c) \/ ConversionFails(c)
             \/ PatchRead(c) \/ PatchWrite(c) \/ DeleteRead(c) \/ DeleteWrite(c)
             \/ Reset(c) \/ PurgeRead(c) \/ Purge(c)
             \/ StartRead(c) \/ StartDags(c) \/ RebuildFails(c)
      PROVE  WholeInv'
  BY <1>3, LocalWhole, EngagementWhole, RowsWhole, GatesWhole, EraseWhole
<1> QED BY <1>1, <1>2, <1>3 DEF IntakeNext
-----------------------------------------------------------------------------
(* Theorems *)

LEMMA IntakeInvariant == IntakeSpec => [](TypesInv /\ CountInv /\ WholeInv)
<1>1. IntakeInit => TypesInv /\ CountInv /\ WholeInv
  BY InitTypes, InitCount, InitWhole
<1>2. TypesInv /\ CountInv /\ WholeInv /\ [IntakeNext]_intakeVars
        => (TypesInv /\ CountInv /\ WholeInv)'
  BY StepTypes, StepCount, StepWhole
<1> QED BY <1>1, <1>2, PTL DEF IntakeSpec

\* However many requests there are, and whatever fails or is deleted in between,
\* no two convert a submission at once (process_submission's UPDATE claims it),
\* except one more for each status that was set back by hand.
THEOREM ConvertsOnce == IntakeSpec => []OneConversion
<1>1. TypesInv /\ CountInv => OneConversion
  <2> SUFFICES ASSUME TypesInv, CountInv PROVE OneConversion
    OBVIOUS
  <2>1. Converters \subseteq Client /\ Patching \subseteq Client
    BY DEF Converters, Patching
  <2>2. Cardinality(Converters) \in Nat /\ Cardinality(Patching) \in Nat
    BY <2>1, IntakeAssumption, FS_Subset, FS_CardinalityType
  <2>3. patches \in Nat /\ Taken \in {0, 1}
    BY DEF TypesInv, IntakeTypes, Taken
  <2>4. Cardinality(Converters) <= 1 + patches
    BY <2>2, <2>3 DEF CountInv
  <2> QED BY <2>4 DEF OneConversion, Converters
<1> QED BY <1>1, IntakeInvariant, PTL

\* A submission that says CONVERTED has, for every component of its form, a DAG
\* with all its nodes, whichever statement raised in whichever other request,
\* until its engagement is reset or purged.
THEOREM ConvertsWhole == IntakeSpec => []ConvertedWhole
<1>1. WholeInv => ConvertedWhole
  BY DEF WholeInv, SubWhole, ConvertedWhole
<1> QED BY <1>1, IntakeInvariant, PTL
-----------------------------------------------------------------------------
(* The graph of a finished DAG *)

LEMMA LeastNumber ==
  ASSUME NEW T, T \subseteq Nat, T # {}
  PROVE  \E x \in T : \A y \in T : x <= y
<1>1. PICK x \in T : \A y \in T : ~(<<y, x>> \in OpToRel(<, Nat))
  BY NatLessThanWellFounded, WFMin
<1>2. \A y \in T : ~(y < x)
  BY <1>1 DEF OpToRel
<1> QED BY <1>2

LEMMA Upwards ==
  ASSUME NEW S, 0 \in S, \A n \in Nat : n \in S => n + 1 \in S
  PROVE  \A n \in Nat : n \in S
<1> SUFFICES ASSUME {n \in Nat : n \notin S} # {} PROVE FALSE
  OBVIOUS
<1> DEFINE out == {n \in Nat : n \notin S}
<1>1. PICK x \in out : \A y \in out : x <= y
  <2> HIDE DEF out
  <2>1. out \subseteq Nat /\ out # {}
    BY DEF out
  <2> QED BY <2>1, LeastNumber
<1>2. x # 0 /\ x - 1 \in Nat /\ x - 1 \notin out /\ (x - 1) + 1 = x
  BY <1>1
<1> QED BY <1>1, <1>2

\* What Follows computes, step by step.
Paths(P, E, n) ==
  P = [k \in 0..n |-> IF k = 0 THEN E ELSE Prolonged(P[k - 1], E)]

LEMMA PathsExist ==
  ASSUME NEW E, NEW n \in Nat
  PROVE  \E P : Paths(P, E, n)
<1> DEFINE S == {m \in Nat : \E P : Paths(P, E, m)}
<1>1. 0 \in S
  <2> DEFINE P == [k \in 0..0 |-> E]
  <2>1. P = [k \in 0..0 |-> IF k = 0 THEN E ELSE Prolonged(P[k - 1], E)]
    OBVIOUS
  <2>2. Paths(P, E, 0)
    BY <2>1 DEF Paths
  <2> QED BY <2>2
<1>2. ASSUME NEW m \in Nat, m \in S PROVE m + 1 \in S
  <2>1. PICK P : Paths(P, E, m)
    BY <1>2
  <2> DEFINE Q == [k \in 0..(m + 1) |-> IF k = m + 1 THEN Prolonged(P[m], E) ELSE P[k]]
             R == [k \in 0..(m + 1) |-> IF k = 0 THEN E ELSE Prolonged(Q[k - 1], E)]
  <2>2. \A k \in 0..m : P[k] = IF k = 0 THEN E ELSE Prolonged(P[k - 1], E)
    BY <2>1 DEF Paths
  <2>3. \A k \in 0..(m + 1) : Q[k] = R[k]
    <3> SUFFICES ASSUME NEW k \in 0..(m + 1) PROVE Q[k] = R[k]
      OBVIOUS
    <3>1. CASE k = m + 1
      BY <3>1
    <3>2. CASE k # m + 1
      BY <2>2, <3>2
    <3> QED BY <3>1, <3>2
  <2>4. Q = R
    BY <2>3
  <2> HIDE DEF Q
  <2>5. Paths(Q, E, m + 1)
    BY <2>4 DEF Paths
  <2> QED BY <2>5
<1> HIDE DEF S
<1>3. n \in S
  BY <1>1, <1>2, Upwards
<1> QED BY <1>3 DEF S

LEMMA FollowsSteps ==
  ASSUME NEW E
  PROVE  \E P : /\ P[0] = E /\ P[3 * Docs] = Follows(E)
                /\ \A k \in 0..(3 * Docs - 1) : P[k + 1] = Prolonged(P[k], E)
<1>1. 3 * Docs \in Nat /\ 3 * Docs # 0
  BY IntakeAssumption
<1> DEFINE P == CHOOSE f : f = [k \in 0..(3 * Docs) |->
                                  IF k = 0 THEN E ELSE Prolonged(f[k - 1], E)]
<1>2. P = [k \in 0..(3 * Docs) |-> IF k = 0 THEN E ELSE Prolonged(P[k - 1], E)]
  <2>1. \E f : f = [k \in 0..(3 * Docs) |-> IF k = 0 THEN E ELSE Prolonged(f[k - 1], E)]
    BY <1>1, PathsExist DEF Paths
  <2> QED BY <2>1
<1>3. Follows(E) = P[3 * Docs]
  BY DEF Follows
<1> HIDE DEF P
<1>4. P[0] = E
  BY <1>1, <1>2
<1>5. ASSUME NEW k \in 0..(3 * Docs - 1) PROVE P[k + 1] = Prolonged(P[k], E)
  <2>1. k + 1 \in 0..(3 * Docs) /\ k + 1 # 0 /\ (k + 1) - 1 = k
    BY <1>1
  <2> QED BY <1>2, <2>1
<1> QED BY <1>3, <1>4, <1>5
-----------------------------------------------------------------------------
DocNode == {"TASK", "QA"} \X (1..Docs)
GraphNode == DocNode \cup ({"GATE"} \X Phases)

\* The graph without the gates, and with them.
PairEdges == {<<Task(d), Qa(d)>> : d \in 1..Docs} \cup OrderEdges(1..Docs)
AllEdges == PairEdges \cup GateEdges

\* A node stands after those of earlier phases; within its phase a gate is
\* last, a document stands by its rank, a TASK before its QA.
PhaseOfNode(n) == IF n[1] = "GATE" THEN n[2] ELSE DocPhase[n[2]]
InPhase(rank, n) ==
  IF n[1] = "GATE" THEN 2 * Docs + 2
  ELSE 2 * rank[n[2]] + (IF n[1] = "QA" THEN 1 ELSE 0)
Sooner(rank, m, n) ==
  \/ PhaseOfNode(m) < PhaseOfNode(n)
  \/ PhaseOfNode(m) = PhaseOfNode(n) /\ InPhase(rank, m) < InPhase(rank, n)

Ranks == [1..Docs -> 1..Docs]

LEMMA PhasesKnown ==
  /\ Phases \subseteq Nat /\ IsFiniteSet(Phases)
  /\ Cardinality(Phases) \in Nat /\ Cardinality(Phases) <= Docs
  /\ \A d \in 1..Docs : DocPhase[d] \in Phases
<1>1. DocPhase \in Surjection(1..Docs, Phases)
  BY IntakeAssumption DEF Phases, Surjection
<1>2. IsFiniteSet(1..Docs) /\ Cardinality(1..Docs) = Docs
  BY IntakeAssumption, FS_Interval
<1>3. IsFiniteSet(Phases) /\ Cardinality(Phases) <= Docs
  BY <1>1, <1>2, FS_Surjection
<1>4. Cardinality(Phases) \in Nat
  BY <1>3, FS_CardinalityType
<1> QED BY <1>3, <1>4, IntakeAssumption DEF Phases

LEMMA DocTyped ==
  ASSUME NEW rank \in Ranks, NEW d \in 1..Docs
  PROVE  DocPhase[d] \in Nat /\ rank[d] \in Nat /\ rank[d] \in 1..Docs
<1>1. DocPhase \in [1..Docs -> Nat] /\ rank \in [1..Docs -> 1..Docs] /\ Docs \in Nat
  BY IntakeAssumption DEF Ranks
<1>2. DocPhase[d] \in Nat /\ rank[d] \in 1..Docs
  BY <1>1
<1> QED BY <1>1, <1>2

LEMMA PlacesTyped ==
  ASSUME NEW rank \in Ranks, NEW n \in GraphNode
  PROVE  PhaseOfNode(n) \in Nat /\ InPhase(rank, n) \in Nat
<1>1. CASE n \in DocNode
  <2>1. n[1] # "GATE" /\ n[2] \in 1..Docs
    BY <1>1 DEF DocNode
  <2>2. DocPhase[n[2]] \in Nat /\ rank[n[2]] \in Nat
    BY <2>1, DocTyped
  <2> QED BY <2>1, <2>2 DEF PhaseOfNode, InPhase
<1>2. CASE n \in {"GATE"} \X Phases
  <2>1. n[1] = "GATE" /\ n[2] \in Nat /\ Docs \in Nat
    BY <1>2, IntakeAssumption, PhasesKnown
  <2> QED BY <2>1 DEF PhaseOfNode, InPhase
<1> QED BY <1>1, <1>2 DEF GraphNode

LEMMA SoonerOrders ==
  ASSUME NEW rank \in Ranks, NEW l \in GraphNode, NEW m \in GraphNode, NEW n \in GraphNode
  PROVE  /\ ~Sooner(rank, n, n)
         /\ Sooner(rank, l, m) /\ Sooner(rank, m, n) => Sooner(rank, l, n)
<1> DEFINE at(x) == PhaseOfNode(x)
           in(x) == InPhase(rank, x)
<1>1. \A x \in {l, m, n} : at(x) \in Nat /\ in(x) \in Nat
  BY PlacesTyped
<1> HIDE DEF at, in
<1>2. \A x, y \in {l, m, n} :
        Sooner(rank, x, y) <=> at(x) < at(y) \/ (at(x) = at(y) /\ in(x) < in(y))
  BY DEF Sooner, at, in
<1> QED BY <1>1, <1>2

LEMMA EdgesForward ==
  ASSUME NEW rank \in Ranks,
         \A b \in IntraPhase \cap ((1..Docs) \X (1..Docs)) : rank[b[1]] < rank[b[2]],
         NEW e \in AllEdges
  PROVE  e \in GraphNode \X GraphNode /\ Sooner(rank, e[1], e[2])
<1> USE DEF PhaseOfNode, InPhase, Sooner, Task, Qa, GateNode
<1>1. CASE e \in {<<Task(d), Qa(d)>> : d \in 1..Docs}
  <2>1. PICK d \in 1..Docs : e = <<Task(d), Qa(d)>>
    BY <1>1
  <2>2. DocPhase[d] \in Nat /\ rank[d] \in Nat
    BY DocTyped
  <2>3. Task(d) \in GraphNode /\ Qa(d) \in GraphNode
    BY DEF GraphNode, DocNode
  <2> QED BY <2>1, <2>2, <2>3
<1>2. CASE e \in OrderEdges(1..Docs)
  <2>1. PICK b \in IntraPhase \cap ((1..Docs) \X (1..Docs)) : e = <<Qa(b[1]), Task(b[2])>>
    BY <1>2 DEF OrderEdges
  <2>2. b[1] \in 1..Docs /\ b[2] \in 1..Docs
    BY <2>1
  <2>3. DocPhase[b[1]] = DocPhase[b[2]] /\ rank[b[1]] < rank[b[2]]
    BY <2>1, DependencyAssumption
  <2>4. DocPhase[b[1]] \in Nat /\ rank[b[1]] \in Nat /\ rank[b[2]] \in Nat
    BY <2>2, DocTyped
  <2>5. Qa(b[1]) \in GraphNode /\ Task(b[2]) \in GraphNode
    BY <2>2 DEF GraphNode, DocNode
  <2> QED BY <2>1, <2>3, <2>4, <2>5
<1>3. CASE e \in GateEdges
  <2>1. PICK p \in Active :
          \/ \E d \in 1..Docs : DocPhase[d] = p[1] /\ e = <<Qa(d), GateNode(p[1])>>
          \/ \E d \in 1..Docs : DocPhase[d] = p[2] /\ e = <<GateNode(p[1]), Task(d)>>
    BY <1>3 DEF GateEdges
  <2>2. p[1] \in Phases /\ p[2] \in Phases /\ p[1] < p[2] /\ p[1] \in Nat /\ p[2] \in Nat
    BY <2>1, PhasesKnown DEF Active
  <2>3. GateNode(p[1]) \in GraphNode
    BY <2>2 DEF GraphNode
  <2>4. ASSUME NEW d \in 1..Docs, DocPhase[d] = p[1], e = <<Qa(d), GateNode(p[1])>>
        PROVE  e \in GraphNode \X GraphNode /\ Sooner(rank, e[1], e[2])
    <3>1. Qa(d) \in GraphNode /\ rank[d] \in 1..Docs
      BY DEF GraphNode, DocNode, Ranks
    <3>2. 2 * rank[d] + 1 < 2 * Docs + 2
      BY <3>1, IntakeAssumption
    <3> QED BY <2>2, <2>3, <2>4, <3>1, <3>2
  <2>5. ASSUME NEW d \in 1..Docs, DocPhase[d] = p[2], e = <<GateNode(p[1]), Task(d)>>
        PROVE  e \in GraphNode \X GraphNode /\ Sooner(rank, e[1], e[2])
    <3>1. Task(d) \in GraphNode
      BY DEF GraphNode, DocNode
    <3> QED BY <2>2, <2>3, <2>5, <3>1
  <2> QED BY <2>1, <2>4, <2>5
<1> QED BY <1>1, <1>2, <1>3 DEF AllEdges, PairEdges

\* The graph has no cycle.
LEMMA NoCycle == \A n : <<n, n>> \notin Follows(AllEdges)
<1>1. PICK rank \in Ranks :
        \A b \in IntraPhase \cap ((1..Docs) \X (1..Docs)) : rank[b[1]] < rank[b[2]]
  BY DependencyAssumption DEF Ranks
<1>2. PICK P : /\ P[0] = AllEdges /\ P[3 * Docs] = Follows(AllEdges)
               /\ \A k \in 0..(3 * Docs - 1) : P[k + 1] = Prolonged(P[k], AllEdges)
  BY FollowsSteps
<1> DEFINE good(R) == \A e \in R : e \in GraphNode \X GraphNode /\ Sooner(rank, e[1], e[2])
           S == {k \in Nat : k <= 3 * Docs => good(P[k])}
<1>3. good(AllEdges)
  BY <1>1, EdgesForward
<1>4. ASSUME NEW R, good(R) PROVE good(Prolonged(R, AllEdges))
  <2> SUFFICES ASSUME NEW e \in Prolonged(R, AllEdges), e \notin R
               PROVE  e \in GraphNode \X GraphNode /\ Sooner(rank, e[1], e[2])
    BY <1>4
  <2>1. PICK x \in R, y \in AllEdges : x[2] = y[1] /\ e = <<x[1], y[2]>>
    BY DEF Prolonged
  <2>2. /\ x \in GraphNode \X GraphNode /\ Sooner(rank, x[1], x[2])
        /\ y \in GraphNode \X GraphNode /\ Sooner(rank, y[1], y[2])
    BY <1>3, <1>4, <2>1
  <2>3. Sooner(rank, x[1], y[2])
    BY <2>1, <2>2, SoonerOrders
  <2> QED BY <2>1, <2>2, <2>3
<1> HIDE DEF good
<1>5. 0 \in S
  BY <1>2, <1>3
<1>6. ASSUME NEW k \in Nat, k \in S PROVE k + 1 \in S
  <2> SUFFICES ASSUME k + 1 <= 3 * Docs PROVE good(P[k + 1])
    OBVIOUS
  <2>1. k \in 0..(3 * Docs - 1) /\ k <= 3 * Docs
    BY IntakeAssumption
  <2> QED BY <1>2, <1>4, <1>6, <2>1
<1>7. 3 * Docs \in S /\ 3 * Docs \in Nat
  <2> HIDE DEF S
  <2> QED BY <1>5, <1>6, Upwards, IntakeAssumption
<1>8. good(Follows(AllEdges))
  BY <1>2, <1>7
<1>9. ASSUME NEW n, <<n, n>> \in Follows(AllEdges) PROVE FALSE
  <2>1. n \in GraphNode /\ Sooner(rank, n, n)
    BY <1>8, <1>9 DEF good
  <2> QED BY <2>1, SoonerOrders
<1> QED BY <1>9
\* P is what Follows computes for the whole graph.
Steps(P) ==
  /\ P[0] = AllEdges /\ P[3 * Docs] = Follows(AllEdges)
  /\ \A k \in 0..(3 * Docs - 1) : P[k + 1] = Prolonged(P[k], AllEdges)

LEMMA StepsGrow ==
  ASSUME NEW P, Steps(P), NEW k \in 0..(3 * Docs)
  PROVE  P[k] \subseteq Follows(AllEdges)
<1> DEFINE S == {m \in Nat : k + m <= 3 * Docs => P[k] \subseteq P[k + m]}
<1>0. Docs \in Nat /\ 3 * Docs \in Nat /\ k \in Nat
  BY IntakeAssumption
<1>1. 0 \in S
  BY <1>0
<1>2. ASSUME NEW m \in Nat, m \in S PROVE m + 1 \in S
  <2> SUFFICES ASSUME k + (m + 1) <= 3 * Docs PROVE P[k] \subseteq P[k + (m + 1)]
    OBVIOUS
  <2>1. /\ k + m <= 3 * Docs /\ k + m \in 0..(3 * Docs - 1)
        /\ k + (m + 1) = (k + m) + 1
    BY <1>0
  <2>2. P[(k + m) + 1] = Prolonged(P[k + m], AllEdges)
    BY <2>1 DEF Steps
  <2> QED BY <1>2, <2>1, <2>2 DEF Prolonged
<1>3. 3 * Docs - k \in Nat /\ k + (3 * Docs - k) = 3 * Docs
  BY <1>0
<1>4. 3 * Docs - k \in S
  <2> HIDE DEF S
  <2> QED BY <1>1, <1>2, <1>3, Upwards
<1> QED BY <1>3, <1>4 DEF Steps

LEMMA OneLonger ==
  ASSUME NEW P, Steps(P), NEW k \in 0..(3 * Docs - 1), NEW x, NEW y, NEW z,
         <<x, y>> \in P[k], <<y, z>> \in AllEdges
  PROVE  <<x, z>> \in P[k + 1]
<1>1. P[k + 1] = Prolonged(P[k], AllEdges)
  BY DEF Steps
<1>2. <<<<x, y>>, <<y, z>>>> \in {e \in P[k] \X AllEdges : e[1][2] = e[2][1]}
  OBVIOUS
<1> QED BY <1>1, <1>2 DEF Prolonged

\* The phases from p on and before q.
Between(p, q) == {x \in Phases : p <= x /\ x < q}

LEMMA OneMorePhase ==
  ASSUME NEW p \in Phases, NEW q \in Phases, p < q
  PROVE  \E r \in Phases :
           /\ p <= r /\ r < q /\ <<r, q>> \in Active
           /\ Cardinality(Between(p, q)) = Cardinality(Between(p, r)) + 1
           /\ Cardinality(Between(p, r)) \in Nat
           /\ Cardinality(Between(p, q)) <= Docs
           /\ r = p => Cardinality(Between(p, r)) = 0
           /\ p < r => Cardinality(Between(p, r)) > 0
<1> DEFINE earlier == {x \in Phases : x < q}
           gaps == {q - x : x \in earlier}
<1>0. Phases \subseteq Nat /\ IsFiniteSet(Phases) /\ Docs \in Nat
      /\ p \in Nat /\ q \in Nat
  BY PhasesKnown, IntakeAssumption
<1>1. PICK g \in gaps : \A h \in gaps : g <= h
  <2>1. gaps \subseteq Nat /\ q - p \in gaps
    BY <1>0
  <2> HIDE DEF gaps
  <2> QED BY <2>1, LeastNumber
<1>2. PICK r \in earlier : g = q - r
  BY <1>1
<1>3. r \in Phases /\ r \in Nat /\ r < q /\ \A x \in Phases : x < q => x <= r
  <2>1. r \in Phases /\ r \in Nat /\ r < q
    BY <1>0, <1>2
  <2>2. ASSUME NEW x \in Phases, x < q PROVE x <= r
    <3>1. q - x \in gaps /\ x \in Nat
      BY <1>0, <2>2
    <3>2. q - r <= q - x
      BY <1>1, <1>2, <3>1
    <3> QED BY <1>0, <2>1, <3>1, <3>2
  <2> QED BY <2>1, <2>2
<1>4. p <= r
  BY <1>3
<1>5. <<r, q>> \in Active
  <2>1. \A x \in Phases : x \in Nat
    BY <1>0
  <2> QED BY <1>0, <1>3, <2>1 DEF Active
<1>6. Between(p, q) = Between(p, r) \cup {r} /\ r \notin Between(p, r)
  <2>1. \A x \in Phases : x \in Nat /\ (x < q => x <= r)
    BY <1>0, <1>3
  <2>2. \A x \in Phases : p <= x /\ x < q <=> (p <= x /\ x < r) \/ x = r
    BY <1>0, <1>3, <1>4, <2>1
  <2>3. ~(r < r)
    BY <1>3
  <2> HIDE DEF earlier, gaps
  <2> QED BY <1>3, <2>2, <2>3 DEF Between
<1>7. \A x \in Phases : IsFiniteSet(Between(p, x)) /\ Cardinality(Between(p, x)) \in Nat
                        /\ Cardinality(Between(p, x)) <= Cardinality(Phases)
  <2>1. \A x \in Phases : Between(p, x) \subseteq Phases
    BY DEF Between
  <2> QED BY <1>0, <2>1, FS_Subset, FS_CardinalityType
<1>8. Cardinality(Between(p, q)) = Cardinality(Between(p, r)) + 1
  BY <1>3, <1>6, <1>7, FS_AddElement
<1>9. Cardinality(Between(p, q)) <= Docs
  BY <1>0, <1>7, PhasesKnown, FS_CardinalityType
<1>10. ASSUME r = p PROVE Cardinality(Between(p, r)) = 0
  <2>1. \A x \in Phases : ~(p <= x /\ x < p)
    BY <1>0
  <2>2. Between(p, r) = {}
    BY <1>10, <2>1 DEF Between
  <2> QED BY <2>2, FS_EmptySet
<1>11. ASSUME p < r PROVE Cardinality(Between(p, r)) > 0
  <2>1. p \in Between(p, r)
    BY <1>0, <1>11 DEF Between
  <2>2. Cardinality(Between(p, r)) # 0
    BY <1>3, <1>7, <2>1, FS_EmptySet
  <2> QED BY <1>3, <1>7, <2>2
<1> QED BY <1>3, <1>4, <1>5, <1>7, <1>8, <1>9, <1>10, <1>11

\* Every phase waits for those before it.
LEMMA PhasesFollow ==
  ASSUME NEW a \in 1..Docs, NEW b \in 1..Docs, DocPhase[a] < DocPhase[b]
  PROVE  <<Qa(a), Task(b)>> \in Follows(AllEdges)
<1>1. PICK P : Steps(P)
  BY FollowsSteps DEF Steps
<1> DEFINE p == DocPhase[a]
           n(q) == Cardinality(Between(p, q))
           bad == {q \in Phases : /\ p < q
                                  /\ \E d \in 1..Docs : DocPhase[d] = q
                                       /\ <<Qa(a), Task(d)>> \notin P[3 * n(q) - 2]}
<1>2. p \in Phases /\ Docs \in Nat /\ Phases \subseteq Nat
  BY PhasesKnown, IntakeAssumption
<1>3. ASSUME bad # {} PROVE FALSE
  <2>1. PICK q \in bad : \A x \in bad : q <= x
    <3>1. bad \subseteq Nat
      BY <1>2
    <3> HIDE DEF bad
    <3> QED BY <1>3, <3>1, LeastNumber
  <2>2. q \in Phases /\ p < q /\ q \in Nat
    BY <1>2, <2>1
  <2>3. PICK d \in 1..Docs : DocPhase[d] = q /\ <<Qa(a), Task(d)>> \notin P[3 * n(q) - 2]
    BY <2>1
  <2>4. PICK r \in Phases :
          /\ p <= r /\ r < q /\ <<r, q>> \in Active
          /\ n(q) = n(r) + 1 /\ n(r) \in Nat /\ n(q) <= Docs
          /\ r = p => n(r) = 0
          /\ p < r => n(r) > 0
    BY <1>2, <2>2, OneMorePhase
  <2>5. r \in Nat /\ p \in Nat
    BY <1>2, <2>4
  <2>6. <<GateNode(r), Task(d)>> \in AllEdges
    BY <2>3, <2>4 DEF AllEdges, GateEdges
  <2>7. CASE r = p
    <3>1. <<Qa(a), GateNode(r)>> \in AllEdges
      BY <2>4, <2>7 DEF AllEdges, GateEdges
    <3>2. <<Qa(a), GateNode(r)>> \in P[0]
      BY <1>1, <3>1 DEF Steps
    <3>3. 0 \in 0..(3 * Docs - 1) /\ 3 * n(q) - 2 = 0 + 1
      BY <1>2, <2>4, <2>7
    <3>4. <<Qa(a), Task(d)>> \in P[0 + 1]
      BY <1>1, <2>6, <3>2, <3>3, OneLonger
    <3> QED BY <2>3, <3>3, <3>4
  <2>8. CASE p < r
    <3>1. r \notin bad
      BY <2>1, <2>2, <2>4, <2>5
    <3>2. PICK e \in 1..Docs : DocPhase[e] = r
      BY <2>4 DEF Phases
    <3> DEFINE i == 3 * n(r) - 2
    <3>3. <<Qa(a), Task(e)>> \in P[i]
      BY <2>4, <2>8, <3>1, <3>2
    <3>4. <<Task(e), Qa(e)>> \in AllEdges
      BY DEF AllEdges, PairEdges
    <3>5. <<Qa(e), GateNode(r)>> \in AllEdges
      BY <2>4, <3>2 DEF AllEdges, GateEdges
    <3>6. /\ i \in 0..(3 * Docs - 1) /\ i + 1 \in 0..(3 * Docs - 1)
          /\ (i + 1) + 1 \in 0..(3 * Docs - 1)
          /\ 3 * n(q) - 2 = ((i + 1) + 1) + 1
      <4> HIDE DEF n
      <4> QED BY <1>2, <2>4, <2>8
    <3> HIDE DEF i, n
    <3>7. <<Qa(a), Qa(e)>> \in P[i + 1]
      BY <1>1, <3>3, <3>4, <3>6, OneLonger
    <3>8. <<Qa(a), GateNode(r)>> \in P[(i + 1) + 1]
      BY <1>1, <3>5, <3>6, <3>7, OneLonger
    <3>9. <<Qa(a), Task(d)>> \in P[((i + 1) + 1) + 1]
      BY <1>1, <2>6, <3>6, <3>8, OneLonger
    <3> QED BY <2>3, <3>6, <3>9
  <2> QED BY <2>4, <2>5, <2>7, <2>8
<1>4. DocPhase[b] \in Phases /\ p < DocPhase[b]
  BY PhasesKnown
<1>5. <<Qa(a), Task(b)>> \in P[3 * n(DocPhase[b]) - 2]
  BY <1>3, <1>4
<1>6. 3 * n(DocPhase[b]) - 2 \in 0..(3 * Docs)
  <2>1. PICK m \in Nat : n(DocPhase[b]) = m + 1 /\ m + 1 <= Docs
    BY <1>2, <1>4, OneMorePhase
  <2> HIDE DEF n
  <2>2. 3 * (m + 1) - 2 \in 0..(3 * Docs)
    BY <1>2, <2>1
  <2> QED BY <2>1, <2>2
<1> HIDE DEF n
<1> QED BY <1>1, <1>5, <1>6, StepsGrow

\* A document waits for those it depends on.
LEMMA OrderFollows ==
  ASSUME NEW a \in 1..Docs, NEW b \in 1..Docs, <<a, b>> \in IntraPhase
  PROVE  <<Qa(a), Task(b)>> \in Follows(AllEdges)
<1>1. PICK P : Steps(P)
  BY FollowsSteps DEF Steps
<1>2. <<Qa(a), Task(b)>> \in AllEdges
  BY DEF AllEdges, PairEdges, OrderEdges
<1>3. 0 \in 0..(3 * Docs)
  BY IntakeAssumption
<1> QED BY <1>1, <1>2, <1>3, StepsGrow DEF Steps
-----------------------------------------------------------------------------
\* A DAG has no node yet, or the pairs, or the gates too.
Paired(nodes) ==
  \A d \in 1..Docs : /\ Task(d) \in DOMAIN nodes /\ Qa(d) \in DOMAIN nodes
                     /\ nodes[Task(d)] = nodes[Qa(d)]
Drawn(g) ==
  \/ DOMAIN g.nodes = {} /\ g.edges = {} /\ g.total = 0
  \/ Paired(g.nodes) /\ g.edges = PairEdges /\ g.total = 0
  \/ Paired(g.nodes) /\ g.edges = AllEdges
DrawnInv == \A i \in 1..Len(dags) : Drawn(dags[i])

LEMMA PairsPaired == \A without : Paired(Pairs(without)) /\ DOMAIN Pairs(without) # {}
<1> SUFFICES ASSUME NEW without PROVE Paired(Pairs(without)) /\ DOMAIN Pairs(without) # {}
  OBVIOUS
<1>1. ASSUME NEW d \in 1..Docs
      PROVE  /\ Task(d) \in DOMAIN Pairs(without) /\ Qa(d) \in DOMAIN Pairs(without)
             /\ Pairs(without)[Task(d)] = Pairs(without)[Qa(d)]
  <2>1. /\ Task(d) \in {"TASK", "QA"} \X (1..Docs) /\ Task(d)[2] = d
        /\ Qa(d) \in {"TASK", "QA"} \X (1..Docs) /\ Qa(d)[2] = d
    BY DEF Task, Qa
  <2> QED BY <2>1 DEF Pairs
<1>2. 1 \in 1..Docs
  BY IntakeAssumption
<1> QED BY <1>1, <1>2 DEF Paired

LEMMA GatesPaired == ASSUME NEW nodes, Paired(nodes) PROVE Paired(WithGates(nodes))
<1> SUFFICES ASSUME NEW d \in 1..Docs
             PROVE  /\ Task(d) \in DOMAIN WithGates(nodes) /\ Qa(d) \in DOMAIN WithGates(nodes)
                    /\ WithGates(nodes)[Task(d)] = WithGates(nodes)[Qa(d)]
  BY DEF Paired
<1>1. Task(d) \notin Gates /\ Qa(d) \notin Gates
  BY DEF Gates, GateNode, Task, Qa
<1>2. Task(d) \in DOMAIN nodes /\ Qa(d) \in DOMAIN nodes /\ nodes[Task(d)] = nodes[Qa(d)]
  BY DEF Paired
<1> QED BY <1>1, <1>2 DEF WithGates

LEMMA StepDrawn == TypesInv /\ DrawnInv /\ [IntakeNext]_intakeVars => DrawnInv'
<1> SUFFICES ASSUME TypesInv, DrawnInv, [IntakeNext]_intakeVars PROVE DrawnInv'
  OBVIOUS
<1>0. /\ dags \in Seq(Dag) /\ Len(dags) \in Nat /\ DOMAIN dags = 1..Len(dags)
      /\ \A i \in 1..Len(dags) : dags[i] \in Dag
  BY DEF TypesInv, IntakeTypes
<1>1. CASE dags' = dags
  BY <1>1 DEF DrawnInv
<1>2. ASSUME NEW c \in Client, CreateDag(c) PROVE DrawnInv'
  <2> DEFINE g == [eng |-> op[c].eng, comp |-> op[c].comp, edges |-> {},
                   status |-> "INITIALIZING", nodes |-> <<>>, total |-> 0]
  <2>1. Drawn(g)
    BY DEF Drawn
  <2>2. dags' = Append(dags, g)
    BY <1>2 DEF CreateDag
  <2> HIDE DEF g
  <2>3. /\ Len(dags') = Len(dags) + 1 /\ dags'[Len(dags) + 1] = g
        /\ \A i \in 1..Len(dags) : dags'[i] = dags[i]
    BY <1>0, <2>2
  <2> QED BY <1>0, <2>1, <2>3 DEF DrawnInv
<1>3. ASSUME NEW c \in Client, InsertNodes(c) PROVE DrawnInv'
  <2> DEFINE k == op[c].dag
             g == [dags[k] EXCEPT !.nodes = Pairs(op[c].without), !.edges = PairEdges]
  <2>1. k \in 1..Len(dags) /\ dags[k] \in Dag
    BY <1>0, <1>3, Parts DEF InsertNodes, Building
  <2>2. dags[k].total = 0
    <3>1. DOMAIN dags[k].nodes = {} /\ Drawn(dags[k])
      BY <1>3, <2>1 DEF InsertNodes, Row, DrawnInv
    <3>2. ~Paired(dags[k].nodes)
      <4>1. 1 \in 1..Docs
        BY IntakeAssumption
      <4> QED BY <3>1, <4>1 DEF Paired
    <3> QED BY <3>1, <3>2 DEF Drawn
  <2>3. g.nodes = Pairs(op[c].without) /\ g.edges = PairEdges /\ g.total = 0
    BY <2>1, <2>2 DEF Dag
  <2>4. Drawn(g)
    BY <2>3, PairsPaired DEF Drawn
  <2>5. dags' = [dags EXCEPT ![k] = g]
    BY <1>3 DEF InsertNodes, PairEdges
  <2> HIDE DEF g, k
  <2>6. /\ Len(dags') = Len(dags) /\ dags'[k] = g
        /\ \A i \in 1..Len(dags) : i # k => dags'[i] = dags[i]
    BY <1>0, <2>1, <2>5
  <2> QED BY <2>4, <2>6 DEF DrawnInv
<1>4. ASSUME NEW c \in Client, InsertGates(c) PROVE DrawnInv'
  <2> DEFINE k == op[c].dag
             g == [dags[k] EXCEPT !.nodes = WithGates(@), !.edges = @ \cup GateEdges,
                                  !.status = IF @ = "gone" THEN @ ELSE "VALID",
                                  !.total = 2 * Docs + Cardinality(Gates)]
  <2>1. k \in 1..Len(dags) /\ dags[k] \in Dag
    BY <1>0, <1>4, Parts DEF InsertGates, Building
  <2>2. Paired(dags[k].nodes) /\ dags[k].edges \cup GateEdges = AllEdges
    <3>1. DOMAIN dags[k].nodes # {} /\ Drawn(dags[k])
      BY <1>4, <2>1 DEF InsertGates, Row, DrawnInv
    <3> QED BY <3>1 DEF Drawn, AllEdges
  <2>3. g.nodes = WithGates(dags[k].nodes) /\ g.edges = dags[k].edges \cup GateEdges
    BY <2>1 DEF Dag
  <2>4. Drawn(g)
    BY <2>2, <2>3, GatesPaired DEF Drawn
  <2>5. dags' = [dags EXCEPT ![k] = g]
    BY <1>4 DEF InsertGates
  <2> HIDE DEF g, k
  <2>6. /\ Len(dags') = Len(dags) /\ dags'[k] = g
        /\ \A i \in 1..Len(dags) : i # k => dags'[i] = dags[i]
    BY <1>0, <2>1, <2>5
  <2> QED BY <2>4, <2>6 DEF DrawnInv
<1>5. ASSUME NEW S, dags' = Erase(S) PROVE DrawnInv'
  <2> DEFINE gone(i) ==
        [dags[i] EXCEPT !.status = "gone", !.nodes = <<>>, !.edges = {}, !.total = 0]
  <2>1. ASSUME NEW i \in 1..Len(dags) PROVE Drawn(gone(i))
    <3>1. gone(i).nodes = <<>> /\ gone(i).edges = {} /\ gone(i).total = 0
      BY <1>0 DEF Dag
    <3> QED BY <3>1 DEF Drawn
  <2>2. dags' = [i \in 1..Len(dags) |-> IF i \in S THEN gone(i) ELSE dags[i]]
    BY <1>0, <1>5 DEF Erase
  <2> HIDE DEF gone
  <2>3. Len(dags') = Len(dags)
    BY <1>0, <2>2
  <2> QED BY <2>1, <2>2, <2>3 DEF DrawnInv
<1>6. ASSUME NEW c \in Client, StartDags(c) PROVE DrawnInv'
  <2> DEFINE run(i) == [dags[i] EXCEPT !.status = "RUNNING"]
  <2>1. ASSUME NEW i \in 1..Len(dags) PROVE Drawn(run(i))
    <3>1. /\ run(i).nodes = dags[i].nodes /\ run(i).edges = dags[i].edges
          /\ run(i).total = dags[i].total
      BY <1>0 DEF Dag
    <3> QED BY <3>1 DEF DrawnInv, Drawn
  <2>2. dags' = [i \in 1..Len(dags) |-> IF i \in Of(op[c].eng) THEN run(i) ELSE dags[i]]
    BY <1>0, <1>6 DEF StartDags
  <2> HIDE DEF run
  <2>3. Len(dags') = Len(dags)
    BY <1>0, <2>2
  <2> QED BY <2>1, <2>2, <2>3 DEF DrawnInv
<1>7. CASE IntakeStops \/ UNCHANGED intakeVars
  BY <1>1, <1>7 DEF IntakeStops, intakeVars
<1>8. ASSUME NEW c \in Client,
             \/ ConvertRead(c) \/ ConvertClaim(c) \/ MakePlan(c) \/ CreateEngagement(c)
             \/ CreateProject(c) \/ ConvertDone(c) \/ ConversionFails(c)
             \/ PatchRead(c) \/ PatchWrite(c) \/ DeleteRead(c) \/ DeleteWrite(c)
             \/ Purge(c) \/ StartRead(c) \/ RebuildFails(c)
      PROVE  dags' = dags
  BY <1>8 DEF ConvertRead, ConvertClaim, MakePlan, CreateEngagement, CreateProject,
     ConvertDone, ConversionFails, PatchRead, PatchWrite, DeleteRead, DeleteWrite, Purge,
     StartRead, RebuildFails
<1>9. ASSUME NEW c \in Client, Reset(c) \/ PurgeRead(c)
      PROVE  \E S : dags' = Erase(S)
  BY <1>9 DEF Reset, PurgeRead
<1> QED BY <1>1, <1>2, <1>3, <1>4, <1>5, <1>6, <1>7, <1>8, <1>9 DEF IntakeNext

\* For every set of templates, phases and dependencies, and however often a DAG
\* is made again: what the processor and the planner insert (_insert_node, the
\* intra-phase edges, the phase gates) is a graph without a cycle in which a
\* document waits for the approval of those it depends on and of every earlier
\* phase, and a TASK and its QA are skipped together.
THEOREM GraphsCorrect == IntakeSpec => []GraphsShaped
<1>1. IntakeInit => DrawnInv
  BY DEF IntakeInit, DrawnInv
<1>2. TypesInv /\ DrawnInv => GraphsShaped
  <2> SUFFICES ASSUME TypesInv, DrawnInv, NEW i \in DOMAIN dags, dags[i].total # 0
               PROVE
        LET F == Follows(dags[i].edges) IN
          /\ \A n \in DOMAIN dags[i].nodes : <<n, n>> \notin F
          /\ \A a, b \in 1..Docs :
               <<a, b>> \in IntraPhase \/ DocPhase[a] < DocPhase[b] => <<Qa(a), Task(b)>> \in F
          /\ \A d \in 1..Docs :
               /\ <<Task(d), Qa(d)>> \in dags[i].edges
               /\ dags[i].nodes[Task(d)] = dags[i].nodes[Qa(d)]
    BY DEF GraphsShaped
  <2>1. i \in 1..Len(dags)
    BY DEF TypesInv, IntakeTypes
  <2>2. Paired(dags[i].nodes) /\ dags[i].edges = AllEdges
    BY <2>1 DEF DrawnInv, Drawn
  <2>3. \A d \in 1..Docs : <<Task(d), Qa(d)>> \in AllEdges
    BY DEF AllEdges, PairEdges
  <2> QED BY <2>2, <2>3, NoCycle, PhasesFollow, OrderFollows DEF Paired
<1>3. IntakeSpec => [](TypesInv /\ DrawnInv)
  <2>1. TypesInv /\ DrawnInv /\ [IntakeNext]_intakeVars => (TypesInv /\ DrawnInv)'
    BY StepTypes, StepDrawn
  <2> QED BY <1>1, <2>1, InitTypes, PTL DEF IntakeSpec
<1> QED BY <1>2, <1>3, PTL
-----------------------------------------------------------------------------
(* Repairs: recursive functions *)

\* A function defined by steps within a set is there.
Iterate(f, S, F, x, n) ==
  f \in [0..n -> S] /\ f[0] = x /\ \A k \in 1..n : f[k] = F[f[k - 1]]

LEMMA Iterates ==
  ASSUME NEW S, NEW F \in [S -> S], NEW x \in S, NEW n \in Nat
  PROVE  \E f : Iterate(f, S, F, x, n)
<1> DEFINE T == {m \in Nat : \E f : Iterate(f, S, F, x, m)}
<1>1. 0 \in T
  <2>1. /\ [k \in 0..0 |-> x] \in [0..0 -> S] /\ [k \in 0..0 |-> x][0] = x
        /\ \A k \in 1..0 : FALSE
    OBVIOUS
  <2>2. Iterate([k \in 0..0 |-> x], S, F, x, 0)
    BY <2>1 DEF Iterate
  <2> QED BY <2>2
<1>2. ASSUME NEW m \in Nat, m \in T PROVE m + 1 \in T
  <2>1. PICK f : f \in [0..m -> S] /\ f[0] = x /\ \A k \in 1..m : f[k] = F[f[k - 1]]
    BY <1>2 DEF Iterate
  <2> DEFINE g == [k \in 0..(m + 1) |-> IF k = m + 1 THEN F[f[m]] ELSE f[k]]
  <2>2. f[m] \in S /\ F[f[m]] \in S
    BY <2>1
  <2>3. g \in [0..(m + 1) -> S] /\ g[0] = x
    BY <2>1, <2>2
  <2>4. ASSUME NEW k \in 1..(m + 1) PROVE g[k] = F[g[k - 1]]
    <3>1. CASE k = m + 1
      <4>1. g[k] = F[f[m]] /\ k - 1 = m /\ g[k - 1] = f[m]
        BY <3>1
      <4> QED BY <4>1
    <3>2. CASE k # m + 1
      <4>1. k \in 1..m /\ g[k] = f[k] /\ g[k - 1] = f[k - 1]
        BY <3>2
      <4> QED BY <2>1, <4>1
    <3> QED BY <3>1, <3>2
  <2> HIDE DEF g
  <2>5. Iterate(g, S, F, x, m + 1)
    BY <2>3, <2>4 DEF Iterate
  <2> QED BY <2>5
<1> HIDE DEF T
<1>3. n \in T
  BY <1>1, <1>2, Upwards
<1> QED BY <1>3 DEF T

\* What every step keeps holds all along.
LEMMA KeptAlong ==
  ASSUME NEW S, NEW f, NEW n \in Nat, f[0] \in S,
         \A k \in 1..n : f[k - 1] \in S => f[k] \in S
  PROVE  \A k \in 0..n : f[k] \in S
<1> DEFINE T == {m \in Nat : m <= n => f[m] \in S}
<1>1. 0 \in T
  OBVIOUS
<1>2. ASSUME NEW m \in Nat, m \in T PROVE m + 1 \in T
  <2> SUFFICES ASSUME m + 1 <= n PROVE f[m + 1] \in S
    OBVIOUS
  <2>1. m + 1 \in 1..n /\ (m + 1) - 1 = m /\ m <= n
    OBVIOUS
  <2> QED BY <1>2, <2>1
<1>3. \A m \in Nat : m \in T
  <2> HIDE DEF T
  <2> QED BY <1>1, <1>2, Upwards
<1> QED BY <1>3
-----------------------------------------------------------------------------
(* The order of rows *)

LEMMA ByRowExact ==
  ASSUME NEW set \in SUBSET Nat, IsFiniteSet(set)
  PROVE  /\ ByRow(set) \in Seq(set) /\ Len(ByRow(set)) = Cardinality(set)
         /\ \A p \in set : \E i \in 1..Len(ByRow(set)) : ByRow(set)[i] = p
         /\ \A i, j \in 1..Len(ByRow(set)) : ByRow(set)[i] = ByRow(set)[j] => i = j
<1> DEFINE n == Cardinality(set)
           upTo(p) == {q \in set : q <= p}
           rank == [p \in set |-> Cardinality(upTo(p))]
<1>1. n \in Nat
  BY FS_CardinalityType
<1>2. ASSUME NEW p \in set
      PROVE  p \in upTo(p) /\ IsFiniteSet(upTo(p)) /\ Cardinality(upTo(p)) \in 1..n
  <2>1. upTo(p) \subseteq set /\ p \in upTo(p)
    OBVIOUS
  <2> HIDE DEF upTo
  <2>2. IsFiniteSet(upTo(p)) /\ Cardinality(upTo(p)) <= n /\ Cardinality(upTo(p)) \in Nat
    BY <2>1, FS_Subset, FS_CardinalityType
  <2>3. Cardinality(upTo(p)) # 0
    BY <2>1, <2>2, FS_EmptySet
  <2> QED BY <1>1, <2>1, <2>2, <2>3
<1>3. ASSUME NEW p \in set, NEW q \in set, p < q
      PROVE  Cardinality(upTo(p)) < Cardinality(upTo(q))
  <2>1. /\ \A x \in upTo(p) : x \in upTo(q)
        /\ q \in upTo(q) /\ q \notin upTo(p)
    BY <1>3
  <2>2. upTo(p) \in SUBSET upTo(q) /\ upTo(p) # upTo(q)
    BY <2>1
  <2> HIDE DEF upTo
  <2> QED BY <1>2, <2>2, FS_Subset
<1> HIDE DEF upTo
<1>4. rank \in Injection(set, 1..n)
  <2>1. rank \in [set -> 1..n]
    BY <1>2
  <2>2. \A p, q \in set : rank[p] = rank[q] => p = q
    BY <1>2, <1>3
  <2> QED BY <2>1, <2>2 DEF Injection, IsInjective
<1>5. rank \in Surjection(set, 1..n)
  BY <1>1, <1>4, FS_Interval, FS_Injection
<1>6. \A i \in 1..n : \E p \in set : Cardinality(upTo(p)) = i
  BY <1>5 DEF Surjection
<1>7. ByRow(set) = [i \in 1..n |-> CHOOSE p \in set : Cardinality(upTo(p)) = i]
  BY DEF ByRow, upTo
<1>8. \A i \in 1..n : ByRow(set)[i] \in set /\ Cardinality(upTo(ByRow(set)[i])) = i
  BY <1>6, <1>7
<1>9. ByRow(set) \in [1..n -> set]
  BY <1>7, <1>8
<1>10. ByRow(set) \in Seq(set) /\ Len(ByRow(set)) = n
  BY <1>1, <1>9
<1>11. ASSUME NEW p \in set
       PROVE  ByRow(set)[Cardinality(upTo(p))] = p
  <2> DEFINE q == ByRow(set)[Cardinality(upTo(p))]
  <2>1. q \in set /\ Cardinality(upTo(q)) = Cardinality(upTo(p))
    BY <1>2, <1>8
  <2> HIDE DEF q
  <2>2. ~(p < q) /\ ~(q < p)
    BY <1>2, <1>3, <2>1
  <2>3. q = p
    BY <2>1, <2>2
  <2> QED BY <2>3 DEF q
<1> QED BY <1>2, <1>8, <1>10, <1>11
-----------------------------------------------------------------------------
(* The table that repairs change *)

RepairStage == {"idle", "parent", "counted", "node", "half", "done", "error"}

RepairTypes ==
  /\ \E k \in Nat : injectedBy \in [1..k -> 0..k]
  /\ edgeRows \subseteq NodeRows \X NodeRows
  /\ repairPc \in [Repairer -> RepairStage]
  /\ failedNode \in [Repairer -> Nat] /\ parentNode \in [Repairer -> Nat]
  /\ newNode \in [Repairer -> Nat] /\ miscounts \in Nat

\* A caller past its limits repairs a node behind another it depends on.
Placed(c) ==
  /\ repairPc[c] \in {"parent", "counted", "node", "half"} =>
       failedNode[c] \in NodeRows /\ parentNode[c] \in NodeRows
  /\ repairPc[c] = "parent" =>
       parentNode[c] = failedNode[c] \/ <<parentNode[c], failedNode[c]>> \in edgeRows
  /\ repairPc[c] \in {"counted", "node", "half"} =>
       <<parentNode[c], failedNode[c]>> \in edgeRows
  /\ repairPc[c] \in {"node", "half"} => newNode[c] \in NodeRows

\* The nodes can be numbered along the edges, those that are still to come too.
Ranking(r) ==
  /\ r \in [NodeRows -> Nat]
  /\ \A e \in edgeRows : r[e[1]] < r[e[2]]
  /\ \A c \in Repairer : repairPc[c] \in {"node", "half"} =>
       r[parentNode[c]] < r[newNode[c]] /\ r[newNode[c]] < r[failedNode[c]]

PastLimit == {c \in Repairer : repairPc[c] = "counted"}
LimitInv == Cardinality(Injected) + Cardinality(PastLimit)
              <= MaxInjections + miscounts + Cardinality(Repairer) - 1

RepairInv == /\ RepairTypes /\ LimitInv
             /\ \A c \in Repairer : Placed(c)
             /\ \E r : Ranking(r)

LEMMA RowsFinite ==
  ASSUME RepairTypes
  PROVE  /\ IsFiniteSet(NodeRows) /\ Cardinality(NodeRows) \in Nat
         /\ NodeRows = 1..Cardinality(NodeRows)
         /\ NodeRows \subseteq Nat \ {0}
         /\ \A n \in NodeRows : injectedBy[n] \in NodeRows \cup {0}
         /\ IsFiniteSet(Injected) /\ Cardinality(Injected) \in Nat
         /\ IsFiniteSet(PastLimit) /\ Cardinality(PastLimit) \in Nat
         /\ Cardinality(PastLimit) <= Cardinality(Repairer)
         /\ Cardinality(Repairer) \in Nat
<1>1. PICK k \in Nat : injectedBy \in [1..k -> 0..k]
  BY DEF RepairTypes
<1>2. NodeRows = 1..k
  BY <1>1 DEF NodeRows
<1>3. IsFiniteSet(1..k) /\ Cardinality(1..k) = k
  BY FS_Interval
<1>4. Injected \subseteq NodeRows /\ PastLimit \subseteq Repairer
  BY DEF Injected, PastLimit
<1>5. IsFiniteSet(Injected) /\ Cardinality(Injected) \in Nat
  BY <1>2, <1>3, <1>4, FS_Subset, FS_CardinalityType
<1>6. /\ IsFiniteSet(PastLimit) /\ Cardinality(PastLimit) \in Nat
      /\ Cardinality(PastLimit) <= Cardinality(Repairer) /\ Cardinality(Repairer) \in Nat
  BY <1>4, RepairAssumption, FS_Subset, FS_CardinalityType
<1>7. \A n \in 1..k : injectedBy[n] \in 1..k \cup {0}
  BY <1>1
<1> QED BY <1>2, <1>3, <1>5, <1>6, <1>7

\* The chain of causes begins with the node itself, so that no node is put
\* behind and before the same one.
LEMMA LoopSeesItself ==
  ASSUME RepairTypes, NEW n \in NodeRows, NEW p, ~InjectionLoop(n, p)
  PROVE  p # n
<1> DEFINE S == {s \in Seq(NodeRows) : Len(s) >= 1 /\ s[1] = n}
           F == [s \in S |-> NextCause(s)]
           hop == CHOOSE f : f = [k \in 0..MaxHops |->
                                    IF k = 0 THEN <<n>> ELSE NextCause(f[k - 1])]
<1>1. ASSUME NEW s \in S PROVE NextCause(s) \in S
  <2>1. Last(s) \in NodeRows
    BY DEF Last
  <2>2. CASE injectedBy[Last(s)] = 0
    BY <2>2 DEF NextCause
  <2>3. CASE injectedBy[Last(s)] # 0
    <3>1. injectedBy[Last(s)] \in NodeRows
      BY <2>1, <2>3, RowsFinite
    <3> DEFINE x == injectedBy[Last(s)]
    <3> HIDE DEF x
    <3>2. x \in NodeRows
      BY <3>1 DEF x
    <3>3. Append(s, x) \in Seq(NodeRows) /\ Len(Append(s, x)) >= 1 /\ Append(s, x)[1] = n
      BY <3>2
    <3>4. NextCause(s) = Append(s, x)
      BY <2>3 DEF NextCause, x
    <3> QED BY <3>3, <3>4
  <2> QED BY <2>2, <2>3
<1>2. <<n>> \in S
  <2>1. <<n>> \in Seq(NodeRows) /\ Len(<<n>>) = 1 /\ <<n>>[1] = n
    OBVIOUS
  <2> QED BY <2>1
<1> HIDE DEF S
<1>3. F \in [S -> S] /\ MaxHops \in Nat
  BY <1>1, RepairAssumption
<1>4. PICK f \in [0..MaxHops -> S] :
        f[0] = <<n>> /\ \A k \in 1..MaxHops : f[k] = F[f[k - 1]]
  <2> DEFINE x == <<n>>
  <2>1. x \in S
    BY <1>2
  <2> HIDE DEF F, x
  <2>2. \E f : Iterate(f, S, F, x, MaxHops)
    BY <1>3, <2>1, Iterates
  <2> QED BY <2>2 DEF x, Iterate
<1>5. f = [k \in 0..MaxHops |-> IF k = 0 THEN <<n>> ELSE NextCause(f[k - 1])]
  <2>1. ASSUME NEW k \in 0..MaxHops
        PROVE  f[k] = IF k = 0 THEN <<n>> ELSE NextCause(f[k - 1])
    <3>1. CASE k = 0
      BY <1>4, <3>1
    <3>2. CASE k # 0
      <4>1. k \in 1..MaxHops /\ k - 1 \in 0..MaxHops
        BY <1>3, <3>2
      <4>2. f[k - 1] \in S
        BY <1>4, <4>1
      <4> QED BY <1>4, <3>2, <4>1, <4>2
    <3> QED BY <3>1, <3>2
  <2> QED BY <1>4, <2>1
<1>6. hop = [k \in 0..MaxHops |-> IF k = 0 THEN <<n>> ELSE NextCause(hop[k - 1])]
  BY <1>5
<1>7. Causes(n) = hop[MaxHops]
  BY DEF Causes
<1> HIDE DEF hop
<1>8. hop[0] = <<n>> /\ \A k \in 1..MaxHops : hop[k] = NextCause(hop[k - 1])
  BY <1>3, <1>6
<1>9. \A k \in 1..MaxHops : hop[k - 1] \in S => hop[k] \in S
  BY <1>1, <1>8
<1>10. Causes(n) \in S
  BY <1>2, <1>3, <1>7, <1>8, <1>9, KeptAlong
<1>11. Len(Causes(n)) \in Nat /\ Len(Causes(n)) >= 1 /\ Causes(n)[1] = n
  BY <1>10 DEF S
<1>12. CASE MaxHops = 0
  BY <1>11, <1>12 DEF InjectionLoop
<1>13. CASE MaxHops # 0
  <2>1. 1 \in 1..Len(Causes(n)) /\ 1 <= MaxHops
    BY <1>3, <1>11, <1>13
  <2> QED BY <1>11, <2>1 DEF InjectionLoop
<1> QED BY <1>12, <1>13
-----------------------------------------------------------------------------
(* The steps of a repair *)

LEMMA RepairStarts == RepairInit => RepairInv
<1> SUFFICES ASSUME RepairInit PROVE RepairInv
  OBVIOUS
<1>1. /\ FirstNodes \in Nat /\ injectedBy = [n \in 1..FirstNodes |-> 0]
      /\ NodeRows = 1..FirstNodes
  BY RepairAssumption DEF RepairInit, NodeRows
<1>2. \A e \in edgeRows : e \in NodeRows \X NodeRows /\ e[1] < e[2]
  BY <1>1 DEF RepairInit
<1>3. RepairTypes
  <2>1. injectedBy \in [1..FirstNodes -> 0..FirstNodes]
    BY <1>1
  <2> QED BY <1>1, <1>2, <2>1 DEF RepairInit, RepairTypes, RepairStage
<1>4. Injected = {} /\ PastLimit = {}
  BY <1>1 DEF Injected, RepairInit, PastLimit
<1>5. LimitInv
  <2>1. Cardinality(Injected) = 0 /\ Cardinality(PastLimit) = 0
    BY <1>4, FS_EmptySet
  <2>2. miscounts = 0 /\ Cardinality(Repairer) \in Nat
    BY <1>3, RowsFinite DEF RepairInit
  <2> QED BY <2>1, <2>2, RepairAssumption DEF LimitInv
<1>6. \E r : Ranking(r)
  <2> DEFINE r == [n \in NodeRows |-> n]
  <2>1. r \in [NodeRows -> Nat]
    BY <1>1
  <2>2. \A e \in edgeRows : r[e[1]] < r[e[2]]
    BY <1>2
  <2>3. \A c \in Repairer : repairPc[c] = "idle"
    BY DEF RepairInit
  <2>4. Ranking(r)
    BY <2>1, <2>2, <2>3 DEF Ranking
  <2> QED BY <2>4
<1>7. \A c \in Repairer : Placed(c)
  BY DEF RepairInit, Placed
<1> QED BY <1>3, <1>5, <1>6, <1>7 DEF RepairInv

\* A step of one caller: what the others are at stays, and what it says of the rows.
LEMMA OthersPlaced ==
  ASSUME RepairInv, NEW c \in Repairer, NodeRows \subseteq NodeRows', edgeRows \subseteq edgeRows',
         \A d \in Repairer \ {c} :
           /\ repairPc'[d] = repairPc[d] /\ failedNode'[d] = failedNode[d]
           /\ parentNode'[d] = parentNode[d] /\ newNode'[d] = newNode[d]
  PROVE  \A d \in Repairer \ {c} : Placed(d)'
  BY DEF RepairInv, Placed

\* A step that adds no node and no caller that is about to.
LEMMA LimitKept ==
  ASSUME RepairInv, injectedBy' = injectedBy, miscounts' \in Nat, miscounts' >= miscounts,
         \A d \in Repairer : repairPc'[d] = "counted" => repairPc[d] = "counted"
  PROVE  LimitInv'
<1>1. Injected' = Injected
  BY DEF Injected, NodeRows
<1>2. PastLimit' \subseteq PastLimit
  BY DEF PastLimit
<1> DEFINE k == Cardinality(PastLimit')
<1>3. k \in Nat /\ k <= Cardinality(PastLimit)
  <2>1. IsFiniteSet(PastLimit)
    BY RowsFinite DEF RepairInv
  <2> QED BY <1>2, <2>1, FS_Subset, FS_CardinalityType
<1> DEFINE i == Cardinality(Injected')
<1>4. i = Cardinality(Injected) /\ i \in Nat
  BY <1>1, RowsFinite DEF RepairInv
<1>5. /\ Cardinality(PastLimit) \in Nat /\ Cardinality(Repairer) \in Nat
      /\ miscounts \in Nat /\ MaxInjections \in Nat
  BY RowsFinite, RepairAssumption DEF RepairInv, RepairTypes
<1> HIDE DEF k, i
<1>6. i + k <= MaxInjections + miscounts' + Cardinality(Repairer) - 1
  <2>1. i + Cardinality(PastLimit) <= MaxInjections + miscounts + Cardinality(Repairer) - 1
    BY <1>4 DEF RepairInv, LimitInv
  <2> QED BY <1>3, <1>4, <1>5, <2>1
<1> QED BY <1>6 DEF k, i, LimitInv

\* A step that changes no row: only a caller at an edge needs a place in the order.
LEMMA RankKept ==
  ASSUME RepairInv, injectedBy' = injectedBy, edgeRows' = edgeRows,
         \A d \in Repairer : repairPc'[d] \in {"node", "half"} =>
           /\ repairPc[d] \in {"node", "half"} /\ failedNode'[d] = failedNode[d]
           /\ parentNode'[d] = parentNode[d] /\ newNode'[d] = newNode[d]
  PROVE  \E r : Ranking(r)'
<1>1. PICK r : Ranking(r)
  BY DEF RepairInv
<1>2. Ranking(r)'
  BY <1>1 DEF Ranking, NodeRows
<1> QED BY <1>2

LEMMA RequestKept ==
  ASSUME RepairInv, NEW c \in Repairer, \E n \in NodeRows : RequestRepair(c, n)
  PROVE  RepairInv'
<1>1. PICK n \in NodeRows : RequestRepair(c, n)
  OBVIOUS
<1>2. PICK p \in NodeRows : /\ parentNode' = [parentNode EXCEPT ![c] = p]
                            /\ p = n \/ <<p, n>> \in edgeRows
  BY <1>1 DEF RequestRepair, Ancestors, DepsOf
<1>3. /\ repairPc' = [repairPc EXCEPT ![c] = "parent"]
      /\ failedNode' = [failedNode EXCEPT ![c] = n]
      /\ edgeRows' = edgeRows /\ injectedBy' = injectedBy /\ newNode' = newNode
      /\ miscounts' = miscounts
  BY <1>1 DEF RequestRepair
<1>4. n \in Nat /\ p \in Nat
  BY RowsFinite DEF RepairInv
<1>5. NodeRows' = NodeRows
  BY <1>3 DEF NodeRows
<1>6. /\ repairPc'[c] = "parent" /\ failedNode'[c] = n /\ parentNode'[c] = p
      /\ \A d \in Repairer \ {c} :
           /\ repairPc'[d] = repairPc[d] /\ failedNode'[d] = failedNode[d]
           /\ parentNode'[d] = parentNode[d] /\ newNode'[d] = newNode[d]
  BY <1>2, <1>3 DEF RepairInv, RepairTypes
<1>7. RepairTypes'
  BY <1>2, <1>3, <1>4, <1>5 DEF RepairInv, RepairTypes, RepairStage
<1>8. Placed(c)'
  BY <1>2, <1>3, <1>5, <1>6 DEF Placed
<1>9. \A d \in Repairer \ {c} : Placed(d)'
  BY <1>3, <1>5, <1>6, OthersPlaced
<1>10. LimitInv'
  <2>1. miscounts' \in Nat /\ miscounts' >= miscounts
    BY <1>3 DEF RepairInv, RepairTypes
  <2> QED BY <1>3, <1>6, <2>1, LimitKept
<1>11. \E r : Ranking(r)'
  BY <1>3, <1>6, RankKept
<1> QED BY <1>7, <1>8, <1>9, <1>10, <1>11 DEF RepairInv

LEMMA CheckKept ==
  ASSUME RepairInv, NEW c \in Repairer, CheckLimits(c)
  PROVE  RepairInv'
<1> DEFINE over(counted) == counted >= MaxInjections \/ InjectionLoop(failedNode[c], parentNode[c])
<1>1. PICK counted \in {Cardinality(Injected), 0} :
        /\ repairPc' = [repairPc EXCEPT ![c] = IF over(counted) THEN "error" ELSE "counted"]
        /\ miscounts' = miscounts + IF counted = Cardinality(Injected) THEN 0 ELSE 1
  BY DEF CheckLimits
<1>2. /\ repairPc[c] = "parent" /\ edgeRows' = edgeRows /\ injectedBy' = injectedBy
      /\ failedNode' = failedNode /\ parentNode' = parentNode /\ newNode' = newNode
  BY DEF CheckLimits
<1>3. /\ NodeRows' = NodeRows /\ Injected' = Injected
  BY <1>2 DEF NodeRows, Injected
<1>4. /\ miscounts \in Nat /\ miscounts' \in Nat /\ miscounts' >= miscounts
      /\ repairPc \in [Repairer -> RepairStage]
  BY <1>1 DEF RepairInv, RepairTypes
<1>5. \A d \in Repairer \ {c} : repairPc'[d] = repairPc[d]
  BY <1>1, <1>4
<1>6. \A d \in Repairer \ {c} : Placed(d)'
  BY <1>2, <1>3, <1>5, OthersPlaced
<1>7. repairPc' \in [Repairer -> RepairStage]
  BY <1>1, <1>4 DEF RepairStage
<1>8. RepairTypes'
  BY <1>2, <1>3, <1>4, <1>7 DEF RepairInv, RepairTypes
<1>9. CASE over(counted)
  <2>1. repairPc'[c] = "error"
    BY <1>1, <1>4, <1>9
  <2> HIDE DEF over
  <2>2. Placed(c)'
    BY <2>1 DEF Placed
  <2>3. LimitInv'
    BY <1>2, <1>4, <1>5, <2>1, LimitKept
  <2>4. \E r : Ranking(r)'
    BY <1>2, <1>5, <2>1, RankKept
  <2> QED BY <1>6, <1>8, <2>2, <2>3, <2>4 DEF RepairInv
<1>10. CASE ~over(counted)
  <2>1. repairPc'[c] = "counted" /\ ~(counted >= MaxInjections)
        /\ ~InjectionLoop(failedNode[c], parentNode[c])
    BY <1>1, <1>4, <1>10
  <2> HIDE DEF over
  <2>2. failedNode[c] \in NodeRows /\ parentNode[c] \in NodeRows
    BY <1>2 DEF RepairInv, Placed
  <2>3. parentNode[c] # failedNode[c]
    BY <2>1, <2>2, LoopSeesItself DEF RepairInv
  <2>4. <<parentNode[c], failedNode[c]>> \in edgeRows
    BY <1>2, <2>3 DEF RepairInv, Placed
  <2>5. Placed(c)'
    BY <1>2, <1>3, <2>1, <2>2, <2>4 DEF Placed
  <2>6. LimitInv'
    <3> DEFINE k == Cardinality(PastLimit')
               i == Cardinality(Injected')
    <3>1. PastLimit' = PastLimit \cup {c} /\ PastLimit' \subseteq Repairer
      BY <1>5, <2>1 DEF PastLimit
    <3>2. /\ IsFiniteSet(PastLimit) /\ Cardinality(PastLimit) \in Nat
          /\ Cardinality(Repairer) \in Nat /\ IsFiniteSet(Repairer)
      BY RowsFinite, RepairAssumption DEF RepairInv
    <3>3. k \in Nat /\ k <= Cardinality(PastLimit) + 1 /\ k <= Cardinality(Repairer)
      BY <3>1, <3>2, FS_AddElement, FS_Subset, FS_CardinalityType
    <3>4. i = Cardinality(Injected) /\ i \in Nat /\ MaxInjections \in Nat
      BY <1>3, RowsFinite, RepairAssumption DEF RepairInv
    <3> HIDE DEF k, i
    <3>5. i + Cardinality(PastLimit) <= MaxInjections + miscounts + Cardinality(Repairer) - 1
      BY <3>4 DEF RepairInv, LimitInv
    <3>6. i + k <= MaxInjections + miscounts' + Cardinality(Repairer) - 1
      <4>1. CASE counted = Cardinality(Injected)
        <5>1. i < MaxInjections
          BY <2>1, <3>4, <4>1
        <5> QED BY <1>4, <3>2, <3>3, <3>4, <5>1
      <4>2. CASE counted # Cardinality(Injected)
        <5>1. miscounts' = miscounts + 1
          BY <1>1, <4>2
        <5> QED BY <1>4, <3>2, <3>3, <3>4, <3>5, <5>1
      <4> QED BY <4>1, <4>2
    <3> QED BY <3>6 DEF k, i, LimitInv
  <2>7. \E r : Ranking(r)'
    BY <1>2, <1>5, <2>1, RankKept
  <2> QED BY <1>6, <1>8, <2>5, <2>6, <2>7 DEF RepairInv
<1> QED BY <1>9, <1>10

LEMMA InsertKept ==
  ASSUME RepairInv, NEW c \in Repairer, InsertNode(c)
  PROVE  RepairInv'
<1> DEFINE k == Cardinality(NodeRows)
           n == k + 1
<1>1. /\ repairPc[c] = "counted" /\ edgeRows' = edgeRows
      /\ injectedBy' = [m \in 1..n |-> IF m = n THEN failedNode[c] ELSE injectedBy[m]]
      /\ newNode' = [newNode EXCEPT ![c] = n]
      /\ repairPc' = [repairPc EXCEPT ![c] = "node"]
      /\ failedNode' = failedNode /\ parentNode' = parentNode /\ miscounts' = miscounts
  BY DEF InsertNode
<1>2. /\ k \in Nat /\ NodeRows = 1..k
      /\ \A m \in NodeRows : injectedBy[m] \in NodeRows \cup {0}
  BY RowsFinite DEF RepairInv
<1>3. /\ failedNode[c] \in NodeRows /\ parentNode[c] \in NodeRows
      /\ <<parentNode[c], failedNode[c]>> \in edgeRows
  BY <1>1 DEF RepairInv, Placed
<1> HIDE DEF k
<1>4. NodeRows' = 1..n /\ NodeRows' = NodeRows \cup {n} /\ n \notin NodeRows /\ n \in Nat
  <2>1. NodeRows' = 1..n
    BY <1>1 DEF NodeRows
  <2>2. 1..n = (1..k) \cup {n} /\ n \notin 1..k /\ n \in Nat
    BY <1>2
  <2> QED BY <1>2, <2>1, <2>2
<1>5. injectedBy' \in [1..n -> 0..n]
  <2>1. \A m \in 1..n : (IF m = n THEN failedNode[c] ELSE injectedBy[m]) \in 0..n
    BY <1>2, <1>3
  <2> QED BY <1>1, <2>1
<1>6. RepairTypes'
  <2>1. newNode' \in [Repairer -> Nat] /\ repairPc' \in [Repairer -> RepairStage]
    BY <1>1, <1>4 DEF RepairInv, RepairTypes, RepairStage
  <2>2. edgeRows' \subseteq NodeRows' \X NodeRows'
    BY <1>1, <1>4 DEF RepairInv, RepairTypes
  <2> QED BY <1>1, <1>4, <1>5, <2>1, <2>2 DEF RepairInv, RepairTypes
<1>7. /\ repairPc'[c] = "node" /\ newNode'[c] = n
      /\ \A d \in Repairer \ {c} : repairPc'[d] = repairPc[d] /\ newNode'[d] = newNode[d]
  BY <1>1 DEF RepairInv, RepairTypes
<1>8. Placed(c)'
  BY <1>1, <1>3, <1>4, <1>7 DEF Placed
<1>9. \A d \in Repairer \ {c} : Placed(d)'
  BY <1>1, <1>4, <1>7, OthersPlaced
<1>10. LimitInv'
  <2> DEFINE i == Cardinality(Injected')
             j == Cardinality(PastLimit')
  <2>1. \A m \in 1..n : injectedBy'[m] = IF m = n THEN failedNode[c] ELSE injectedBy[m]
    BY <1>1
  <2>2. failedNode[c] # 0
    BY <1>3, RowsFinite DEF RepairInv
  <2>3. Injected' = Injected \cup {n} /\ n \notin Injected
    <3>1. n \in 1..n /\ \A m \in 1..k : m \in 1..n /\ m # n
      BY <1>2
    <3> QED BY <1>2, <1>4, <2>1, <2>2, <3>1 DEF Injected
  <2>4. PastLimit' = PastLimit \ {c} /\ c \in PastLimit
    BY <1>1, <1>7 DEF PastLimit
  <2>5. /\ IsFiniteSet(Injected) /\ Cardinality(Injected) \in Nat
        /\ IsFiniteSet(PastLimit) /\ Cardinality(PastLimit) \in Nat
    BY RowsFinite DEF RepairInv
  <2>6. i = Cardinality(Injected) + 1
    BY <2>3, <2>5, FS_AddElement
  <2>7. j = Cardinality(PastLimit) - 1
    BY <2>4, <2>5, FS_RemoveElement
  <2> HIDE DEF i, j
  <2>8. i + j = Cardinality(Injected) + Cardinality(PastLimit)
    BY <2>5, <2>6, <2>7
  <2>9. i + j <= MaxInjections + miscounts + Cardinality(Repairer) - 1
    BY <2>8 DEF RepairInv, LimitInv
  <2> QED BY <1>1, <2>9 DEF LimitInv, i, j
<1>11. \E r : Ranking(r)'
  <2>1. PICK r : Ranking(r)
    BY DEF RepairInv
  <2>2. \A m \in NodeRows : r[m] \in Nat
    BY <2>1 DEF Ranking
  <2>3. PICK s \in [NodeRows' -> Nat] :
          s[n] = 2 * r[parentNode[c]] + 1 /\ \A m \in NodeRows : s[m] = 2 * r[m]
    <3> DEFINE t == [m \in NodeRows' |-> IF m = n THEN 2 * r[parentNode[c]] + 1 ELSE 2 * r[m]]
    <3>1. /\ t \in [NodeRows' -> Nat] /\ t[n] = 2 * r[parentNode[c]] + 1
          /\ \A m \in NodeRows : t[m] = 2 * r[m]
      BY <1>3, <1>4, <2>2
    <3> QED BY <3>1
  <2>4. \A m, o \in NodeRows : r[m] < r[o] => s[m] < s[o]
    BY <2>2, <2>3
  <2>5. \A e \in edgeRows : s[e[1]] < s[e[2]]
    <3> SUFFICES ASSUME NEW e \in edgeRows PROVE s[e[1]] < s[e[2]]
      OBVIOUS
    <3>1. e[1] \in NodeRows /\ e[2] \in NodeRows
      BY DEF RepairInv, RepairTypes
    <3>2. r[e[1]] < r[e[2]]
      BY <2>1 DEF Ranking
    <3> QED BY <2>4, <3>1, <3>2
  <2>6. s[parentNode[c]] < s[n] /\ s[n] < s[failedNode[c]]
    <3>1. r[parentNode[c]] < r[failedNode[c]]
      BY <1>3, <2>1 DEF Ranking
    <3> QED BY <1>3, <2>2, <2>3, <3>1
  <2>7. ASSUME NEW d \in Repairer \ {c}, repairPc[d] \in {"node", "half"}
        PROVE  s[parentNode[d]] < s[newNode[d]] /\ s[newNode[d]] < s[failedNode[d]]
    <3>1. /\ parentNode[d] \in NodeRows /\ newNode[d] \in NodeRows /\ failedNode[d] \in NodeRows
      BY <2>7 DEF RepairInv, Placed
    <3>2. r[parentNode[d]] < r[newNode[d]] /\ r[newNode[d]] < r[failedNode[d]]
      BY <2>1, <2>7 DEF Ranking
    <3> QED BY <2>4, <3>1, <3>2
  <2>8. ASSUME NEW d \in Repairer, repairPc'[d] \in {"node", "half"}
        PROVE  s[parentNode'[d]] < s[newNode'[d]] /\ s[newNode'[d]] < s[failedNode'[d]]
    <3>1. CASE d = c
      BY <1>1, <1>7, <2>6, <3>1
    <3>2. CASE d # c
      <4>1. repairPc[d] \in {"node", "half"} /\ newNode'[d] = newNode[d]
        BY <1>7, <2>8, <3>2
      <4> QED BY <1>1, <2>7, <3>2, <4>1
    <3> QED BY <3>1, <3>2
  <2>9. \A e \in edgeRows' : s[e[1]] < s[e[2]]
    BY <1>1, <2>5
  <2>10. Ranking(s)'
    BY <2>3, <2>8, <2>9 DEF Ranking
  <2> QED BY <2>10
<1> QED BY <1>6, <1>8, <1>9, <1>10, <1>11 DEF RepairInv

\* The two edges of a repair lie within the order it was given.
LEMMA EdgesKept ==
  ASSUME RepairInv, NEW c \in Repairer, InsertEdgeIn(c) \/ InsertEdgeOut(c)
  PROVE  RepairInv'
<1>1. PICK e : /\ edgeRows' = edgeRows \cup {e}
               /\ e = <<parentNode[c], newNode[c]>> \/ e = <<newNode[c], failedNode[c]>>
  BY DEF InsertEdgeIn, InsertEdgeOut
<1>2. /\ repairPc[c] \in {"node", "half"}
      /\ repairPc' \in [Repairer -> RepairStage] /\ repairPc'[c] \in {"half", "done"}
      /\ repairPc'[c] = "half" => repairPc[c] = "node"
      /\ \A d \in Repairer \ {c} : repairPc'[d] = repairPc[d]
  BY DEF InsertEdgeIn, InsertEdgeOut, RepairInv, RepairTypes, RepairStage
<1>3. /\ injectedBy' = injectedBy /\ failedNode' = failedNode /\ parentNode' = parentNode
      /\ newNode' = newNode /\ miscounts' = miscounts
  BY DEF InsertEdgeIn, InsertEdgeOut
<1>4. NodeRows' = NodeRows
  BY <1>3 DEF NodeRows
<1>5. parentNode[c] \in NodeRows /\ newNode[c] \in NodeRows /\ failedNode[c] \in NodeRows
      /\ <<parentNode[c], failedNode[c]>> \in edgeRows
  BY <1>2 DEF RepairInv, Placed
<1>6. e \in NodeRows \X NodeRows
  BY <1>1, <1>5
<1>7. RepairTypes'
  BY <1>1, <1>2, <1>3, <1>4, <1>6 DEF RepairInv, RepairTypes
<1>8. Placed(c)'
  BY <1>1, <1>2, <1>3, <1>4, <1>5 DEF Placed
<1>9. \A d \in Repairer \ {c} : Placed(d)'
  BY <1>1, <1>2, <1>3, <1>4, OthersPlaced
<1>10. LimitInv'
  <2>1. miscounts' \in Nat /\ miscounts' >= miscounts
    BY <1>3 DEF RepairInv, RepairTypes
  <2>2. \A d \in Repairer : repairPc'[d] = "counted" => repairPc[d] = "counted"
    BY <1>2
  <2> QED BY <1>3, <2>1, <2>2, LimitKept
<1>11. \E r : Ranking(r)'
  <2>1. PICK r : Ranking(r)
    BY DEF RepairInv
  <2>2. r[e[1]] < r[e[2]]
    BY <1>1, <1>2, <2>1 DEF Ranking
  <2>3. Ranking(r)'
    BY <1>1, <1>2, <1>3, <1>4, <2>1, <2>2 DEF Ranking
  <2> QED BY <2>3
<1> QED BY <1>7, <1>8, <1>9, <1>10, <1>11 DEF RepairInv

LEMMA RepairEnds ==
  ASSUME RepairInv, NEW c \in Repairer, InsertFails(c) \/ NextRequest(c)
  PROVE  RepairInv'
<1>1. /\ edgeRows' = edgeRows /\ injectedBy' = injectedBy /\ miscounts' = miscounts
      /\ repairPc'[c] \in {"error", "idle"}
      /\ \A d \in Repairer \ {c} :
           /\ repairPc'[d] = repairPc[d] /\ failedNode'[d] = failedNode[d]
           /\ parentNode'[d] = parentNode[d] /\ newNode'[d] = newNode[d]
  BY DEF InsertFails, NextRequest, RepairInv, RepairTypes
<1>2. NodeRows' = NodeRows
  BY <1>1 DEF NodeRows
<1>3. RepairTypes'
  <2>1. repairPc' \in [Repairer -> RepairStage]
    BY DEF InsertFails, NextRequest, RepairInv, RepairTypes, RepairStage
  <2>2. /\ failedNode' \in [Repairer -> Nat]
        /\ parentNode' \in [Repairer -> Nat] /\ newNode' \in [Repairer -> Nat]
    <3>1. 0 \in Nat
      OBVIOUS
    <3> QED BY <3>1 DEF InsertFails, NextRequest, RepairInv, RepairTypes
  <2> QED BY <1>1, <1>2, <2>1, <2>2 DEF RepairInv, RepairTypes
<1>4. Placed(c)'
  BY <1>1 DEF Placed
<1>5. \A d \in Repairer \ {c} : Placed(d)'
  BY <1>1, <1>2, OthersPlaced
<1>6. LimitInv'
  <2>1. miscounts' \in Nat /\ miscounts' >= miscounts
    BY <1>1 DEF RepairInv, RepairTypes
  <2> QED BY <1>1, <2>1, LimitKept
<1>7. \E r : Ranking(r)'
  BY <1>1, RankKept
<1> QED BY <1>3, <1>4, <1>5, <1>6, <1>7 DEF RepairInv

LEMMA StepRepair == RepairInv /\ [RepairNext]_repairVars => RepairInv'
<1> SUFFICES ASSUME RepairInv, [RepairNext]_repairVars PROVE RepairInv'
  OBVIOUS
<1>1. CASE UNCHANGED repairVars
  <2>1. /\ edgeRows' = edgeRows /\ injectedBy' = injectedBy /\ miscounts' = miscounts
        /\ repairPc' = repairPc /\ failedNode' = failedNode
        /\ parentNode' = parentNode /\ newNode' = newNode
    BY <1>1 DEF repairVars
  <2> QED BY <2>1 DEF RepairInv, RepairTypes, LimitInv, Placed, Ranking, Injected, PastLimit,
          NodeRows
<1>2. CASE RepairNext
  BY <1>2, RequestKept, CheckKept, InsertKept, EdgesKept, RepairEnds DEF RepairNext
<1> QED BY <1>1, <1>2
-----------------------------------------------------------------------------
(* The sort *)

Took(s) == {s.order[i] : i \in 1..Len(s.order)}
Queued(s) == {s.queue[i] : i \in 1..Len(s.queue)}

\* What has been taken stands behind its predecessors, the degree of a node
\* counts those that have not, and the queue has the nodes whose is zero.
SortState ==
  {s \in [queue : Seq(NodeRows), order : Seq(NodeRows), degree : [NodeRows -> Int]] :
     /\ \A i, j \in 1..Len(s.order) : s.order[i] = s.order[j] => i = j
     /\ \A i, j \in 1..Len(s.queue) : s.queue[i] = s.queue[j] => i = j
     /\ Took(s) \cap Queued(s) = {}
     /\ \A m \in NodeRows : s.degree[m] = Cardinality(DepsOf(m) \ Took(s))
     /\ \A m \in NodeRows : m \in Took(s) \cup Queued(s) <=> DepsOf(m) \subseteq Took(s)
     /\ \A j \in 1..Len(s.order) : \A m \in DepsOf(s.order[j]) :
          \E i \in 1..(j - 1) : s.order[i] = m}

LEMMA DepsFinite ==
  ASSUME RepairTypes, NEW m \in NodeRows
  PROVE  /\ DepsOf(m) \subseteq NodeRows /\ IsFiniteSet(DepsOf(m))
         /\ \A S : IsFiniteSet(DepsOf(m) \ S) /\ Cardinality(DepsOf(m) \ S) \in Nat
                   /\ (Cardinality(DepsOf(m) \ S) = 0 <=> DepsOf(m) \subseteq S)
<1>1. DepsOf(m) \subseteq NodeRows
  BY DEF DepsOf
<1>2. IsFiniteSet(DepsOf(m))
  BY <1>1, RowsFinite, FS_Subset
<1>3. ASSUME NEW S
      PROVE  IsFiniteSet(DepsOf(m) \ S) /\ Cardinality(DepsOf(m) \ S) \in Nat
             /\ (Cardinality(DepsOf(m) \ S) = 0 <=> DepsOf(m) \subseteq S)
  <2>1. DepsOf(m) \ S \subseteq DepsOf(m)
    OBVIOUS
  <2>2. IsFiniteSet(DepsOf(m) \ S) /\ Cardinality(DepsOf(m) \ S) \in Nat
    BY <1>2, <2>1, FS_Subset, FS_CardinalityType
  <2>3. Cardinality(DepsOf(m) \ S) = 0 <=> DepsOf(m) \ S = {}
    BY <2>2, FS_EmptySet
  <2> QED BY <2>2, <2>3
<1> QED BY <1>1, <1>2, <1>3

LEMMA RootsSorted ==
  ASSUME RepairTypes
  PROVE  Roots \in SortState
<1> DEFINE roots == {m \in NodeRows : DepsOf(m) = {}}
           q == ByRow(roots)
           d == [m \in NodeRows |-> Cardinality(DepsOf(m))]
<1>1. roots \in SUBSET Nat /\ IsFiniteSet(roots) /\ roots \subseteq NodeRows
  <2>1. roots \subseteq NodeRows
    OBVIOUS
  <2> HIDE DEF roots
  <2> QED BY <2>1, RowsFinite, FS_Subset
<1>2. /\ q \in Seq(roots) /\ Len(q) \in Nat
      /\ \A m \in roots : \E i \in 1..Len(q) : q[i] = m
      /\ \A i, j \in 1..Len(q) : q[i] = q[j] => i = j
  <2> HIDE DEF roots
  <2> QED BY <1>1, ByRowExact
<1>3. d \in [NodeRows -> Int]
  <2>1. ASSUME NEW m \in NodeRows PROVE Cardinality(DepsOf(m)) \in Int
    BY DepsFinite, FS_CardinalityType
  <2> QED BY <2>1
<1>4. Roots = [queue |-> q, order |-> <<>>, degree |-> d]
  BY DEF Roots
<1> HIDE DEF q, d
<1>5. Roots.queue = q /\ Roots.order = <<>> /\ Roots.degree = d /\ <<>> \in Seq(NodeRows)
      /\ Len(<<>>) = 0 /\ q \in Seq(NodeRows)
  <2>1. <<>> \in Seq(NodeRows) /\ Len(<<>>) = 0
    OBVIOUS
  <2>2. q \in Seq(NodeRows)
    BY <1>1, <1>2
  <2> QED BY <1>4, <2>1, <2>2
<1>6. Took(Roots) = {} /\ Queued(Roots) = roots
  <2>1. \A i \in 1..Len(q) : q[i] \in roots
    BY <1>2
  <2> HIDE DEF roots
  <2> QED BY <1>2, <1>5, <2>1 DEF Took, Queued
<1>7. Roots \in [queue : Seq(NodeRows), order : Seq(NodeRows), degree : [NodeRows -> Int]]
  BY <1>3, <1>4, <1>5
<1>8. \A m \in NodeRows : d[m] = Cardinality(DepsOf(m) \ {})
  <2>1. \A m \in NodeRows : DepsOf(m) \ {} = DepsOf(m)
    OBVIOUS
  <2> QED BY <2>1 DEF d
<1> HIDE DEF roots
<1>9. \A m \in NodeRows : m \in roots <=> DepsOf(m) \subseteq {}
  BY DEF roots
<1>10. /\ \A i, j \in 1..Len(Roots.order) : Roots.order[i] = Roots.order[j] => i = j
       /\ \A i, j \in 1..Len(Roots.queue) : Roots.queue[i] = Roots.queue[j] => i = j
       /\ \A j \in 1..Len(Roots.order) : \A m \in DepsOf(Roots.order[j]) :
            \E i \in 1..(j - 1) : Roots.order[i] = m
  BY <1>2, <1>5
<1>11. /\ Took(Roots) \cap Queued(Roots) = {}
       /\ \A m \in NodeRows : m \in Took(Roots) \cup Queued(Roots)
                               <=> DepsOf(m) \subseteq Took(Roots)
  BY <1>6, <1>9
<1>12. \A m \in NodeRows : Roots.degree[m] = Cardinality(DepsOf(m) \ Took(Roots))
  BY <1>5, <1>6, <1>8
<1> QED BY <1>7, <1>10, <1>11, <1>12 DEF SortState

\* One node is taken, and those it was the last to hold back are queued.
LEMMA PopSorted ==
  ASSUME RepairTypes, NEW s \in SortState, s.queue # <<>>
  PROVE  Pop(s) \in SortState /\ Len(Pop(s).order) = Len(s.order) + 1
<1> DEFINE n == Head(s.queue)
           left == [m \in NodeRows |-> s.degree[m] - IF <<n, m>> \in edgeRows THEN 1 ELSE 0]
           freed == {m \in NodeRows : <<n, m>> \in edgeRows /\ left[m] = 0}
           f == ByRow(freed)
           q == Tail(s.queue) \o f
           o == Append(s.order, n)
           T == Took(s)
           W == Queued(s)
<1>0. /\ s.queue \in Seq(NodeRows) /\ s.order \in Seq(NodeRows)
      /\ Len(s.queue) \in Nat \ {0} /\ Len(s.order) \in Nat
      /\ s.degree \in [NodeRows -> Int]
      /\ \A i, j \in 1..Len(s.order) : s.order[i] = s.order[j] => i = j
      /\ \A i, j \in 1..Len(s.queue) : s.queue[i] = s.queue[j] => i = j
      /\ T \cap W = {}
      /\ \A m \in NodeRows : s.degree[m] = Cardinality(DepsOf(m) \ T)
      /\ \A m \in NodeRows : m \in T \cup W <=> DepsOf(m) \subseteq T
      /\ \A j \in 1..Len(s.order) : \A m \in DepsOf(s.order[j]) :
           \E i \in 1..(j - 1) : s.order[i] = m
  <2>1. s.queue \in Seq(NodeRows)
    BY DEF SortState
  <2>2. Len(s.queue) \in Nat \ {0}
    BY <2>1
  <2> QED BY <2>1, <2>2 DEF SortState
<1>1. n \in NodeRows /\ n = s.queue[1] /\ n \in W /\ n \notin T
  BY <1>0 DEF Queued
<1>2. Pop(s) = [queue |-> q, order |-> o, degree |-> left]
  BY DEF Pop
<1> HIDE DEF n
<1>3. \A m \in NodeRows : <<n, m>> \in edgeRows <=> n \in DepsOf(m)
  BY <1>1 DEF DepsOf
<1>4. ASSUME NEW m \in NodeRows
      PROVE  left[m] = Cardinality(DepsOf(m) \ (T \cup {n}))
  <2>1. IsFiniteSet(DepsOf(m) \ T)
    BY DepsFinite
  <2>2. CASE n \in DepsOf(m)
    <3>1. DepsOf(m) \ (T \cup {n}) = (DepsOf(m) \ T) \ {n} /\ n \in DepsOf(m) \ T
      BY <1>1, <2>2
    <3>2. Cardinality(DepsOf(m) \ (T \cup {n})) = Cardinality(DepsOf(m) \ T) - 1
      BY <2>1, <3>1, FS_RemoveElement
    <3> QED BY <1>0, <1>3, <2>2, <3>2
  <2>3. CASE n \notin DepsOf(m)
    <3>1. DepsOf(m) \ (T \cup {n}) = DepsOf(m) \ T
      BY <2>3
    <3>2. left[m] = s.degree[m] - 0
      BY <1>3, <2>3
    <3>3. s.degree[m] \in Int /\ s.degree[m] = Cardinality(DepsOf(m) \ T)
      BY <1>0
    <3>4. Cardinality(DepsOf(m) \ (T \cup {n})) = Cardinality(DepsOf(m) \ T)
      BY <3>1
    <3> HIDE DEF left, T
    <3> QED BY <3>2, <3>3, <3>4
  <2> QED BY <2>2, <2>3
<1>5. left \in [NodeRows -> Int]
  <2>1. \A m \in NodeRows : s.degree[m] - (IF <<n, m>> \in edgeRows THEN 1 ELSE 0) \in Int
    BY <1>0
  <2> QED BY <2>1
<1> HIDE DEF left
<1>6. \A m \in NodeRows : m \in freed <=> n \in DepsOf(m) /\ DepsOf(m) \subseteq T \cup {n}
  <2> SUFFICES ASSUME NEW m \in NodeRows
               PROVE  m \in freed <=> n \in DepsOf(m) /\ DepsOf(m) \subseteq T \cup {n}
    OBVIOUS
  <2>1. left[m] = 0 <=> DepsOf(m) \subseteq T \cup {n}
    BY <1>4, DepsFinite
  <2> QED BY <1>3, <2>1
<1>7. freed \in SUBSET Nat /\ IsFiniteSet(freed) /\ freed \subseteq NodeRows
  <2>1. freed \subseteq NodeRows
    OBVIOUS
  <2> HIDE DEF freed
  <2> QED BY <2>1, RowsFinite, FS_Subset
<1> HIDE DEF freed
<1>8. /\ f \in Seq(freed) /\ f \in Seq(NodeRows) /\ Len(f) \in Nat
      /\ \A m \in freed : \E i \in 1..Len(f) : f[i] = m
      /\ \A i, j \in 1..Len(f) : f[i] = f[j] => i = j
      /\ \A i \in 1..Len(f) : f[i] \in freed
  <2>1. /\ f \in Seq(freed)
        /\ \A m \in freed : \E i \in 1..Len(f) : f[i] = m
        /\ \A i, j \in 1..Len(f) : f[i] = f[j] => i = j
    BY <1>7, ByRowExact
  <2> HIDE DEF f
  <2>2. Len(f) \in Nat /\ \A i \in 1..Len(f) : f[i] \in freed
    BY <2>1
  <2>3. f \in Seq(NodeRows)
    <3>1. \A i \in 1..Len(f) : f[i] \in NodeRows
      BY <1>7, <2>2
    <3>2. f \in [1..Len(f) -> NodeRows]
      BY <2>1, <3>1
    <3> QED BY <2>2, <3>2
  <2> QED BY <2>1, <2>2, <2>3
<1> HIDE DEF f
\* Nothing that is freed was queued or taken before.
<1>9. freed \cap (T \cup W) = {} /\ n \notin freed
  <2>1. ASSUME NEW m \in freed PROVE m \notin T \cup W
    <3>1. n \in DepsOf(m) /\ m \in NodeRows
      BY <1>6, <1>7
    <3> QED BY <1>0, <1>1, <3>1
  <2> QED BY <1>1, <2>1
<1> DEFINE t == Tail(s.queue)
           k == Len(s.queue)
<1>10. /\ t \in Seq(NodeRows) /\ Len(t) = k - 1
       /\ \A i \in 1..(k - 1) : t[i] = s.queue[i + 1]
  BY <1>0
<1>11. /\ W = {n} \cup {t[i] : i \in 1..(k - 1)}
       /\ \A i \in 1..(k - 1) : t[i] # n
       /\ \A i, j \in 1..(k - 1) : t[i] = t[j] => i = j
  <2>1. \A i \in 1..(k - 1) : i + 1 \in 1..k /\ i + 1 # 1
    BY <1>0
  <2>2. \A i \in 1..k : i = 1 \/ (i - 1 \in 1..(k - 1) /\ (i - 1) + 1 = i)
    BY <1>0
  <2>3. 1 \in 1..k
    BY <1>0
  <2>4. \A i \in 1..(k - 1) : t[i] # n
    BY <1>0, <1>1, <1>10, <2>1, <2>3
  <2>5. \A i, j \in 1..(k - 1) : t[i] = t[j] => i = j
    <3> SUFFICES ASSUME NEW i \in 1..(k - 1), NEW j \in 1..(k - 1), t[i] = t[j] PROVE i = j
      OBVIOUS
    <3>1. i + 1 = j + 1
      BY <1>0, <1>10, <2>1
    <3> QED BY <1>0, <3>1
  <2>6. W \subseteq {n} \cup {t[i] : i \in 1..(k - 1)}
    <3> SUFFICES ASSUME NEW x \in W PROVE x \in {n} \cup {t[i] : i \in 1..(k - 1)}
      OBVIOUS
    <3>1. PICK i \in 1..k : x = s.queue[i]
      BY DEF Queued
    <3>2. CASE i = 1
      BY <1>1, <3>1, <3>2
    <3>3. CASE i # 1
      BY <1>10, <2>2, <3>1, <3>3
    <3> QED BY <3>2, <3>3
  <2>7. {n} \cup {t[i] : i \in 1..(k - 1)} \subseteq W
    BY <1>1, <1>10, <2>1 DEF Queued
  <2> QED BY <2>4, <2>5, <2>6, <2>7
<1> HIDE DEF t, k
<1>12. k \in Nat \ {0} /\ q = t \o f
  BY <1>0 DEF k, t
<1>13. /\ q \in Seq(NodeRows) /\ Len(q) = (k - 1) + Len(f)
       /\ \A i \in 1..Len(q) : q[i] = IF i <= k - 1 THEN t[i] ELSE f[i - (k - 1)]
  <2>1. t \in Seq(NodeRows) /\ f \in Seq(NodeRows) /\ Len(t) = k - 1
    BY <1>8, <1>10
  <2> HIDE DEF q
  <2>2. q \in Seq(NodeRows) /\ Len(q) = Len(t) + Len(f)
    BY <1>12, <2>1
  <2>3. \A i \in 1..Len(q) : q[i] = IF i <= Len(t) THEN t[i] ELSE f[i - Len(t)]
    BY <1>12, <2>1, <2>2
  <2> QED BY <2>1, <2>2, <2>3
<1> HIDE DEF q
<1>14. {q[i] : i \in 1..Len(q)} = (W \ {n}) \cup freed
  <2>1. ASSUME NEW i \in 1..Len(q) PROVE q[i] \in (W \ {n}) \cup freed
    <3>1. CASE i <= k - 1
      BY <1>11, <1>12, <1>13, <3>1
    <3>2. CASE ~(i <= k - 1)
      <4>1. i - (k - 1) \in 1..Len(f)
        BY <1>8, <1>12, <1>13, <3>2
      <4> QED BY <1>8, <1>13, <3>2, <4>1
    <3> QED BY <3>1, <3>2
  <2>2. ASSUME NEW x \in W \ {n} PROVE \E i \in 1..Len(q) : q[i] = x
    <3>1. PICK i \in 1..(k - 1) : t[i] = x
      BY <1>11, <2>2
    <3>2. i \in 1..Len(q) /\ i <= k - 1
      BY <1>8, <1>12, <1>13
    <3> QED BY <1>13, <3>1, <3>2
  <2>3. ASSUME NEW x \in freed PROVE \E i \in 1..Len(q) : q[i] = x
    <3>1. PICK i \in 1..Len(f) : f[i] = x
      BY <1>8
    <3>2. /\ (k - 1) + i \in 1..Len(q) /\ ~((k - 1) + i <= k - 1)
          /\ ((k - 1) + i) - (k - 1) = i
      BY <1>8, <1>12, <1>13
    <3> QED BY <1>13, <3>1, <3>2
  <2> QED BY <2>1, <2>2, <2>3
<1>15. \A i, j \in 1..Len(q) : q[i] = q[j] => i = j
  <2> SUFFICES ASSUME NEW i \in 1..Len(q), NEW j \in 1..Len(q), q[i] = q[j] PROVE i = j
    OBVIOUS
  <2>0. /\ \A l \in 1..Len(q) : l <= k - 1 => l \in 1..(k - 1) /\ q[l] = t[l] /\ q[l] \in W
        /\ \A l \in 1..Len(q) : ~(l <= k - 1) =>
             l - (k - 1) \in 1..Len(f) /\ q[l] = f[l - (k - 1)] /\ q[l] \in freed
    <3>1. \A l \in 1..Len(q) : (l <= k - 1 => l \in 1..(k - 1))
                               /\ (~(l <= k - 1) => l - (k - 1) \in 1..Len(f))
      BY <1>8, <1>12, <1>13
    <3> QED BY <1>8, <1>11, <1>13, <3>1
  <2>1. CASE i <= k - 1 /\ j <= k - 1
    BY <1>11, <2>0, <2>1
  <2>2. CASE ~(i <= k - 1) /\ ~(j <= k - 1)
    <3> DEFINE a == i - (k - 1)
               b == j - (k - 1)
    <3>1. a \in 1..Len(f) /\ b \in 1..Len(f) /\ f[a] = f[b]
      BY <2>0, <2>2
    <3> HIDE DEF a, b
    <3>2. a = b
      BY <1>8, <3>1
    <3> QED BY <1>12, <3>2 DEF a, b
  <2>3. CASE (i <= k - 1) # (j <= k - 1)
    BY <1>9, <2>0, <2>3
  <2> QED BY <2>1, <2>2, <2>3
<1>16. /\ o \in Seq(NodeRows) /\ Len(o) = Len(s.order) + 1
       /\ \A i \in 1..Len(s.order) : o[i] = s.order[i]
       /\ o[Len(s.order) + 1] = n
  BY <1>0, <1>1
<1> HIDE DEF o
<1> DEFINE l == Len(s.order)
<1>17. l \in Nat /\ \A i \in 1..(l + 1) : i \in 1..l \/ i = l + 1
  BY <1>0
<1>18. {o[i] : i \in 1..Len(o)} = T \cup {n}
  BY <1>16, <1>17 DEF Took
<1>19. \A i, j \in 1..Len(o) : o[i] = o[j] => i = j
  <2> SUFFICES ASSUME NEW i \in 1..Len(o), NEW j \in 1..Len(o), o[i] = o[j]
               PROVE  i = j
    OBVIOUS
  <2>1. \A x \in 1..l : o[x] \in T
    BY <1>16 DEF Took
  <2>2. n \notin T
    BY <1>0, <1>1
  <2>3. /\ i \in 1..l \/ i = l + 1
        /\ j \in 1..l \/ j = l + 1
    BY <1>16, <1>17
  <2>4. CASE i \in 1..l /\ j \in 1..l
    BY <1>0, <1>16, <2>4
  <2>5. CASE i = l + 1 \/ j = l + 1
    BY <1>16, <2>1, <2>2, <2>3, <2>5
  <2> QED BY <2>3, <2>4, <2>5
<1>20. ASSUME NEW j \in 1..Len(o), NEW m \in DepsOf(o[j])
       PROVE  \E i \in 1..(j - 1) : o[i] = m
  <2>1. CASE j = l + 1
    <3>1. m \in T
      BY <1>0, <1>1, <1>16, <1>20, <2>1
    <3>2. PICK i \in 1..l : s.order[i] = m
      BY <3>1 DEF Took
    <3> QED BY <1>16, <1>17, <2>1, <3>2
  <2>2. CASE j # l + 1
    <3>1. j \in 1..l
      BY <1>16, <1>17, <2>2
    <3>2. PICK i \in 1..(j - 1) : s.order[i] = m
      BY <1>0, <1>16, <1>20, <3>1
    <3>3. i \in 1..l
      BY <1>17, <3>1
    <3> QED BY <1>16, <3>2, <3>3
  <2> QED BY <2>1, <2>2
<1> HIDE DEF T, W, l
<1>21. \A m \in NodeRows : m \in (T \cup {n}) \cup ((W \ {n}) \cup freed)
                             <=> DepsOf(m) \subseteq T \cup {n}
  <2> SUFFICES ASSUME NEW m \in NodeRows
               PROVE  m \in (T \cup {n}) \cup ((W \ {n}) \cup freed)
                        <=> DepsOf(m) \subseteq T \cup {n}
    OBVIOUS
  <2>1. m \in T \cup W <=> DepsOf(m) \subseteq T
    BY <1>0
  <2>2. m \in freed <=> n \in DepsOf(m) /\ DepsOf(m) \subseteq T \cup {n}
    BY <1>6
  <2> QED BY <1>1, <2>1, <2>2
<1>22. (T \cup {n}) \cap ((W \ {n}) \cup freed) = {}
  BY <1>0, <1>9
<1> DEFINE p == [queue |-> q, order |-> o, degree |-> left]
<1>23. /\ p.queue = q /\ p.order = o /\ p.degree = left
       /\ p \in [queue : Seq(NodeRows), order : Seq(NodeRows), degree : [NodeRows -> Int]]
  BY <1>5, <1>13, <1>16
<1> HIDE DEF p
<1>24. Took(p) = T \cup {n} /\ Queued(p) = (W \ {n}) \cup freed
  BY <1>14, <1>18, <1>23 DEF Took, Queued
<1>25. p \in SortState
  <2> HIDE DEF freed
  <2>1. /\ \A i, j \in 1..Len(p.order) : p.order[i] = p.order[j] => i = j
        /\ \A i, j \in 1..Len(p.queue) : p.queue[i] = p.queue[j] => i = j
    BY <1>15, <1>19, <1>23
  <2>2. Took(p) \cap Queued(p) = {}
    BY <1>22, <1>24
  <2>3. \A m \in NodeRows : p.degree[m] = Cardinality(DepsOf(m) \ Took(p))
    BY <1>4, <1>23, <1>24
  <2>4. \A m \in NodeRows : m \in Took(p) \cup Queued(p) <=> DepsOf(m) \subseteq Took(p)
    BY <1>21, <1>24
  <2>5. \A j \in 1..Len(p.order) : \A m \in DepsOf(p.order[j]) :
          \E i \in 1..(j - 1) : p.order[i] = m
    BY <1>20, <1>23
  <2> QED BY <1>23, <2>1, <2>2, <2>3, <2>4, <2>5 DEF SortState
<1>26. Pop(s) = p
  BY <1>2 DEF p
<1> QED BY <1>16, <1>23, <1>25, <1>26

\* The sort takes every node: of those it left, the first along the edges would
\* have had nothing to wait for.
LEMMA SortTakesAll ==
  ASSUME RepairInv
  PROVE  /\ topological_sort \in Seq(NodeRows)
         /\ Len(topological_sort) = Cardinality(NodeRows)
         /\ \A i, j \in 1..Len(topological_sort) :
              <<topological_sort[i], topological_sort[j]>> \in edgeRows => i < j
<1> DEFINE N == Cardinality(NodeRows)
           F == [s \in SortState |-> PopNext(s)]
           run == CHOOSE f : f = [k \in 0..N |-> IF k = 0 THEN Roots ELSE PopNext(f[k - 1])]
<1>1. RepairTypes /\ N \in Nat /\ IsFiniteSet(NodeRows)
  BY RowsFinite DEF RepairInv
<1>2. ASSUME NEW s \in SortState
      PROVE  /\ PopNext(s) \in SortState
             /\ s.queue = <<>> => PopNext(s) = s
             /\ s.queue # <<>> => Len(PopNext(s).order) = Len(s.order) + 1
  BY <1>1, PopSorted DEF PopNext
<1>3. Roots \in SortState /\ Roots.order = <<>>
  BY <1>1, RootsSorted DEF Roots
<1> HIDE DEF N
<1>4. F \in [SortState -> SortState]
  BY <1>2
<1>5. PICK f : Iterate(f, SortState, F, Roots, N)
  <2> HIDE DEF F
  <2> QED BY <1>1, <1>3, <1>4, Iterates
<1>6. f = [k \in 0..N |-> IF k = 0 THEN Roots ELSE PopNext(f[k - 1])]
  <2>1. f \in [0..N -> SortState] /\ f[0] = Roots /\ \A k \in 1..N : f[k] = F[f[k - 1]]
    BY <1>5 DEF Iterate
  <2>2. ASSUME NEW k \in 0..N
        PROVE  f[k] = IF k = 0 THEN Roots ELSE PopNext(f[k - 1])
    <3>1. CASE k = 0
      BY <2>1, <3>1
    <3>2. CASE k # 0
      <4>1. k \in 1..N /\ k - 1 \in 0..N
        BY <1>1, <3>2
      <4>2. f[k - 1] \in SortState
        BY <2>1, <4>1
      <4> QED BY <2>1, <3>2, <4>1, <4>2
    <3> QED BY <3>1, <3>2
  <2> QED BY <2>1, <2>2
<1>7. run = [k \in 0..N |-> IF k = 0 THEN Roots ELSE PopNext(run[k - 1])]
  BY <1>6
<1>8. topological_sort = run[N].order
  BY DEF topological_sort, N
<1> HIDE DEF run
<1>9. run[0] = Roots /\ \A k \in 1..N : run[k] = PopNext(run[k - 1])
  BY <1>1, <1>7
<1>10. \A k \in 0..N : run[k] \in SortState
  <2>1. \A k \in 1..N : run[k - 1] \in SortState => run[k] \in SortState
    BY <1>2, <1>9
  <2> QED BY <1>1, <1>3, <1>9, <2>1, KeptAlong
<1> DEFINE full == {k \in 0..N : Len(run[k].order) = k \/ run[k].queue = <<>>}
<1>11. N \in full
  <2>1. 0 \in full
    BY <1>1, <1>3, <1>9
  <2>2. ASSUME NEW k \in 1..N, k - 1 \in full PROVE k \in full
    <3>1. k - 1 \in 0..N /\ k \in 0..N /\ (k - 1) + 1 = k
      BY <1>1
    <3>2. run[k - 1] \in SortState /\ run[k] = PopNext(run[k - 1])
      BY <1>9, <1>10, <3>1
    <3>3. CASE run[k - 1].queue = <<>>
      BY <1>2, <3>1, <3>2, <3>3
    <3>4. CASE run[k - 1].queue # <<>>
      <4>1. Len(run[k - 1].order) = k - 1
        BY <2>2, <3>4
      <4>2. Len(run[k].order) = k
        BY <1>2, <3>1, <3>2, <3>4, <4>1
      <4> QED BY <3>1, <4>2
    <3> QED BY <3>3, <3>4
  <2> DEFINE g == [k \in 0..N |-> k]
  <2>3. /\ g[0] = 0 /\ g[N] = N /\ N \in 0..N
        /\ \A k \in 1..N : g[k] = k /\ g[k - 1] = k - 1
    BY <1>1
  <2> HIDE DEF g, full
  <2>4. \A k \in 0..N : g[k] \in full
    BY <1>1, <2>1, <2>2, <2>3, KeptAlong
  <2> QED BY <2>3, <2>4
<1> DEFINE s == run[N]
           o == s.order
<1>12. s \in SortState /\ (Len(o) = N \/ s.queue = <<>>)
  BY <1>1, <1>10, <1>11
<1> HIDE DEF s
<1>13. /\ o \in Seq(NodeRows) /\ Len(o) \in Nat
       /\ \A i, j \in 1..Len(o) : o[i] = o[j] => i = j
       /\ \A m \in NodeRows : m \in Took(s) \cup Queued(s) <=> DepsOf(m) \subseteq Took(s)
       /\ \A j \in 1..Len(o) : \A m \in DepsOf(o[j]) : \E i \in 1..(j - 1) : o[i] = m
  <2>1. o \in Seq(NodeRows)
    BY <1>12 DEF SortState
  <2>2. Len(o) \in Nat
    BY <2>1
  <2> QED BY <1>12, <2>1, <2>2 DEF SortState
<1> HIDE DEF o
<1>14. ASSUME s.queue = <<>> PROVE Len(o) = N
  <2>1. Queued(s) = {}
    BY <1>14 DEF Queued
  <2>2. PICK r : Ranking(r)
    BY DEF RepairInv
  <2> DEFINE out == NodeRows \ Took(s)
             ranks == {r[m] : m \in out}
  <2>3. out = {}
    <3> SUFFICES ASSUME out # {} PROVE FALSE
      OBVIOUS
    <3>1. \A m \in NodeRows : r[m] \in Nat
      BY <2>2 DEF Ranking
    <3>2. PICK m \in out : \A x \in out : r[m] <= r[x]
      <4>1. ranks \subseteq Nat /\ ranks # {}
        BY <3>1
      <4>2. PICK y \in ranks : \A z \in ranks : y <= z
        <5> HIDE DEF ranks
        <5> QED BY <4>1, LeastNumber
      <4> QED BY <4>2
    <3>3. ASSUME NEW x \in DepsOf(m) PROVE x \in Took(s)
      <4>1. x \in NodeRows /\ <<x, m>> \in edgeRows
        BY DEF DepsOf
      <4>2. r[x] < r[m]
        BY <2>2, <4>1 DEF Ranking
      <4>3. x \notin out
        BY <3>1, <3>2, <4>1, <4>2
      <4> QED BY <4>1, <4>3
    <3> QED BY <1>13, <2>1, <3>2, <3>3
  <2>4. o \in Bijection(1..Len(o), NodeRows)
    <3>1. o \in [1..Len(o) -> NodeRows]
      BY <1>13
    <3>2. \A m \in NodeRows : \E i \in 1..Len(o) : o[i] = m
      BY <2>3 DEF Took, o
    <3> QED BY <1>13, <3>1, <3>2 DEF Bijection, Injection, IsInjective, Surjection
  <2>5. Cardinality(NodeRows) = Cardinality(1..Len(o))
    <3>1. IsFiniteSet(1..Len(o))
      BY <1>13, FS_Interval
    <3>2. ExistsBijection(1..Len(o), NodeRows)
      BY <2>4 DEF ExistsBijection
    <3> QED BY <3>1, <3>2, FS_Bijection
  <2>6. Cardinality(1..Len(o)) = Len(o)
    BY <1>13, FS_Interval
  <2> QED BY <2>5, <2>6 DEF N
<1>15. Len(o) = N
  BY <1>12, <1>14 DEF o
<1>16. ASSUME NEW i \in 1..Len(o), NEW j \in 1..Len(o), <<o[i], o[j]>> \in edgeRows
       PROVE  i < j
  <2>1. o[i] \in DepsOf(o[j])
    <3>1. o[i] \in NodeRows
      BY <1>13
    <3> QED BY <1>16, <3>1 DEF DepsOf
  <2>2. PICK l \in 1..(j - 1) : o[l] = o[i]
    BY <1>13, <2>1
  <2>3. l \in 1..Len(o) /\ l < j
    BY <1>13
  <2> QED BY <1>13, <2>2, <2>3
<1>17. topological_sort = o
  BY <1>8 DEF o, s
<1> QED BY <1>13, <1>15, <1>16, <1>17 DEF N

\* For every graph, any number of callers and any limits: whatever repairs
\* inject_repair_node has put in, several callers at once and up to any of their
\* INSERTs, topological_sort orders all the nodes (the advancer would mark the
\* DAG CORRUPTED otherwise), and the callers go beyond the limit by at most one
\* node each.  A parent that is not a predecessor of the child, which inject_node
\* would take from other callers, is not covered.
THEOREM RepairsCorrect == RepairSpec => []RepairsSortable
<1>1. RepairInv => RepairsSortable
  <2> SUFFICES ASSUME RepairInv PROVE RepairsSortable
    OBVIOUS
  <2>1. DOMAIN topological_sort = 1..Len(topological_sort)
    BY SortTakesAll
  <2>2. Cardinality(Injected) <= MaxInjections + miscounts + Cardinality(Repairer) - 1
    <3>1. /\ Cardinality(Injected) \in Nat /\ Cardinality(PastLimit) \in Nat
          /\ Cardinality(Repairer) \in Nat
      BY RowsFinite DEF RepairInv
    <3> QED BY <3>1, RepairAssumption DEF RepairInv, LimitInv, RepairTypes
  <2> QED BY <2>1, <2>2, SortTakesAll DEF RepairsSortable
<1> QED BY <1>1, RepairStarts, StepRepair, PTL DEF RepairSpec
-----------------------------------------------------------------------------
(* Deployments *)

DeployStatus == {"NONE", "IN_PROGRESS", "COMPLETED", "FAILED", "PENDING", "PERMANENTLY_FAILED"}
DeployRow == [status : DeployStatus, retry : 0..2, port : Port \cup {0}]
DeployTypes ==
  /\ row \in [Project -> DeployRow]
  /\ ports \in [Project -> Port \cup {0}]
  /\ gate \in SUBSET Project
  /\ freshRows \in SUBSET Project /\ retryRows \in SUBSET Project

\* A row that can be tried again has a try left, one that is being deployed is
\* not to be tried in this cycle any more.
TriesInv ==
  /\ DeployTypes
  /\ \A p \in Project :
       /\ row[p].status = "FAILED" => row[p].retry <= 1
       /\ row[p].status = "PENDING" => row[p].retry = 0
       /\ row[p].status = "PERMANENTLY_FAILED" => row[p].retry = 2
       /\ p \in retryRows => row[p].status \in {"FAILED", "PENDING"}
       /\ stepAt \in {<<p, "extract">>, <<p, "build">>} => row[p].status = "IN_PROGRESS"

LEMMA RowsKept ==
  ASSUME TriesInv, UNCHANGED <<row, freshRows, retryRows, stepAt>>, gate' \in SUBSET Project,
         ports' \in [Project -> Port \cup {0}]
  PROVE  TriesInv'
  BY DEF TriesInv, DeployTypes

\* One deployment begins, from a row read by the cycle.
LEMMA StartKept ==
  ASSUME TriesInv, NEW p \in Project, stepAt = NoStep,
         p \in freshRows \/ p \in retryRows, StartDeploy(p), UNCHANGED <<ports, gate>>
  PROVE  TriesInv'
<1> DEFINE n == IF p \in freshRows THEN 0 ELSE row[p].retry + 1
           r == [row[p] EXCEPT !.status = "IN_PROGRESS", !.retry = n]
<1>1. row[p] \in DeployRow
  BY DEF TriesInv, DeployTypes
<1>2. n \in 0..2
  <2>1. p \notin freshRows => row[p].retry \in 0..1
    BY <1>1 DEF TriesInv, DeployRow
  <2> QED BY <2>1
<1>3. row' = [row EXCEPT ![p] = r]
  BY DEF StartDeploy
<1>4. r \in DeployRow
      /\ r.status = "IN_PROGRESS"
  <2> HIDE DEF n
  <2> QED BY <1>1, <1>2 DEF DeployStatus, DeployRow
<1> HIDE DEF r
<1>5. /\ row' \in [Project -> DeployRow]
      /\ row'[p].status = "IN_PROGRESS" /\ \A q \in Project \ {p} : row'[q] = row[q]
  BY <1>3, <1>4 DEF TriesInv, DeployTypes
<1>6. DeployTypes'
  BY <1>5 DEF StartDeploy, TriesInv, DeployTypes
<1>7. \A q \in Project : stepAt' \in {<<q, "extract">>, <<q, "build">>} => q = p
  BY DEF StartDeploy
<1>8. retryRows' = retryRows \ {p}
  BY DEF StartDeploy
<1> QED BY <1>5, <1>6, <1>7, <1>8 DEF TriesInv

\* It ends.
LEMMA EndKept ==
  ASSUME TriesInv, NEW p \in Project, stepAt \in {<<p, "extract">>, <<p, "build">>},
         stepAt' = NoStep, UNCHANGED <<freshRows, retryRows, ports, gate>>,
         NEW s \in {"COMPLETED", "FAILED", "PERMANENTLY_FAILED"},
         s = "FAILED" => row[p].retry < 2, s = "PERMANENTLY_FAILED" => row[p].retry >= 2,
         NEW k \in Port \cup {0}, row' = [row EXCEPT ![p].status = s, ![p].port = k]
  PROVE  TriesInv'
<1> DEFINE r == [row[p] EXCEPT !.status = s, !.port = k]
<1>1. row[p] \in DeployRow
  BY DEF TriesInv, DeployTypes
<1>2. /\ r \in DeployRow
      /\ r.status = s /\ r.retry = row[p].retry
  BY <1>1 DEF DeployStatus, DeployRow
<1>3. row' = [row EXCEPT ![p] = r]
  OBVIOUS
<1> HIDE DEF r, DeployRow
<1>4. /\ row' \in [Project -> DeployRow]
      /\ row'[p] = r /\ \A q \in Project \ {p} : row'[q] = row[q]
  <2>1. row \in [Project -> DeployRow]
    BY DEF TriesInv, DeployTypes
  <2> QED BY <1>2, <1>3, <2>1
<1>5. p \notin retryRows
  BY DEF TriesInv
<1>6. DeployTypes'
  BY <1>4 DEF TriesInv, DeployTypes
<1>7. \A q \in Project : stepAt' \notin {<<q, "extract">>, <<q, "build">>}
  BY DEF NoStep
<1>8. r.retry \in 0..2
  BY <1>1, <1>2 DEF DeployRow
<1>9. /\ s = "FAILED" => r.retry <= 1
      /\ s = "PERMANENTLY_FAILED" => r.retry = 2
  BY <1>1, <1>2, <1>8
<1> QED BY <1>2, <1>4, <1>5, <1>6, <1>7, <1>9 DEF TriesInv

LEMMA FailsKept ==
  ASSUME TriesInv, NEW p \in Project, stepAt \in {<<p, "extract">>, <<p, "build">>},
         DeployFails(p), UNCHANGED <<freshRows, retryRows, ports, gate>>
  PROVE  TriesInv'
<1>1. row[p] \in DeployRow
      /\ row \in [Project -> DeployRow]
  BY DEF TriesInv, DeployTypes
<1>2. PICK s \in {"FAILED", "PERMANENTLY_FAILED"} :
        s = IF row[p].retry >= 2 THEN "PERMANENTLY_FAILED" ELSE "FAILED"
  OBVIOUS
<1>3. PICK k \in Port \cup {0} : k = row[p].port
  BY <1>1 DEF DeployRow
<1>4. row' = [row EXCEPT ![p].status = s, ![p].port = k]
  <2>1. [row[p] EXCEPT !.status = s] = [row[p] EXCEPT !.status = s, !.port = k]
    BY <1>1, <1>3
  <2>2. row' = [row EXCEPT ![p] = [row[p] EXCEPT !.status = s]]
    BY <1>2 DEF DeployFails
  <2> QED BY <2>1, <2>2
<1>5. s = "FAILED" => row[p].retry < 2
  <2>1. row[p].retry \in 0..2
    BY <1>1 DEF DeployRow
  <2> QED BY <1>2, <2>1
<1>6. s = "PERMANENTLY_FAILED" => row[p].retry >= 2
  BY <1>2
<1>7. stepAt' = NoStep
  BY DEF DeployFails
<1> QED BY <1>2, <1>4, <1>5, <1>6, <1>7, EndKept

LEMMA StepTries == TriesInv /\ [DeployNext]_deployVars => TriesInv'
<1> SUFFICES ASSUME TriesInv, [DeployNext]_deployVars PROVE TriesInv'
  OBVIOUS
<1>0. ports \in [Project -> Port \cup {0}] /\ gate \in SUBSET Project
  BY DEF TriesInv, DeployTypes
<1>1. CASE CheckRows
  <2> DEFINE now == [p \in Project |->
                       IF Stale(p) THEN [row[p] EXCEPT !.status = "PENDING", !.retry = 0]
                       ELSE row[p]]
  <2>1. /\ row' = now /\ freshRows' \in SUBSET Project /\ stepAt = NoStep /\ stepAt' = stepAt
        /\ retryRows' = {p \in Project : now[p].status \in {"FAILED", "PENDING"}
                                         /\ now[p].retry < MaxDeploys}
        /\ ports' = ports /\ gate' = gate
    BY <1>0, <1>1 DEF CheckRows, NoDeploy
  <2> HIDE DEF now
  <2>2. ASSUME NEW p \in Project
        PROVE  /\ now[p] \in DeployRow
               /\ now[p].status = "FAILED" => now[p].retry <= 1
               /\ now[p].status = "PENDING" => now[p].retry = 0
               /\ now[p].status = "PERMANENTLY_FAILED" => now[p].retry = 2
    <3>1. row[p] \in DeployRow
      BY DEF TriesInv, DeployTypes
    <3>2. CASE Stale(p)
      <4>1. now[p] = [row[p] EXCEPT !.status = "PENDING", !.retry = 0]
        BY <3>2 DEF now
      <4>2. now[p].status = "PENDING" /\ now[p].retry = 0
        BY <3>1, <4>1 DEF DeployRow
      <4>3. now[p] \in DeployRow
        <5>1. 0 \in 0..2
          OBVIOUS
        <5> HIDE DEF now
        <5> QED BY <3>1, <4>1, <5>1 DEF DeployStatus, DeployRow
      <4> QED BY <4>2, <4>3
    <3>3. CASE ~Stale(p)
      <4>1. now[p] = row[p]
        BY <3>3 DEF now
      <4> QED BY <3>1, <4>1 DEF TriesInv
    <3> QED BY <3>2, <3>3
  <2>3. now \in [Project -> DeployRow]
    BY <2>2 DEF now
  <2>4. \A p \in Project : stepAt' \notin {<<p, "extract">>, <<p, "build">>}
    BY <2>1 DEF NoStep
  <2>5. DeployTypes'
    BY <1>0, <2>1, <2>3 DEF DeployTypes
  <2> QED BY <2>1, <2>2, <2>4, <2>5 DEF TriesInv
<1>2. CASE WorkerStops
  <2>1. \A p \in Project : stepAt' \notin {<<p, "extract">>, <<p, "build">>}
    BY <1>2 DEF WorkerStops, NoStep
  <2> QED BY <1>2, <2>1 DEF WorkerStops, TriesInv, DeployTypes
<1>3. CASE UNCHANGED deployVars
  BY <1>0, <1>3, RowsKept DEF deployVars
<1>4. ASSUME NEW p \in Project,
             \/ GateReached(p) \/ Rebuild(p) \/ Serve(p) \/ New(p) \/ RetryDeploy(p)
             \/ NoArtifacts(p) \/ AlreadyRunning(p) \/ Allocate(p)
             \/ BuildFix(p) \/ HealthCheck(p)
             \/ \E label \in {"fe", "be"} : Monitor(p, label)
      PROVE  TriesInv'
  <2>1. CASE \/ GateReached(p) \/ Rebuild(p) \/ Serve(p)
             \/ \E label \in {"fe", "be"} : Monitor(p, label)
    BY <1>0, <2>1, RowsKept DEF GateReached, Rebuild, Serve, Monitor
  <2>2. CASE New(p) \/ RetryDeploy(p)
    BY <2>2, StartKept DEF New, RetryDeploy
  <2>3. CASE NoArtifacts(p) \/ BuildFix(p) \/ HealthCheck(p)
    BY <2>3, FailsKept DEF NoArtifacts, BuildFix, HealthCheck
  <2>4. CASE AlreadyRunning(p)
    <3>1. PICK k \in Port \cup {0} : k = ports[p]
      BY <1>0
    <3>2. /\ row' = [row EXCEPT ![p].status = "COMPLETED", ![p].port = k]
          /\ stepAt = <<p, "extract">> /\ stepAt' = NoStep
          /\ UNCHANGED <<freshRows, retryRows, ports, gate>>
      BY <2>4, <3>1 DEF AlreadyRunning, DeployDone
    <3> QED BY <3>2, EndKept
  <2>5. CASE Allocate(p)
    <3>1. PICK k \in Port : ports' = [ports EXCEPT ![p] = k]
      BY <2>5 DEF Allocate, Usable
    <3>2. /\ ports' \in [Project -> Port \cup {0}] /\ stepAt = <<p, "extract">>
          /\ stepAt' = <<p, "build">> /\ UNCHANGED <<row, freshRows, retryRows, gate>>
      BY <1>0, <2>5, <3>1 DEF Allocate
    <3>3. DeployTypes'
      BY <3>2 DEF TriesInv, DeployTypes
    <3>4. \A q \in Project : stepAt' \in {<<q, "extract">>, <<q, "build">>} => q = p
      BY <3>2
    <3>5. row[p].status = "IN_PROGRESS"
      BY <3>2 DEF TriesInv
    <3> QED BY <3>2, <3>3, <3>4, <3>5 DEF TriesInv
  <2> QED BY <1>4, <2>1, <2>2, <2>3, <2>4, <2>5
<1> QED BY <1>1, <1>2, <1>3, <1>4 DEF DeployNext

\* For any number of projects and ports, whenever the worker is stopped and
\* started: no build is deployed more than three times, and what is marked as
\* failed for good has had its three.
THEOREM TriesCorrect == DeploySpec => []TriesBounded
<1>1. DeployInit => TriesInv
  <2> SUFFICES ASSUME DeployInit PROVE TriesInv
    OBVIOUS
  <2>1. [status |-> "NONE", retry |-> 0, port |-> 0] \in DeployRow
    BY DEF DeployRow, DeployStatus
  <2>2. DeployTypes
    BY <2>1 DEF DeployInit, DeployTypes
  <2> QED BY <2>2 DEF DeployInit, TriesInv, NoStep
<1>2. TriesInv => TriesBounded
  <2> SUFFICES ASSUME TriesInv, NEW p \in Project
               PROVE  /\ row[p].retry < 3
                      /\ row[p].status = "PERMANENTLY_FAILED" => row[p].retry = 2
    BY DEF TriesBounded, MaxDeploys
  <2> QED BY DEF TriesInv, DeployTypes, DeployRow
<1> QED BY <1>1, <1>2, StepTries, PTL DEF DeploySpec
=============================================================================
