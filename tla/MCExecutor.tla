----------------------------- MODULE MCExecutor -----------------------------
(* Small graphs of the shape intake builds, for model checking Executor. *)
EXTENDS Executor, TLC

CONSTANTS t1, q1, g, t2, q2, r1, r2, r3

Symmetry == Permutations(Run)

\* One phase, one TASK and its QA.
PairNode  == {t1, q1}
PairType  == t1 :> "TASK" @@ q1 :> "QA"
PairDeps  == t1 :> {} @@ q1 :> {t1}
PairPair  == t1 :> q1 @@ q1 :> t1
PairOrder == <<t1, q1>>

\* The same with the gate that ends the phase.
GatedNode  == {t1, q1, g}
GatedType  == PairType @@ g :> "GATE"
GatedDeps  == PairDeps @@ g :> {q1}
GatedPair  == PairPair @@ g :> g
GatedOrder == <<t1, q1, g>>

\* Two phases with the gate between them.
PhasesNode  == {t1, q1, g, t2, q2}
PhasesType  == PairType @@ g :> "GATE" @@ t2 :> "TASK" @@ q2 :> "QA"
PhasesDeps  == PairDeps @@ g :> {q1} @@ t2 :> {g} @@ q2 :> {t2}
PhasesPair  == PairPair @@ g :> g @@ t2 :> q2 @@ q2 :> t2
PhasesOrder == <<t1, q1, g, t2, q2>>

\* Two independent pairs of one phase.
SideNode  == {t1, q1, t2, q2}
SideType  == PairType @@ t2 :> "TASK" @@ q2 :> "QA"
SideDeps  == PairDeps @@ t2 :> {} @@ q2 :> {t2}
SidePair  == PairPair @@ t2 :> q2 @@ q2 :> t2
SideOrder == <<t1, t2, q1, q2>>
=============================================================================
