----------------------------- MODULE DynamicDag -----------------------------
(***************************************************************************)
(* Repair nodes put into a graph that runs (src/engine/core/               *)
(* dynamic_dag.py), statement by statement and by several callers at once, *)
(* and the topological sort every advance makes of what it finds           *)
(* (src/engine/core/dag_advancer.py).                                      *)
(***************************************************************************)
EXTENDS Integers, Sequences, FiniteSets, SequencesExt

CONSTANTS Repairer,       \* the callers
          FirstNodes,     \* the nodes of the graph intake built are 1..FirstNodes
          MaxInjections,  \* MAX_INJECTIONS_PER_DAG
          MaxHops,        \* MAX_LOOP_HOPS
          MaxMiscounts

\* Finitely many callers; a repair is allowed.
ASSUME RepairAssumption ==
  /\ IsFiniteSet(Repairer) /\ FirstNodes \in Nat
  /\ MaxInjections \in Nat \ {0} /\ MaxHops \in Nat

VARIABLES edgeRows,    \* the active edges
          injectedBy,  \* injected_by of each node, 0 for none
          repairPc,    \* "idle", "parent", "counted", "node", "half", "done", "error"
          failedNode,  \* the failed node a caller repairs
          parentNode,  \* the node its repair is put behind
          newNode,     \* the node it has inserted
          miscounts    \* how often the count of injections raised

repairVars == <<edgeRows, injectedBy, repairPc, failedNode, parentNode, newNode, miscounts>>

NodeRows == DOMAIN injectedBy
DepsOf(n) == {m \in NodeRows : <<m, n>> \in edgeRows}

RepairInit ==
  /\ edgeRows \in SUBSET {e \in (1..FirstNodes) \X (1..FirstNodes) : e[1] < e[2]}
  /\ injectedBy = [n \in 1..FirstNodes |-> 0]
  /\ repairPc = [c \in Repairer |-> "idle"]
  /\ failedNode = [c \in Repairer |-> 0] /\ parentNode = [c \in Repairer |-> 0]
  /\ newNode = [c \in Repairer |-> 0] /\ miscounts = 0

\* Mutant: the query mixes up the two ends of an edge.
AncestorsReversed(n) == {m \in NodeRows : <<n, m>> \in edgeRows}

\* SELECT from_node_id FROM edges WHERE to_node_id = ?.
Ancestors(n) == DepsOf(n)

\* Any predecessor of the failed node, or the node itself when it has none.
RequestRepair(c, n) ==
  /\ repairPc[c] = "idle" /\ n \in NodeRows
  /\ repairPc' = [repairPc EXCEPT ![c] = "parent"]
  /\ failedNode' = [failedNode EXCEPT ![c] = n]
  /\ \E p \in IF Ancestors(n) = {} THEN {n} ELSE Ancestors(n) :
       parentNode' = [parentNode EXCEPT ![c] = p]
  /\ UNCHANGED <<edgeRows, injectedBy, newNode, miscounts>>

Injected == {n \in NodeRows : injectedBy[n] # 0}

\* The nodes injected_by leads to from n, MaxHops of them at most.
NextCause(s) == IF injectedBy[Last(s)] = 0 THEN s ELSE Append(s, injectedBy[Last(s)])
Causes(n) == LET hop[k \in 0..MaxHops] == IF k = 0 THEN <<n>> ELSE NextCause(hop[k - 1])
             IN  hop[MaxHops]
InjectionLoop(n, p) == \/ \E k \in 1..Len(Causes(n)) : k <= MaxHops /\ Causes(n)[k] = p
                       \/ Len(Causes(n)) > MaxHops

\* The limit and the chain are looked at, and nothing is held meanwhile; a
\* count that raises is taken for zero.
CheckLimits(c) ==
  /\ repairPc[c] = "parent"
  /\ \E counted \in {Cardinality(Injected)} \cup IF miscounts < MaxMiscounts THEN {0} ELSE {} :
       /\ repairPc' = [repairPc EXCEPT ![c] =
            IF counted >= MaxInjections \/ InjectionLoop(failedNode[c], parentNode[c])
            THEN "error" ELSE "counted"]
       /\ miscounts' = miscounts + IF counted = Cardinality(Injected) THEN 0 ELSE 1
  /\ UNCHANGED <<edgeRows, injectedBy, failedNode, parentNode, newNode>>

InsertNode(c) ==
  /\ repairPc[c] = "counted"
  /\ LET n == Cardinality(NodeRows) + 1 IN
       /\ injectedBy' = [m \in 1..n |-> IF m = n THEN failedNode[c] ELSE injectedBy[m]]
       /\ newNode' = [newNode EXCEPT ![c] = n]
  /\ repairPc' = [repairPc EXCEPT ![c] = "node"]
  /\ UNCHANGED <<edgeRows, failedNode, parentNode, miscounts>>

InsertEdgeIn(c) == /\ repairPc[c] = "node"
                   /\ edgeRows' = edgeRows \cup {<<parentNode[c], newNode[c]>>}
                   /\ repairPc' = [repairPc EXCEPT ![c] = "half"]
                   /\ UNCHANGED <<injectedBy, failedNode, parentNode, newNode, miscounts>>

InsertEdgeOut(c) == /\ repairPc[c] = "half"
                    /\ edgeRows' = edgeRows \cup {<<newNode[c], failedNode[c]>>}
                    /\ repairPc' = [repairPc EXCEPT ![c] = "done"]
                    /\ UNCHANGED <<injectedBy, failedNode, parentNode, newNode, miscounts>>

\* An INSERT raises: what was inserted before stays.
InsertFails(c) ==
  /\ repairPc[c] \in {"counted", "node", "half"}
  /\ repairPc' = [repairPc EXCEPT ![c] = "error"]
  /\ UNCHANGED <<edgeRows, injectedBy, failedNode, parentNode, newNode, miscounts>>

NextRequest(c) ==
  /\ repairPc[c] \in {"done", "error"}
  /\ repairPc' = [repairPc EXCEPT ![c] = "idle"]
  /\ failedNode' = [failedNode EXCEPT ![c] = 0]
  /\ parentNode' = [parentNode EXCEPT ![c] = 0]
  /\ newNode' = [newNode EXCEPT ![c] = 0]
  /\ UNCHANGED <<edgeRows, injectedBy, miscounts>>

RepairNext ==
  \E c \in Repairer :
    \/ \E n \in NodeRows : RequestRepair(c, n)
    \/ CheckLimits(c) \/ InsertNode(c) \/ InsertEdgeIn(c) \/ InsertEdgeOut(c)
    \/ InsertFails(c) \/ NextRequest(c)

RepairSpec == RepairInit /\ [][RepairNext]_repairVars

(***************************************************************************)
(* Kahn's algorithm: the nodes without predecessors, then every node whose *)
(* last predecessor was taken.                                             *)
(***************************************************************************)
\* The nodes of a set in the order of their rows.
ByRow(set) ==
  [i \in 1..Cardinality(set) |->
     CHOOSE n \in set : Cardinality({m \in set : m <= n}) = i]

Roots == [queue |-> ByRow({n \in NodeRows : DepsOf(n) = {}}), order |-> <<>>,
          degree |-> [n \in NodeRows |-> Cardinality(DepsOf(n))]]
Pop(s) ==
  LET n == Head(s.queue)
      left == [m \in NodeRows |-> s.degree[m] - IF <<n, m>> \in edgeRows THEN 1 ELSE 0]
      freed == {m \in NodeRows : <<n, m>> \in edgeRows /\ left[m] = 0}
  IN  [queue |-> Tail(s.queue) \o ByRow(freed), order |-> Append(s.order, n),
       degree |-> left]
PopNext(s) == IF s.queue = <<>> THEN s ELSE Pop(s)
topological_sort ==
  LET run[k \in 0..Cardinality(NodeRows)] == IF k = 0 THEN Roots ELSE PopNext(run[k - 1])
  IN  run[Cardinality(NodeRows)].order

(***************************************************************************)
(* Properties.                                                             *)
(***************************************************************************)
\* However many repairs are put in at once and wherever one of them breaks
\* off, the sort of an advance takes every node, each after all its
\* predecessors (otherwise the DAG is marked CORRUPTED), and callers that
\* race exceed the limit by no more than one node each, and by one for each
\* count that raised.
RepairsSortable ==
  /\ LET order == topological_sort IN
       /\ Len(order) = Cardinality(NodeRows)
       /\ \A i, j \in DOMAIN order : <<order[i], order[j]>> \in edgeRows => i < j
  /\ Cardinality(Injected) <= MaxInjections + miscounts + Cardinality(Repairer) - 1
=============================================================================
