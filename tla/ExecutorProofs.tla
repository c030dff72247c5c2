--------------------------- MODULE ExecutorProofs ---------------------------
(***************************************************************************)
(* Proofs about Executor for every graph, outcome set and bound: the type  *)
(* invariant, the semaphore bound and the separation of gates from tasks.  *)
(***************************************************************************)
EXTENDS Executor, FiniteSetTheorems, TLAPS

\* The adopted row is a row.
LEMMA AdoptedType ==
  ASSUME NEW row \in Row, NEW fresh \in Row
  PROVE  Adopted(row, fresh) \in Row
BY DEF Adopted, Row

LEMMA InitialRowType ==
  \A n \in Node : InitialRow(n) \in Row
BY DEF InitialRow, Row, NodeState

\* Order lists nodes, and at least one.
LEMMA OrderNode ==
  /\ \A i \in 1..Len(Order) : Order[i] \in Node
  /\ Order[1] \in Node
<1>1. \A i \in 1..Len(Order) : Order[i] \in Node
  BY OrderAssumption
<1>2. PICK n \in Node : TRUE
  BY GraphAssumption
<1>3. PICK i \in 1..Len(Order) : Order[i] = n
  BY OrderAssumption
<1>4. 1 \in 1..Len(Order)
  BY <1>3, OrderAssumption
<1> QED BY <1>1, <1>4

LEMMA FreeType ==
  /\ Free.pc = "free"
  /\ Free \in Task
BY OrderNode, InitialRowType DEF Free, RunPc, Task, NodeState

LEMMA WaitingType == Waiting \in Advancer /\ Waiting.pc = "wait"
BY InitialRowType DEF Waiting, Advancer, Launch, NodeState

\* A plan is "none" or a state to move to.
LEMMA PlanType ==
  ASSUME NEW n
  PROVE  /\ Plan(n).to \in NodeState \union {"none"}
         /\ Plan(n).launch \in Launch
BY DEF Plan, Launch, NodeState

LEMMA TypeInit == Init => TypeOK
<1> SUFFICES ASSUME Init PROVE TypeOK
  OBVIOUS
<1>1. node \in [Node -> Row]
  BY InitialRowType DEF Init, EngineInit
<1>2. run \in [Run -> Task]
  BY FreeType DEF Init, EngineInit
<1>3. casc \in [Node -> CascadeTask]
  BY InitialRowType DEF Init, NoCascade, CascadeTask
<1>4. adv = Waiting
  BY DEF Init, EngineInit
<1> QED BY <1>1, <1>2, <1>3, <1>4, WaitingType DEF TypeOK, Init, EngineInit

-----------------------------------------------------------------------------
(* Type correctness: the advancer *)

\* Returning from a transition keeps the advancer's and the tasks' types.
LEMMA ReturnType ==
  ASSUME adv \in Advancer, run \in [Run -> Task], Order[adv.i] \in Node,
         NEW row \in Row, Return(row),
         adv.i <= Len(Order)
  PROVE  /\ adv' \in Advancer
         /\ adv'.pc \in {"cas", "reload"} => adv'.i <= Len(Order)
         /\ run' \in [Run -> Task]
<1> DEFINE n    == Order[adv.i]
           what == Follow(n, adv.to, row.state, adv.launch)
           snap == [adv.snap EXCEPT ![n] = row]
<1>0. /\ snap \in [Node -> Row] /\ 0 \in 0..2
      /\ adv.i + 1 \in Nat \ {0} /\ adv.count \in Nat /\ adv.count + 1 \in Nat
  BY DEF Advancer
<1>1. CASE /\ what = "NEXT"
           /\ adv' = [adv EXCEPT !.pc = "eval", !.snap = snap, !.i = @ + 1]
           /\ UNCHANGED run
  <2> HIDE DEF what, snap, n
  <2> QED BY <1>0, <1>1 DEF Advancer
<1>2. CASE /\ what = "LAUNCH"
           /\ Start(n, row)
           /\ adv' = [adv EXCEPT !.pc = "eval", !.snap = snap, !.i = @ + 1,
                        !.count = IF adv.launch = "counted" THEN @ + 1 ELSE @]
  <2>1. PICK r \in FreeRuns :
          run' = [run EXCEPT ![r] = [Free EXCEPT !.pc = "queued", !.node = n,
                                                 !.row = row]]
    BY <1>2 DEF Start
  <2> HIDE DEF what, snap, n
  <2>2. [Free EXCEPT !.pc = "queued", !.node = n, !.row = row] \in Task
    BY FreeType DEF RunPc, Task, n
  <2>3. run' \in [Run -> Task]
    BY <2>1, <2>2
  <2>4. (IF adv.launch = "counted" THEN adv.count + 1 ELSE adv.count) \in Nat
    BY <1>0
  <2> QED BY <1>0, <1>2, <2>3, <2>4 DEF Advancer
<1>3. CASE /\ what \in NodeState
           /\ adv' = [adv EXCEPT !.pc = "cas", !.snap = snap, !.to = what,
                                 !.tries = 0]
           /\ UNCHANGED run
  <2> HIDE DEF what, snap, n
  <2> QED BY <1>0, <1>3 DEF Advancer
<1> QED BY <1>1, <1>2, <1>3 DEF Return

LEMMA TypeAdvance ==
  ASSUME TypeOK, Advance, UNCHANGED execVars
  PROVE  TypeOK'
<1> USE DEF execVars
<1>0. /\ adv.i \in Nat \ {0} /\ adv.to \in NodeState /\ adv.tries \in 0..2
      /\ adv.snap \in [Node -> Row] /\ Len(Order) \in Nat
      /\ 0 \in 0..2 /\ adv.i + 1 \in Nat \ {0}
  BY OrderAssumption DEF TypeOK, Advancer
<1>1. CASE Dequeue
  <2>1. queue' \in Nat
    BY <1>1 DEF Dequeue, TypeOK
  <2>2. adv' \in Advancer
    BY <1>1 DEF Dequeue, TypeOK, Advancer
  <2>3. adv'.pc \in {"wait", "load"}
    BY <1>1 DEF Dequeue, TypeOK, Advancer
  <2> QED BY <1>1, <2>1, <2>2, <2>3 DEF Dequeue, TypeOK
<1>2. CASE Load
  <2> DEFINE count == Cardinality({n \in Node : node[n].state = "IN_PROGRESS"})
  <2>1. count \in Nat
    BY GraphAssumption, FS_Subset, FS_CardinalityType
  <2>2. adv' = [adv EXCEPT !.pc = "eval", !.snap = node, !.i = 1, !.count = count]
    BY <1>2 DEF Load
  <2> HIDE DEF count
  <2>3. 1 \in Nat \ {0} /\ node \in [Node -> Row] /\ adv \in Advancer
    BY DEF TypeOK
  <2>4. adv' \in Advancer /\ adv'.pc = "eval"
    BY <2>1, <2>2, <2>3 DEF Advancer
  <2> QED BY <1>2, <2>4 DEF Load, TypeOK
<1>3. CASE Evaluate
  <2> DEFINE plan == Plan(Order[adv.i])
  <2>1. plan.to \in NodeState \union {"none"} /\ plan.launch \in Launch
    BY PlanType
  <2>2. adv' = IF plan.to = "none" THEN [adv EXCEPT !.i = @ + 1]
               ELSE [adv EXCEPT !.pc = "cas", !.to = plan.to, !.tries = 0,
                                !.launch = plan.launch]
    BY <1>3 DEF Evaluate
  <2> HIDE DEF plan
  <2>3. adv' \in Advancer
    BY <1>0, <2>1, <2>2 DEF TypeOK, Advancer
  <2>4. adv'.pc \in {"cas", "reload"} => adv'.i <= Len(Order)
    BY <1>3, <2>2 DEF Evaluate, TypeOK, Advancer
  <2> QED BY <1>3, <2>3, <2>4 DEF Evaluate, TypeOK
<1>4. CASE Transition
  <2> DEFINE n    == Order[adv.i]
             row  == adv.snap[n]
             done == [row EXCEPT !.state = adv.to, !.version = @ + 1]
  <2>1. adv.pc = "cas" /\ adv.i <= Len(Order) /\ UNCHANGED <<dag, queue, execVars>>
    BY <1>4 DEF Transition, TypeOK
  <2>2. n \in Node
    BY <1>0, <2>1, OrderNode
  <2>3. CASE adv' = Waiting /\ UNCHANGED <<node, run>>
    BY <2>1, <2>3, WaitingType DEF TypeOK
  <2>4. CASE WriteBump(n, adv.to) /\ Return(done)
    <3>1. row \in Row
      BY <1>0, <2>2
    <3>2. done \in Row
      <4> HIDE DEF row
      <4> row.version + 1 \in Nat
        BY <3>1 DEF Row
      <4> QED BY <1>0, <3>1 DEF Row
    <3>3. node' \in [Node -> Row]
      <4> node[n].version + 1 \in Nat
        BY <2>2 DEF Row, TypeOK
      <4> QED BY <1>0, <2>2, <2>4 DEF WriteBump, Row, TypeOK
    <3> HIDE DEF done
    <3> QED BY <2>1, <2>2, <2>4, <3>2, <3>3, ReturnType DEF TypeOK
  <2>5. CASE adv' = [adv EXCEPT !.pc = "reload"] /\ UNCHANGED <<node, run>>
    <3>1. adv' \in Advancer /\ adv'.i = adv.i
      BY <2>5 DEF TypeOK, Advancer
    <3> QED BY <2>1, <2>5, <3>1 DEF TypeOK
  <2> QED BY <1>4, <2>3, <2>4, <2>5 DEF Transition
<1>5. CASE Reload
  <2> DEFINE n   == Order[adv.i]
             row == Adopted(adv.snap[n], node[n])
  <2>1. /\ adv.pc = "reload" /\ adv.i <= Len(Order)
        /\ UNCHANGED <<node, dag, queue, execVars>>
    BY <1>5 DEF Reload, TypeOK
  <2>2. n \in Node
    BY <1>0, <2>1, OrderNode
  <2>3. row \in Row
    BY <1>0, <2>2, AdoptedType DEF TypeOK
  <2> HIDE DEF row
  <2>4. CASE Return(row)
    BY <2>1, <2>2, <2>3, <2>4, ReturnType DEF TypeOK
  <2>5. CASE /\ ~EndsOnReload(node[n], adv.to, adv.tries)
             /\ adv' = [adv EXCEPT !.pc = "cas", !.snap[n] = row, !.tries = @ + 1]
             /\ UNCHANGED run
    <3>1. adv.tries + 1 \in 0..2
      BY <1>0, <2>5 DEF EndsOnReload
    <3>2. [adv.snap EXCEPT ![n] = row] \in [Node -> Row]
      BY <1>0, <2>3
    <3> HIDE DEF n
    <3>3. adv' \in Advancer /\ adv'.i = adv.i
      BY <2>5, <3>1, <3>2 DEF TypeOK, Advancer
    <3> QED BY <2>1, <2>5, <3>3 DEF TypeOK
  <2> QED BY <1>5, <2>4, <2>5 DEF Reload, row
<1>6. CASE Finish
  BY <1>6, WaitingType DEF Finish, TypeOK
<1> QED BY <1>1, <1>2, <1>3, <1>4, <1>5, <1>6 DEF Advance

-----------------------------------------------------------------------------
(* Type correctness: the executor tasks *)

LEMMA GotoType ==
  ASSUME run \in [Run -> Task], NEW r \in Run, NEW pc \in RunPc, Goto(r, pc)
  PROVE  run' \in [Run -> Task]
BY DEF Goto, Task

LEMMA WriteType ==
  ASSUME node \in [Node -> Row], NEW n \in Node, NEW s \in NodeState,
         Write(n, s) \/ WriteBump(n, s)
  PROVE  node' \in [Node -> Row]
<1>1. node[n].version + 1 \in Nat
  BY DEF Row
<1>2. CASE Write(n, s)
  BY <1>2 DEF Write, Row
<1>3. CASE WriteBump(n, s)
  BY <1>1, <1>3 DEF WriteBump, Row
<1> QED BY <1>2, <1>3

LEMMA ReopenGatesType ==
  ASSUME node \in [Node -> Row], NEW q \in Node, ReopenGates(q)
  PROVE  node' \in [Node -> Row]
<1>1. ASSUME NEW n \in Node
      PROVE  [node[n] EXCEPT !.state = "NOT_STARTED"] \in Row /\ node[n] \in Row
  BY DEF Row, NodeState
<1> QED BY <1>1 DEF ReopenGates

LEMMA TypeRunNodeSafe ==
  ASSUME TypeOK, NEW r \in Run, RunNodeSafe(r), UNCHANGED execVars
  PROVE  TypeOK'
<1> USE DEF execVars
<1> DEFINE n == run[r].node
<1>a. /\ run \in [Run -> Task] /\ run[r] \in Task /\ node \in [Node -> Row]
      /\ queue + 1 \in Nat
  BY DEF TypeOK
<1>b. /\ n \in Node /\ run[r].row \in Row
      /\ run[r].to \in NodeState /\ run[r].tries \in 0..2
  BY <1>a DEF Task
<1>c. run[r].row.retry + 1 \in Nat /\ run[r].row.version + 1 \in Nat
  BY <1>b DEF Row
<1>0. /\ n \in Node /\ run[r] \in Task /\ run[r].row \in Row
      /\ run[r].row.retry + 1 \in Nat /\ run[r].row.version + 1 \in Nat
      /\ node \in [Node -> Row] /\ run \in [Run -> Task] /\ queue + 1 \in Nat
      /\ run[r].to \in NodeState /\ run[r].tries \in 0..2
  BY <1>a, <1>b, <1>c
<1>1. CASE Acquire(r)
  <2>1. run' \in [Run -> Task]
    BY <1>0, <1>1, GotoType DEF Acquire, RunPc
  <2> QED BY <1>1, <2>1 DEF Acquire, TypeOK
<1>2. CASE Success(r)
  BY <1>0, <1>2, FreeType DEF Success, TypeOK
<1>3. CASE LimitReached(r)
  <2>1. node' \in [Node -> Row]
    BY <1>0, <1>3, WriteType DEF LimitReached, NodeState
  <2> QED BY <1>0, <1>3, <2>1, FreeType DEF LimitReached, TypeOK
<1>4. CASE CountRetry(r)
  <2> DEFINE retry == run[r].row.retry + 1
             to    == IF retry < MaxRetries THEN "READY" ELSE "FAILED"
  <2>1. /\ node' = [node EXCEPT ![n].retry = retry]
        /\ run' = [run EXCEPT ![r].pc = "cas", ![r].row.retry = retry, ![r].to = to]
        /\ UNCHANGED <<dag, queue, adv, execVars>>
    BY <1>4 DEF CountRetry
  <2>2. to \in NodeState /\ retry \in Nat
    BY <1>0 DEF NodeState
  <2> HIDE DEF retry, to
  <2>3. node' \in [Node -> Row]
    BY <1>0, <2>1, <2>2 DEF Row
  <2>4. run' \in [Run -> Task]
    BY <1>0, <2>1, <2>2 DEF Task, Row, RunPc
  <2> QED BY <2>1, <2>3, <2>4 DEF TypeOK
<1>5. CASE RunTransition(r)
  <2> DEFINE to == run[r].to
  <2>1. UNCHANGED <<dag, queue, adv, execVars>>
    BY <1>5 DEF RunTransition
  <2>2. CASE UNCHANGED node /\ run' = [run EXCEPT ![r].to = "FAILED"]
    BY <1>0, <2>1, <2>2 DEF TypeOK, Task, NodeState
  <2>3. CASE UNCHANGED node /\ run' = [run EXCEPT ![r] = Free]
    BY <2>1, <2>3, FreeType DEF TypeOK
  <2>4. CASE UNCHANGED node /\ run' = [run EXCEPT ![r].pc = "return"]
    <3>1. run' \in [Run -> Task]
      BY <1>0, <2>4, GotoType DEF Goto, RunPc
    <3> QED BY <2>1, <2>4, <3>1 DEF TypeOK
  <2>5. CASE /\ WriteBump(n, to)
             /\ run' = [run EXCEPT ![r].pc = "return", ![r].row.state = to,
                                   ![r].row.version = @ + 1]
    <3>1. node' \in [Node -> Row]
      BY <1>0, <2>5, WriteType
    <3>2. run' \in [Run -> Task]
      BY <1>0, <2>5 DEF Task, Row, RunPc
    <3> QED BY <2>1, <3>1, <3>2 DEF TypeOK
  <2>6. CASE Goto(r, "reload") /\ UNCHANGED node
    <3>1. run' \in [Run -> Task]
      BY <1>0, <2>6, GotoType DEF RunPc
    <3> QED BY <2>1, <2>6, <3>1 DEF TypeOK
  <2> QED BY <1>5, <2>2, <2>3, <2>4, <2>5, <2>6 DEF RunTransition
<1>6. CASE RunReload(r)
  <2> DEFINE row == Adopted(run[r].row, node[n])
  <2>1. row \in Row
    BY <1>0, AdoptedType
  <2>2. /\ run' = IF EndsOnReload(node[n], run[r].to, run[r].tries)
                  THEN [run EXCEPT ![r].pc = "return", ![r].row = row]
                  ELSE [run EXCEPT ![r].pc = "cas", ![r].row = row,
                                   ![r].tries = @ + 1]
        /\ UNCHANGED <<node, dag, queue, adv, execVars>>
    BY <1>6 DEF RunReload
  <2>3. ~EndsOnReload(node[n], run[r].to, run[r].tries) => run[r].tries + 1 \in 0..2
    BY <1>0 DEF EndsOnReload
  <2> HIDE DEF row
  <2>4. run' \in [Run -> Task]
    BY <1>0, <2>1, <2>2, <2>3 DEF Task, RunPc
  <2> QED BY <2>2, <2>4 DEF TypeOK
<1> QED BY <1>1, <1>2, <1>3, <1>4, <1>5, <1>6 DEF RunNodeSafe

\* The defect cascade: it makes rows INVALID under a new version.
SendsBack(r) == FindDefects(r) \/ SendBack(r) \/ SendBackQa(r) \/ SendBackGate(r)

Invalidated(n) ==
  \/ node'[n] = node[n]
  \/ node'[n].state = "INVALID" /\ node'[n].version = node[n].version + 1

RowsSentBack == node' \in [Node -> Row] /\ \A n \in Node : Invalidated(n)

\* The task notes what is left of its list.
ListNoted(r) ==
  /\ run'[r].pc \in {"defects", "defects_qa", "defects_gate", "fail"}
  /\ run'[r].node = run[r].node /\ run'[r].to = run[r].to
  /\ run' \in [Run -> Task] /\ \A s \in Run \ {r} : run'[s] = run[s]

LEMMA SentBack ==
  ASSUME node \in [Node -> Row], NEW m \in Node, WriteBump(m, "INVALID")
  PROVE  RowsSentBack
<1>1. node' \in [Node -> Row]
  BY WriteType DEF NodeState
<1>2. /\ \A n \in Node \ {m} : node'[n] = node[n]
      /\ node'[m].state = "INVALID" /\ node'[m].version = node[m].version + 1
  BY DEF WriteBump, Row
<1> QED BY <1>1, <1>2 DEF RowsSentBack, Invalidated

LEMMA SendsBackStep ==
  ASSUME TypeOK, NEW r \in Run, SendsBack(r)
  PROVE  /\ run[r].pc \in {"pass", "defects", "defects_qa", "defects_gate"}
         /\ ListNoted(r) /\ RowsSentBack
         /\ UNCHANGED <<dag, queue, adv, execVars>>
<1> DEFINE t == run[r]
<1>0. /\ run \in [Run -> Task] /\ t \in Task /\ node \in [Node -> Row]
      /\ t.todo \subseteq Node /\ t.targets \subseteq Node
  BY DEF TypeOK, Task
<1>1. UNCHANGED node => RowsSentBack
  BY <1>0 DEF RowsSentBack, Invalidated
<1>2. ASSUME NEW pc \in {"defects", "defects_qa", "defects_gate", "fail"},
             NEW targets \in SUBSET Node, NEW todo \in SUBSET Node,
             run' = [run EXCEPT ![r] = [t EXCEPT !.pc = pc, !.targets = targets, !.todo = todo]]
      PROVE  ListNoted(r)
  <2>1. pc \in RunPc
    BY <1>2 DEF RunPc
  <2>2. [t EXCEPT !.pc = pc, !.targets = targets, !.todo = todo] \in Task
    BY <1>0, <2>1 DEF Task
  <2> QED BY <1>0, <1>2, <2>2 DEF ListNoted, Task
<1>3. CASE FindDefects(r)
  <2>1. PICK targets \in SUBSET Node :
          run' = [run EXCEPT ![r].pc = "defects", ![r].targets = targets, ![r].todo = targets]
    BY <1>3 DEF FindDefects
  <2>2. run' = [run EXCEPT ![r] = [t EXCEPT !.pc = "defects", !.targets = targets,
                                            !.todo = targets]]
    BY <1>0, <2>1
  <2>3. ListNoted(r)
    BY <1>2, <2>2
  <2> QED BY <1>1, <1>3, <2>3 DEF FindDefects
<1>4. CASE SendBack(r)
  <2>1. PICK m \in t.todo :
          /\ WriteBump(m, "INVALID")
          /\ run' = IF t.todo = {m}
                    THEN [run EXCEPT ![r].pc = "defects_qa", ![r].todo = t.targets]
                    ELSE [run EXCEPT ![r].todo = @ \ {m}]
    BY <1>4 DEF SendBack
  <2>2. m \in Node /\ t.todo \ {m} \in SUBSET Node /\ t.pc = "defects"
    BY <1>0, <1>4 DEF SendBack
  <2>3. ASSUME t.todo = {m} PROVE ListNoted(r)
    <3>1. run' = [run EXCEPT ![r] = [t EXCEPT !.pc = "defects_qa", !.targets = t.targets,
                                              !.todo = t.targets]]
      BY <1>0, <2>1, <2>3 DEF Task
    <3> QED BY <1>0, <1>2, <3>1
  <2>4. ASSUME t.todo # {m} PROVE ListNoted(r)
    <3>1. run' = [run EXCEPT ![r] = [t EXCEPT !.pc = "defects", !.targets = t.targets,
                                              !.todo = t.todo \ {m}]]
      BY <1>0, <2>1, <2>2, <2>4 DEF Task
    <3> QED BY <1>0, <1>2, <2>2, <3>1
  <2>5. RowsSentBack
    <3> HIDE DEF t
    <3> QED BY <1>0, <2>1, <2>2, SentBack
  <2>6. UNCHANGED <<dag, queue, adv, execVars>>
    BY <1>4 DEF SendBack
  <2>7. ListNoted(r)
    BY <2>3, <2>4
  <2> QED BY <2>2, <2>5, <2>6, <2>7
<1>5. CASE SendBackQa(r)
  <2>1. PICK m \in t.todo :
          /\ IF node[Pair[m]].state = "COMPLETED" THEN WriteBump(Pair[m], "INVALID")
                                                  ELSE UNCHANGED node
          /\ run' = [run EXCEPT ![r].pc = IF t.todo = {m} THEN "defects_gate" ELSE @,
                                ![r].todo = @ \ {m}]
    BY <1>5 DEF SendBackQa
  <2>2. Pair[m] \in Node /\ t.todo \ {m} \in SUBSET Node /\ t.pc = "defects_qa"
    BY <1>0, <1>5, GraphAssumption DEF SendBackQa
  <2> DEFINE pc == IF t.todo = {m} THEN "defects_gate" ELSE "defects_qa"
  <2>3. pc \in {"defects_qa", "defects_gate"}
    OBVIOUS
  <2>4. run' = [run EXCEPT ![r] = [t EXCEPT !.pc = pc, !.targets = t.targets,
                                            !.todo = t.todo \ {m}]]
    BY <1>0, <2>1, <2>2 DEF Task
  <2> HIDE DEF pc
  <2>5. ListNoted(r)
    BY <1>0, <1>2, <2>2, <2>3, <2>4
  <2>6. RowsSentBack
    BY <1>0, <1>1, <2>1, <2>2, SentBack
  <2>7. UNCHANGED <<dag, queue, adv, execVars>>
    BY <1>5 DEF SendBackQa
  <2> QED BY <2>2, <2>5, <2>6, <2>7
<1>6. CASE SendBackGate(r)
  <2> DEFINE back(row) == [row EXCEPT !.state = "INVALID", !.version = @ + 1]
  <2>1. ASSUME NEW row \in Row
        PROVE  back(row) \in Row /\ back(row).state = "INVALID" /\ back(row).version = row.version + 1
    <3>1. row.version + 1 \in Nat /\ "INVALID" \in NodeState
      BY DEF Row, NodeState
    <3> QED BY <3>1 DEF Row
  <2>2. node' = [n \in Node |-> IF n \in BuildGate /\ node[n].state = "COMPLETED"
                                THEN back(node[n]) ELSE node[n]]
    BY <1>6 DEF SendBackGate
  <2> HIDE DEF back
  <2>3. RowsSentBack
    BY <1>0, <2>1, <2>2 DEF RowsSentBack, Invalidated
  <2>4. run' = [run EXCEPT ![r] = [t EXCEPT !.pc = "fail", !.targets = {}, !.todo = t.todo]]
    BY <1>0, <1>6 DEF SendBackGate, Task
  <2>5. ListNoted(r)
    BY <1>0, <1>2, <2>4
  <2> QED BY <1>6, <2>3, <2>5 DEF SendBackGate
<1> QED BY <1>3, <1>4, <1>5, <1>6 DEF SendsBack

LEMMA TypeExecuteNode ==
  ASSUME TypeOK, NEW r \in Run, ExecuteNode(r)
  PROVE  TypeOK'
<1> USE DEF execVars
<1> DEFINE n == run[r].node
<1>a. /\ run \in [Run -> Task] /\ run[r] \in Task /\ node \in [Node -> Row]
      /\ stall \in [Node -> Nat] /\ art \in [Node -> Nat] /\ stamp \in [Node -> Nat]
  BY DEF TypeOK
<1>0. n \in Node /\ Pair[n] \in Node /\ run[r].seen \in Nat
  BY <1>a, GraphAssumption DEF Task
\* A step to another control point, and what may happen with it.
<1>1. ASSUME NEW pc \in RunPc, Goto(r, pc)
      PROVE  run' \in [Run -> Task]
  BY <1>a, <1>1, GotoType
<1>2. ASSUME NEW m \in Node, NEW s \in NodeState, Write(m, s) \/ WriteBump(m, s)
      PROVE  node' \in [Node -> Row]
  BY <1>a, <1>2, WriteType
<1>3. ASSUME UNCHANGED <<dag, queue, adv, casc, stall, art, stamp>>,
             run' \in [Run -> Task], node' \in [Node -> Row]
      PROVE  TypeOK'
  BY <1>3 DEF TypeOK
<1>4. CASE StallGuard(r)
  BY <1>a, <1>1, <1>3, <1>4 DEF StallGuard, RunPc
<1>5. CASE PairGuard(r)
  BY <1>a, <1>1, <1>3, <1>5 DEF PairGuard, RunPc
<1>6. CASE DepGuard(r)
  BY <1>a, <1>1, <1>3, <1>6 DEF DepGuard, RunPc
<1>7. CASE SuspendWrite(r)
  BY <1>0, <1>1, <1>2, <1>3, <1>7 DEF SuspendWrite, RunPc, NodeState
<1>8. CASE BlockWrite(r)
  BY <1>0, <1>1, <1>2, <1>3, <1>8 DEF BlockWrite, RunPc, NodeState
<1>9. CASE Complete(r)
  BY <1>0, <1>1, <1>2, <1>3, <1>9 DEF Complete, RunPc, NodeState
<1>10. CASE ReviveQa(r)
  BY <1>a, <1>0, <1>1, <1>2, <1>3, <1>10 DEF ReviveQa, RunPc, NodeState
<1>11. CASE Work(r)
  <2>1. art[n] + 1 \in Nat
    BY <1>a, <1>0
  <2>2. art' \in [Node -> Nat]
    BY <1>a, <1>11, <2>1 DEF Work, SaveArtifact
  <2>3. run' \in [Run -> Task]
    BY <1>1, <1>11 DEF Work, CallFails, RunPc
  <2> QED BY <1>11, <2>2, <2>3 DEF Work, TypeOK
<1>12. CASE Inspect(r)
  <2>1. PICK next \in {"stamp", "pass", "reject_invalid", "reject_completed"} :
          run' = [run EXCEPT ![r].pc = next, ![r].seen = art[Pair[n]]]
    BY <1>12 DEF Inspect, CheckResults
  <2>2. art[Pair[n]] \in Nat
    BY <1>a, <1>0
  <2>3. run' \in [Run -> Task]
    BY <1>a, <2>1, <2>2 DEF Task, RunPc
  <2> QED BY <1>a, <1>3, <1>12, <2>3 DEF Inspect
<1>13. CASE CheckStamp(r)
  <2>1. stamp[n] \in Nat
    BY <1>a, <1>0
  <2>2. run' = IF stamp[n] > 0
               THEN [run EXCEPT ![r].pc = "pass", ![r].seen = stamp[n]]
               ELSE [run EXCEPT ![r].pc = "work"]
    BY <1>13 DEF CheckStamp
  <2>3. run' \in [Run -> Task]
    BY <1>a, <2>1, <2>2 DEF Task, RunPc
  <2> QED BY <1>a, <1>3, <1>13, <2>3 DEF CheckStamp
<1>14. CASE Judge(r)
  <2>1. stamp' \in [Node -> Nat]
    BY <1>a, <1>0, <1>14 DEF Judge, SaveStamp
  <2>2. run' \in [Run -> Task]
    BY <1>1, <1>14 DEF Judge, CallFails, RunPc
  <2> QED BY <1>14, <2>1, <2>2 DEF Judge, TypeOK
<1>15. CASE RejectSelf(r)
  <2>1. stall[n] + 1 \in Nat
    BY <1>a, <1>0
  <2>2. stall' \in [Node -> Nat]
    BY <1>a, <1>15, <2>1 DEF RejectSelf
  <2>3. run' \in [Run -> Task] /\ node' \in [Node -> Row]
    BY <1>0, <1>1, <1>2, <1>15 DEF RejectSelf, RunPc, NodeState
  <2> QED BY <1>15, <2>2, <2>3 DEF RejectSelf, TypeOK
<1>16. CASE RejectTask(r)
  <2>1. stall[Pair[n]] + 1 \in Nat
    BY <1>a, <1>0
  <2>2. stall' \in [Node -> Nat]
    BY <1>a, <1>16, <2>1 DEF RejectTask
  <2>3. run' \in [Run -> Task] /\ node' \in [Node -> Row]
    BY <1>0, <1>1, <1>2, <1>16 DEF RejectTask, RunPc, NodeState
  <2> QED BY <1>16, <2>2, <2>3 DEF RejectTask, TypeOK
<1>17. CASE Cascade(r)
  <2>1. run' \in [Run -> Task]
    BY <1>1, <1>17 DEF Cascade, RunPc
  <2>2. casc' = casc \/ casc' = [casc EXCEPT ![n].pc = "read"]
    BY <1>17 DEF Cascade
  <2>3. [casc[n] EXCEPT !.pc = "read"] \in CascadeTask /\ casc \in [Node -> CascadeTask]
    BY <1>0 DEF TypeOK, CascadeTask
  <2>4. casc' \in [Node -> CascadeTask]
    BY <2>2, <2>3
  <2> QED BY <1>17, <2>1, <2>4 DEF Cascade, TypeOK
<1>18. CASE EarlyInvalidate(r)
  <2>1. node' \in [Node -> Row]
    BY <1>a, <1>0, <1>18 DEF EarlyInvalidate, Row, NodeState
  <2>2. run' \in [Run -> Task]
    BY <1>1, <1>18 DEF EarlyInvalidate, RunPc
  <2> QED BY <1>3, <1>18, <2>1, <2>2 DEF EarlyInvalidate
<1>19. CASE EarlyResetPair(r)
  BY <1>a, <1>0, <1>1, <1>2, <1>3, <1>19 DEF EarlyResetPair, RunPc, NodeState
<1>20. CASE EarlyReopenGates(r)
  <2>1. node' \in [Node -> Row]
    BY <1>a, <1>0, <1>20, ReopenGatesType DEF EarlyReopenGates
  <2>2. run' \in [Run -> Task]
    BY <1>1, <1>20 DEF EarlyReopenGates, RunPc
  <2> QED BY <1>3, <1>20, <2>1, <2>2 DEF EarlyReopenGates
<1>21. CASE RejectCompleted(r)
  BY <1>0, <1>1, <1>2, <1>3, <1>21 DEF RejectCompleted, RunPc, NodeState
<1>22. CASE BuildProgrammatic(r)
  <2>1. art[n] + 1 \in Nat
    BY <1>a, <1>0
  <2>2. art' \in [Node -> Nat]
    BY <1>a, <1>22, <2>1 DEF BuildProgrammatic, SaveArtifact
  <2>3. run' \in [Run -> Task]
    BY <1>1, <1>22 DEF BuildProgrammatic, RunPc
  <2> QED BY <1>22, <2>2, <2>3 DEF BuildProgrammatic, TypeOK
<1>23. CASE BudgetWrite(r)
  BY <1>0, <1>1, <1>2, <1>3, <1>23 DEF BudgetWrite, RunPc, NodeState
<1>24. CASE SendsBack(r)
  BY <1>3, <1>24, SendsBackStep DEF ListNoted, RowsSentBack
<1> QED BY <1>4, <1>5, <1>6, <1>7, <1>8, <1>9, <1>10, <1>11, <1>12, <1>13, <1>14, <1>15, <1>16,
           <1>17, <1>18, <1>19, <1>20, <1>21, <1>22, <1>23, <1>24 DEF ExecuteNode, SendsBack

LEMMA TypeCascadeForNode ==
  ASSUME TypeOK, NEW q \in Node, CascadeForNode(q)
  PROVE  TypeOK'
<1> USE DEF execVars, engine
<1>0. /\ casc \in [Node -> CascadeTask] /\ node \in [Node -> Row]
      /\ NoCascade(q) \in CascadeTask
  BY InitialRowType DEF TypeOK, NoCascade, CascadeTask
<1>1. CASE CascadeRead(q)
  <2>1. PICK pc \in {"apply", "retry"} :
          casc' = [casc EXCEPT ![q] = [pc |-> pc, row |-> node[q]]]
    BY <1>1 DEF CascadeRead
  <2>2. [pc |-> pc, row |-> node[q]] \in CascadeTask
    BY <1>0 DEF CascadeTask
  <2>3. casc' \in [Node -> CascadeTask]
    BY <1>0, <2>1, <2>2
  <2> QED BY <1>1, <2>3 DEF CascadeRead, TypeOK
<1>2. CASE CascadeApply(q)
  <2>1. node' \in [Node -> Row]
    BY <1>0, <1>2, WriteType DEF CascadeApply, NodeState
  <2>2. casc' \in [Node -> CascadeTask]
    BY <1>0, <1>2 DEF CascadeApply, CascadeTask
  <2> QED BY <1>2, <2>1, <2>2 DEF CascadeApply, TypeOK
<1>3. CASE CascadeResetRetry(q)
  <2>1. node' \in [Node -> Row]
    <3>1. 0 \in Nat
      OBVIOUS
    <3> QED BY <1>0, <1>3, <3>1 DEF CascadeResetRetry, Row
  <2>2. casc' \in [Node -> CascadeTask]
    BY <1>0, <1>3 DEF CascadeResetRetry, CascadeTask
  <2> QED BY <1>3, <2>1, <2>2 DEF CascadeResetRetry, TypeOK
<1>4. CASE CascadeReopenGates(q)
  <2>1. node' \in [Node -> Row]
    BY <1>0, <1>4, ReopenGatesType DEF CascadeReopenGates
  <2>2. casc' \in [Node -> CascadeTask]
    BY <1>0, <1>4 DEF CascadeReopenGates, CascadeTask
  <2> QED BY <1>4, <2>1, <2>2 DEF CascadeReopenGates, TypeOK
<1>5. CASE CascadeEnqueue(q)
  <2>1. casc' \in [Node -> CascadeTask]
    BY <1>0, <1>5 DEF CascadeEnqueue
  <2> QED BY <1>5, <2>1 DEF CascadeEnqueue, TypeOK
<1> QED BY <1>1, <1>2, <1>3, <1>4, <1>5 DEF CascadeForNode

LEMMA TypeNext == TypeOK /\ [Next]_vars => TypeOK'
<1> SUFFICES ASSUME TypeOK, [Next]_vars PROVE TypeOK'
  OBVIOUS
<1>1. CASE Advance /\ UNCHANGED execVars
  BY <1>1, TypeAdvance
<1>2. ASSUME NEW r \in Run, Execute(r) PROVE TypeOK'
  BY <1>2, TypeRunNodeSafe, TypeExecuteNode DEF Execute
<1>3. ASSUME NEW q \in Node, CascadeForNode(q) PROVE TypeOK'
  BY <1>3, TypeCascadeForNode
<1>4. CASE UNCHANGED vars
  BY <1>4 DEF vars, engine, execVars, TypeOK
<1> QED BY <1>1, <1>2, <1>3, <1>4 DEF Next, Poll

\* Whatever the graph, the outcomes and the interleaving, the columns of the
\* nodes table and the in-memory state of advancer and tasks keep their types.
THEOREM TypeCorrect == Spec => []TypeOK
BY TypeInit, TypeNext, PTL DEF Spec
-----------------------------------------------------------------------------
(* What a step of a task may change among the tasks *)

\* A step of an executor is a step of a task that holds a slot and keeps it.
LEMMA ExecuteNodeRun ==
  ASSUME TypeOK, NEW r \in Run, ExecuteNode(r)
  PROVE  /\ run[r].pc \notin {"free", "queued"}
         /\ run'[r].node = run[r].node
         /\ \A s \in Run \ {r} : run'[s] = run[s]
<1> run \in [Run -> Task] /\ run[r] \in Task
  BY DEF TypeOK
<1>1. \A pc : Goto(r, pc) => /\ run'[r].node = run[r].node
                             /\ \A s \in Run \ {r} : run'[s] = run[s]
  BY DEF Goto, Task
<1>2. CASE StallGuard(r) \/ PairGuard(r) \/ DepGuard(r) \/ SuspendWrite(r)
           \/ BlockWrite(r) \/ Work(r) \/ BuildProgrammatic(r) \/ Complete(r) \/ ReviveQa(r)
  BY <1>1, <1>2 DEF StallGuard, PairGuard, DepGuard, SuspendWrite, BlockWrite, Work,
                    CallFails, BuildProgrammatic, Complete, ReviveQa
<1>3. CASE Judge(r) \/ RejectSelf(r) \/ RejectCompleted(r) \/ RejectTask(r) \/ Cascade(r)
           \/ EarlyInvalidate(r) \/ EarlyResetPair(r) \/ EarlyReopenGates(r)
  BY <1>1, <1>3 DEF Judge, CallFails, RejectSelf, RejectCompleted, RejectTask, Cascade,
                    EarlyInvalidate, EarlyResetPair, EarlyReopenGates
<1>4. CASE Inspect(r)
  BY <1>4 DEF Inspect, CheckResults, Task
<1>5. CASE CheckStamp(r)
  BY <1>5 DEF CheckStamp, Task
<1>6. CASE BudgetWrite(r)
  BY <1>1, <1>6 DEF BudgetWrite
<1>7. CASE SendsBack(r)
  BY <1>7, SendsBackStep DEF ListNoted
<1> QED BY <1>2, <1>3, <1>4, <1>5, <1>6, <1>7 DEF ExecuteNode, SendsBack

\* A step of the wrapper, other than the acquisition, is one of a task that
\* holds a slot; it keeps its node or ends.
LEMMA RunNodeSafeRun ==
  ASSUME TypeOK, NEW r \in Run, RunNodeSafe(r)
  PROVE  /\ Acquire(r) \/ run[r].pc \notin {"free", "queued"}
         /\ run'[r].pc = "free" \/ run'[r].node = run[r].node
         /\ \A s \in Run \ {r} : run'[s] = run[s]
<1> run \in [Run -> Task] /\ run[r] \in Task /\ Free.pc = "free"
  BY FreeType DEF TypeOK
<1>1. CASE Acquire(r) \/ Success(r) \/ LimitReached(r) \/ CountRetry(r)
  BY <1>1 DEF Acquire, Success, LimitReached, CountRetry, Goto, Task
<1>2. CASE RunTransition(r) \/ RunReload(r)
  BY <1>2 DEF RunTransition, RunReload, Goto, Task
<1> QED BY <1>1, <1>2 DEF RunNodeSafe

\* The advancer starts tasks and touches no running one.
LEMMA AdvanceRun ==
  ASSUME TypeOK, Advance
  PROVE  \A s \in Run : run'[s] = run[s] \/ (run[s].pc = "free" /\ run'[s].pc = "queued")
<1> run \in [Run -> Task]
  BY DEF TypeOK
<1>1. ASSUME NEW row, Return(row)
      PROVE  \A s \in Run : run'[s] = run[s] \/ (run[s].pc = "free" /\ run'[s].pc = "queued")
  <2>1. CASE UNCHANGED run
    BY <2>1
  <2>2. CASE Start(Order[adv.i], row)
    <3>1. PICK r \in FreeRuns :
            run' = [run EXCEPT ![r] = [Free EXCEPT !.pc = "queued",
                                         !.node = Order[adv.i], !.row = row]]
      BY <2>2 DEF Start
    <3> DEFINE new == [Free EXCEPT !.pc = "queued", !.node = Order[adv.i], !.row = row]
    <3>2. new.pc = "queued"
      BY FreeType DEF Task
    <3> HIDE DEF new
    <3> QED BY <3>1, <3>2 DEF FreeRuns, new
  <2> QED BY <1>1, <2>1, <2>2 DEF Return
<1>2. CASE Dequeue \/ Load \/ Evaluate \/ Finish
  BY <1>2 DEF Dequeue, Load, Evaluate, Finish
<1>3. CASE Transition \/ Reload
  BY <1>1, <1>3 DEF Transition, Reload
<1> QED BY <1>2, <1>3 DEF Advance

-----------------------------------------------------------------------------
(* The semaphore *)

LEMMA HoldingFinite == IsFiniteSet(Holding)
BY BoundAssumption, FS_Subset DEF Holding

LEMMA SlotsInit == Init => SlotsBounded
<1> SUFFICES ASSUME Init PROVE SlotsBounded
  OBVIOUS
<1>1. Holding = {}
  BY FreeType DEF Init, EngineInit, Holding
<1>2. Cardinality({}) = 0
  BY FS_EmptySet
<1> QED BY <1>1, <1>2, BoundAssumption DEF SlotsBounded

LEMMA SlotsShrink ==
  ASSUME SlotsBounded, Holding' \subseteq Holding
  PROVE  SlotsBounded'
<1>1. /\ Cardinality(Holding') <= Cardinality(Holding)
      /\ Cardinality(Holding') \in Nat /\ Cardinality(Holding) \in Nat
  BY HoldingFinite, FS_Subset, FS_CardinalityType
<1> QED BY <1>1, BoundAssumption DEF SlotsBounded

LEMMA SlotsNext == TypeOK /\ SlotsBounded /\ [Next]_vars => SlotsBounded'
<1> SUFFICES ASSUME TypeOK, SlotsBounded, [Next]_vars PROVE SlotsBounded'
  OBVIOUS
<1>1. CASE Advance
  BY <1>1, AdvanceRun, SlotsShrink DEF Holding
<1>2. ASSUME NEW r \in Run, ExecuteNode(r) PROVE SlotsBounded'
  BY <1>2, ExecuteNodeRun, SlotsShrink DEF Holding
<1>3. ASSUME NEW r \in Run, Acquire(r) PROVE SlotsBounded'
  <2>1. Holding' \subseteq Holding \union {r} /\ r \notin Holding
    BY <1>3 DEF Acquire, Goto, Holding, TypeOK
  <2>2. /\ IsFiniteSet(Holding \union {r})
        /\ Cardinality(Holding \union {r}) = Cardinality(Holding) + 1
    BY <2>1, HoldingFinite, FS_AddElement
  <2>3. Cardinality(Holding') <= Cardinality(Holding) + 1
    BY <2>1, <2>2, FS_Subset
  <2>4. Cardinality(Holding) < MaxConcurrent
    BY <1>3 DEF Acquire
  <2>5. Cardinality(Holding) \in Nat /\ Cardinality(Holding') \in Nat
    BY <2>1, <2>2, HoldingFinite, FS_Subset, FS_CardinalityType
  <2> QED BY <2>3, <2>4, <2>5, BoundAssumption DEF SlotsBounded
<1>4. ASSUME NEW r \in Run, RunNodeSafe(r), ~Acquire(r) PROVE SlotsBounded'
  BY <1>4, RunNodeSafeRun, SlotsShrink DEF Holding
<1>5. ASSUME NEW q \in Node, CascadeForNode(q) PROVE SlotsBounded'
  <2>1. UNCHANGED run
    BY <1>5 DEF CascadeForNode, CascadeRead, CascadeApply, CascadeResetRetry,
                CascadeReopenGates, CascadeEnqueue, engine
  <2> QED BY <2>1, SlotsShrink DEF Holding
<1>6. CASE UNCHANGED vars
  BY <1>6, SlotsShrink DEF Holding, vars, engine
<1> QED BY <1>1, <1>2, <1>3, <1>4, <1>5, <1>6 DEF Next, Execute, Poll

\* However many tasks a stale count has launched, at most MAX_CONCURRENT_NODES
\* of them are between the acquisition and the release of the semaphore.
THEOREM SlotsCorrect == Spec => []SlotsBounded
<1>1. Init => TypeOK /\ SlotsBounded
  BY TypeInit, SlotsInit
<1>2. TypeOK /\ SlotsBounded /\ [Next]_vars => TypeOK' /\ SlotsBounded'
  BY TypeNext, SlotsNext
<1> QED BY <1>1, <1>2, PTL DEF Spec

-----------------------------------------------------------------------------
(* Gates *)

GateState == NodeState \ {"FAILED"}

IsGate(n) == Type[n] = "GATE"

\* Why a gate is never executed: it is never FAILED, in the table or in the
\* snapshot, a transition of it is never an automatic retry, and the tasks
\* that write other nodes than their own start from a QA.
GatesApart ==
  /\ GatesNeverRun
  /\ \A n \in Node : IsGate(n) => node[n].state \in GateState
  /\ \A n \in Node : IsGate(n) => adv.snap[n].state \in GateState
  /\ adv.pc \in {"cas", "reload"} /\ IsGate(Order[adv.i]) =>
        adv.to \in GateState /\ adv.launch # "uncounted"
  /\ \A r \in Run : run[r].pc \in {"approve", "cascade"} => Type[run[r].node] = "QA"
  /\ \A q \in Node : casc[q].pc # "idle" => Type[q] = "QA"

\* Neither a task nor its pair is a gate.
LEMMA TaskNode ==
  ASSUME TypeOK, GatesNeverRun, NEW r \in Run, run[r].pc # "free"
  PROVE  /\ run[r].node \in Node /\ ~IsGate(run[r].node)
         /\ Pair[run[r].node] \in Node /\ ~IsGate(Pair[run[r].node])
<1>1. run[r].node \in Node /\ ~IsGate(run[r].node)
  BY DEF TypeOK, Task, GatesNeverRun, IsGate
<1>2. Type[run[r].node] \in {"TASK", "QA"}
  BY <1>1, GraphAssumption DEF NodeType, IsGate
<1> QED BY <1>1, <1>2, GraphAssumption DEF IsGate

\* Reopening gates leaves them in a gate's states.
LEMMA ReopenGatesGate ==
  ASSUME node \in [Node -> Row], NEW q, ReopenGates(q), NEW g \in Node,
         node[g].state \in GateState
  PROVE  node'[g].state \in GateState
<1>1. [node[g] EXCEPT !.state = "NOT_STARTED"].state = "NOT_STARTED"
  BY DEF Row
<1> QED BY <1>1 DEF ReopenGates, GateState, NodeState

\* An executor leaves every gate in a gate's states.
LEMMA ExecuteNodeGate ==
  ASSUME TypeOK, GatesApart, NEW r \in Run, ExecuteNode(r)
  PROVE  \A g \in Node : IsGate(g) => node'[g].state \in GateState
<1> DEFINE n == run[r].node
<1>0. /\ run[r].pc # "free" /\ node \in [Node -> Row]
      /\ n \in Node /\ ~IsGate(n) /\ Pair[n] \in Node /\ ~IsGate(Pair[n])
  BY ExecuteNodeRun, TaskNode DEF TypeOK, GatesApart
<1>1. CASE EarlyReopenGates(r)
  BY <1>0, <1>1, ReopenGatesGate DEF EarlyReopenGates, GatesApart
<1>2. CASE \A g \in Node \ {n, Pair[n]} : node'[g] = node[g]
  BY <1>0, <1>2 DEF GatesApart
<1>3. \A m, s : Write(m, s) \/ WriteBump(m, s) =>
        \A g \in Node \ {m} : node'[g] = node[g]
  BY <1>0 DEF Write, WriteBump
<1>4. CASE StallGuard(r) \/ PairGuard(r) \/ DepGuard(r) \/ SuspendWrite(r)
           \/ BlockWrite(r) \/ Work(r) \/ BuildProgrammatic(r) \/ Complete(r) \/ ReviveQa(r)
  BY <1>2, <1>3, <1>4 DEF StallGuard, PairGuard, DepGuard, SuspendWrite, BlockWrite,
                          Work, BuildProgrammatic, Complete, ReviveQa
<1>5. CASE Inspect(r) \/ CheckStamp(r) \/ Judge(r) \/ RejectSelf(r) \/ RejectCompleted(r)
           \/ RejectTask(r) \/ Cascade(r) \/ EarlyResetPair(r)
  BY <1>2, <1>3, <1>5 DEF Inspect, CheckStamp, Judge, RejectSelf, RejectCompleted,
                          RejectTask, Cascade, EarlyResetPair
<1>6. CASE EarlyInvalidate(r)
  BY <1>0, <1>2, <1>6 DEF EarlyInvalidate
<1>7. CASE BudgetWrite(r)
  BY <1>2, <1>3, <1>7 DEF BudgetWrite
<1>8. CASE SendsBack(r)
  <2>1. "INVALID" \in GateState
    BY DEF GateState, NodeState
  <2> QED BY <1>8, <2>1, SendsBackStep DEF GatesApart, RowsSentBack, Invalidated
<1> QED BY <1>1, <1>4, <1>5, <1>6, <1>7, <1>8 DEF ExecuteNode, SendsBack

\* Only the approval of a QA leads to the cascade.
LEMMA ExecuteNodeQa ==
  ASSUME TypeOK, GatesApart, NEW r \in Run, ExecuteNode(r)
  PROVE  /\ run'[r].pc \in {"approve", "cascade"} => Type[run[r].node] = "QA"
         /\ \A q \in Node : casc'[q].pc # "idle" => Type[q] = "QA"
<1> run \in [Run -> Task] /\ casc \in [Node -> CascadeTask]
  BY DEF TypeOK
<1>0. \A pc : Goto(r, pc) => run'[r].pc = pc
  BY DEF Goto, Task
<1>1. CASE Judge(r) \/ Complete(r)
  BY <1>0, <1>1 DEF Judge, CallFails, Complete, GatesApart, execVars
<1>2. CASE Cascade(r)
  <2>1. Type[run[r].node] = "QA" /\ run'[r].pc \in {"early", "return"}
    BY <1>0, <1>2 DEF Cascade, GatesApart
  <2>2. \A q \in Node \ {run[r].node} : casc'[q] = casc[q]
    BY <1>2 DEF Cascade
  <2> QED BY <2>1, <2>2 DEF GatesApart
<1>3. CASE StallGuard(r) \/ PairGuard(r) \/ DepGuard(r) \/ SuspendWrite(r)
           \/ BlockWrite(r) \/ Work(r) \/ BuildProgrammatic(r) \/ ReviveQa(r)
  BY <1>0, <1>3 DEF StallGuard, PairGuard, DepGuard, SuspendWrite, BlockWrite, Work,
                    CallFails, BuildProgrammatic, ReviveQa, GatesApart, execVars
<1>4. CASE RejectSelf(r) \/ RejectCompleted(r) \/ RejectTask(r) \/ EarlyInvalidate(r)
           \/ EarlyResetPair(r) \/ EarlyReopenGates(r)
  BY <1>0, <1>4 DEF RejectSelf, RejectCompleted, RejectTask, EarlyInvalidate, EarlyResetPair,
                    EarlyReopenGates, GatesApart, execVars
<1>5. CASE Inspect(r)
  <2>1. run'[r].pc \in {"stamp", "pass", "reject_invalid", "reject_completed"}
    BY <1>5 DEF Inspect, CheckResults, Task
  <2> QED BY <1>5, <2>1 DEF Inspect, GatesApart, execVars
<1>6. CASE CheckStamp(r)
  <2>1. run'[r].pc \in {"pass", "work"}
    BY <1>6 DEF CheckStamp, Task
  <2> QED BY <1>6, <2>1 DEF CheckStamp, GatesApart, execVars
<1>7. CASE BudgetWrite(r)
  BY <1>0, <1>7 DEF BudgetWrite, GatesApart, execVars
<1>8. CASE SendsBack(r)
  BY <1>8, SendsBackStep DEF ListNoted, GatesApart, execVars
<1> QED BY <1>1, <1>2, <1>3, <1>4, <1>5, <1>6, <1>7, <1>8 DEF ExecuteNode, SendsBack

\* The advancer's position names a node.
LEMMA InOrder ==
  ASSUME TypeOK, adv.i <= Len(Order)
  PROVE  Order[adv.i] \in Node
<1>1. adv.i \in Nat /\ adv.i >= 1
  BY DEF TypeOK, Advancer
<1>2. Len(Order) \in Nat
  BY OrderAssumption
<1> QED BY <1>1, <1>2, OrderNode

\* What a transition of the advancer leads to, for a gate.
LEMMA FollowGate ==
  ASSUME NEW n, IsGate(n), NEW to, NEW s, NEW launch, launch # "uncounted"
  PROVE  Follow(n, to, s, launch)
           \in {"IN_PROGRESS", "COMPLETED", "AWAITING_APPROVAL", "NEXT"}
BY DEF Follow, IsGate

LEMMA PlanGate ==
  ASSUME NEW n, IsGate(n), adv.snap[n].state \in GateState
  PROVE  Plan(n).to \in GateState \union {"none"} /\ Plan(n).launch # "uncounted"
BY DEF Plan, GateState, NodeState

\* Returning from a transition keeps gates apart.
LEMMA ReturnGate ==
  ASSUME TypeOK, GatesApart, adv.pc \in {"cas", "reload"}, NEW row \in Row,
         IsGate(Order[adv.i]) => row.state \in GateState, Return(row)
  PROVE  /\ GatesNeverRun'
         /\ \A n \in Node : IsGate(n) => adv'.snap[n].state \in GateState
         /\ adv'.pc \in {"cas", "reload"} /\ IsGate(Order[adv'.i]) =>
               adv'.to \in GateState /\ adv'.launch # "uncounted"
         /\ \A r \in Run : run'[r] = run[r] \/ run'[r].pc = "queued"
<1> DEFINE m    == Order[adv.i]
           what == Follow(m, adv.to, row.state, adv.launch)
           snap == [adv.snap EXCEPT ![m] = row]
<1>0. /\ adv.snap \in [Node -> Row] /\ run \in [Run -> Task] /\ m \in Node
      /\ IsGate(m) => adv.launch # "uncounted"
  <2>1. adv.snap \in [Node -> Row] /\ run \in [Run -> Task] /\ adv.i <= Len(Order)
    BY DEF TypeOK, Advancer
  <2> QED BY <2>1, InOrder DEF GatesApart
<1>1. \A n \in Node : IsGate(n) => snap[n].state \in GateState
  BY <1>0 DEF GatesApart
<1>2. IsGate(m) => what \in GateState \union {"NEXT"}
  BY <1>0, FollowGate DEF GateState, NodeState
<1> HIDE DEF what, snap, m
<1>3. CASE /\ what = "NEXT"
           /\ adv' = [adv EXCEPT !.pc = "eval", !.snap = snap, !.i = @ + 1]
           /\ UNCHANGED run
  <2>1. adv'.pc = "eval" /\ adv'.snap = snap
    BY <1>3 DEF TypeOK, Advancer
  <2> QED BY <1>1, <1>3, <2>1 DEF GatesApart, GatesNeverRun
<1>4. CASE /\ what = "LAUNCH"
           /\ Start(m, row)
           /\ adv' = [adv EXCEPT !.pc = "eval", !.snap = snap, !.i = @ + 1,
                        !.count = IF adv.launch = "counted" THEN @ + 1 ELSE @]
  <2>1. adv'.pc = "eval" /\ adv'.snap = snap
    BY <1>4 DEF TypeOK, Advancer
  <2>2. ~IsGate(m)
    BY <1>2, <1>4 DEF GateState, NodeState
  <2>3. PICK r \in FreeRuns :
          run' = [run EXCEPT ![r] = [Free EXCEPT !.pc = "queued", !.node = m,
                                                 !.row = row]]
    BY <1>4 DEF Start
  <2>4. /\ run'[r].node = m /\ run'[r].pc = "queued"
        /\ \A s \in Run \ {r} : run'[s] = run[s]
    BY <1>0, <2>3, FreeType DEF Task, FreeRuns
  <2> QED BY <1>1, <2>1, <2>2, <2>4 DEF GatesApart, GatesNeverRun, IsGate
<1>5. CASE /\ what \in NodeState
           /\ adv' = [adv EXCEPT !.pc = "cas", !.snap = snap, !.to = what,
                                 !.tries = 0]
           /\ UNCHANGED run
  <2>1. adv'.i = adv.i /\ adv'.snap = snap /\ adv'.to = what /\ adv'.launch = adv.launch
    BY <1>5 DEF TypeOK, Advancer
  <2> QED BY <1>0, <1>1, <1>2, <1>5, <2>1 DEF GatesApart, GatesNeverRun, NodeState, m
<1> QED BY <1>3, <1>4, <1>5 DEF Return, what, snap, m

LEMMA GatesInit == Init => GatesApart
<1> SUFFICES ASSUME Init PROVE GatesApart
  OBVIOUS
<1>1. \A r \in Run : run[r].pc = "free"
  BY FreeType DEF Init, EngineInit
<1>2. \A n \in Node : node[n].state \in GateState /\ adv.snap[n].state \in GateState
  BY DEF Init, EngineInit, Waiting, InitialRow, GateState, NodeState
<1>3. adv.pc = "wait" /\ \A q \in Node : casc[q].pc = "idle"
  BY DEF Init, EngineInit, Waiting, NoCascade
<1> QED BY <1>1, <1>2, <1>3 DEF GatesApart, GatesNeverRun

LEMMA GatesAdvance ==
  ASSUME TypeOK, GatesApart, Advance, UNCHANGED execVars
  PROVE  GatesApart'
<1>0. /\ run \in [Run -> Task] /\ adv \in Advancer /\ node \in [Node -> Row]
      /\ UNCHANGED casc
  BY DEF TypeOK, execVars
<1>1. CASE Dequeue
  <2>1. adv'.pc \in {"wait", "load"} /\ adv'.snap = adv.snap
    BY <1>0, <1>1 DEF Dequeue, Advancer
  <2> QED BY <1>0, <1>1, <2>1 DEF Dequeue, GatesApart, GatesNeverRun
<1>2. CASE Load
  <2>1. adv'.pc = "eval" /\ adv'.snap = node
    BY <1>0, <1>2 DEF Load, Advancer
  <2> QED BY <1>0, <1>2, <2>1 DEF Load, GatesApart, GatesNeverRun
<1>3. CASE Evaluate
  <2> DEFINE m    == Order[adv.i]
             plan == Plan(m)
  <2>1. m \in Node
    BY <1>0, <1>3, OrderNode, OrderAssumption DEF Evaluate, Advancer
  <2>2. IsGate(m) => plan.to \in GateState \union {"none"} /\ plan.launch # "uncounted"
    BY <2>1, PlanGate DEF GatesApart
  <2>3. adv' = IF plan.to = "none" THEN [adv EXCEPT !.i = @ + 1]
               ELSE [adv EXCEPT !.pc = "cas", !.to = plan.to, !.tries = 0,
                                !.launch = plan.launch]
    BY <1>3 DEF Evaluate
  <2> HIDE DEF plan
  <2>4. adv'.snap = adv.snap
    BY <1>0, <2>3 DEF Advancer
  <2>5. adv'.pc \in {"cas", "reload"} /\ IsGate(Order[adv'.i]) =>
          adv'.to \in GateState /\ adv'.launch # "uncounted"
    <3>1. CASE plan.to = "none"
      BY <1>0, <1>3, <2>3, <3>1 DEF Evaluate, Advancer
    <3>2. CASE plan.to # "none"
      <4>1. adv'.i = adv.i /\ adv'.to = plan.to /\ adv'.launch = plan.launch
        BY <1>0, <2>3, <3>2 DEF Advancer
      <4> QED BY <2>2, <3>2, <4>1
    <3> QED BY <3>1, <3>2
  <2> QED BY <1>0, <1>3, <2>4, <2>5 DEF Evaluate, GatesApart, GatesNeverRun
<1>4. CASE Transition
  <2> DEFINE m    == Order[adv.i]
             row  == adv.snap[m]
             done == [row EXCEPT !.state = adv.to, !.version = @ + 1]
  <2>1. m \in Node /\ adv.pc = "cas" /\ row \in Row /\ adv.to \in NodeState
    <3>1. m \in Node /\ adv.pc = "cas"
      BY <1>4, InOrder DEF Transition, TypeOK
    <3> QED BY <1>0, <3>1 DEF Advancer
  <2>2. CASE adv' = Waiting /\ UNCHANGED <<node, run>>
    <3>1. \A n \in Node : Waiting.snap[n].state \in GateState
      BY DEF Waiting, InitialRow, GateState, NodeState
    <3> QED BY <1>0, <2>2, <3>1, WaitingType DEF GatesApart, GatesNeverRun
  <2>3. CASE WriteBump(m, adv.to) /\ Return(done)
    <3>1. done \in Row /\ done.state = adv.to
      <4> HIDE DEF row
      <4>1. row.version + 1 \in Nat
        BY <2>1 DEF Row
      <4> QED BY <2>1, <4>1 DEF Row
    <3>2. \A n \in Node : IsGate(n) => node'[n].state \in GateState
      BY <1>0, <2>1, <2>3 DEF WriteBump, Row, GatesApart
    <3> HIDE DEF done
    <3>3. IsGate(m) => done.state \in GateState
      BY <2>1, <3>1 DEF GatesApart
    <3> QED BY <1>0, <2>1, <2>3, <3>1, <3>2, <3>3, ReturnGate DEF GatesApart
  <2>4. CASE adv' = [adv EXCEPT !.pc = "reload"] /\ UNCHANGED <<node, run>>
    <3>1. adv'.i = adv.i /\ adv'.snap = adv.snap /\ adv'.to = adv.to
          /\ adv'.launch = adv.launch
      BY <1>0, <2>4 DEF Advancer
    <3> QED BY <1>0, <2>1, <2>4, <3>1 DEF GatesApart, GatesNeverRun
  <2> QED BY <1>4, <2>2, <2>3, <2>4 DEF Transition
<1>5. CASE Reload
  <2> DEFINE m   == Order[adv.i]
             row == Adopted(adv.snap[m], node[m])
  <2>1. m \in Node /\ adv.pc = "reload" /\ UNCHANGED node
    BY <1>0, <1>5, OrderNode, OrderAssumption DEF Reload, TypeOK, Advancer
  <2>2. row \in Row /\ row.state = node[m].state
    BY <1>0, <2>1, AdoptedType DEF Adopted, Row, Advancer
  <2> HIDE DEF row
  <2>3. IsGate(m) => row.state \in GateState
    BY <2>1, <2>2 DEF GatesApart
  <2>4. CASE Return(row)
    BY <1>0, <2>1, <2>2, <2>3, <2>4, ReturnGate DEF GatesApart
  <2>5. CASE /\ adv' = [adv EXCEPT !.pc = "cas", !.snap[m] = row, !.tries = @ + 1]
             /\ UNCHANGED run
    <3>1. adv'.i = adv.i /\ adv'.to = adv.to /\ adv'.launch = adv.launch
          /\ adv'.snap = [adv.snap EXCEPT ![m] = row]
      BY <1>0, <2>5 DEF Advancer
    <3>2. \A n \in Node : IsGate(n) => adv'.snap[n].state \in GateState
      BY <1>0, <2>3, <3>1 DEF GatesApart, Advancer
    <3> QED BY <1>0, <2>1, <2>5, <3>1, <3>2 DEF GatesApart, GatesNeverRun
  <2> QED BY <1>5, <2>4, <2>5 DEF Reload, row
<1>6. CASE Finish
  <2>1. \A n \in Node : Waiting.snap[n].state \in GateState
    BY DEF Waiting, InitialRow, GateState, NodeState
  <2> QED BY <1>0, <1>6, <2>1, WaitingType DEF Finish, GatesApart, GatesNeverRun
<1> QED BY <1>1, <1>2, <1>3, <1>4, <1>5, <1>6 DEF Advance

LEMMA GatesRunNodeSafe ==
  ASSUME TypeOK, GatesApart, NEW r \in Run, RunNodeSafe(r), UNCHANGED execVars
  PROVE  GatesApart'
<1> DEFINE n == run[r].node
<1>0. /\ run \in [Run -> Task] /\ node \in [Node -> Row] /\ UNCHANGED casc
      /\ UNCHANGED adv
  BY DEF TypeOK, execVars, RunNodeSafe, Acquire, Success, LimitReached, CountRetry,
         RunTransition, RunReload
<1>1. run[r].pc # "free" /\ n \in Node /\ ~IsGate(n)
  <2>1. run[r].pc # "free"
    BY DEF RunNodeSafe, Acquire, Success, LimitReached, CountRetry, RunTransition,
           RunReload
  <2> QED BY <2>1, TaskNode DEF GatesApart
<1>2. \A g \in Node \ {n} : node'[g] = node[g]
  BY <1>0 DEF RunNodeSafe, Acquire, Success, LimitReached, CountRetry, RunTransition,
              RunReload, Write, WriteBump
<1>3. GatesNeverRun'
  BY <1>1, RunNodeSafeRun DEF GatesApart, GatesNeverRun, IsGate
<1>4. run'[r].pc \notin {"approve", "cascade"}
  <2>1. CASE Acquire(r) \/ Success(r) \/ LimitReached(r) \/ CountRetry(r)
    BY <1>0, <2>1, FreeType DEF Acquire, Success, LimitReached, CountRetry, Goto, Task
  <2>2. CASE RunTransition(r)
    BY <1>0, <2>2, FreeType DEF RunTransition, Goto, Task
  <2>3. CASE RunReload(r)
    BY <1>0, <2>3 DEF RunReload, Task
  <2> QED BY <2>1, <2>2, <2>3 DEF RunNodeSafe
<1>5. \A s \in Run : run'[s].pc \in {"approve", "cascade"} => Type[run'[s].node] = "QA"
  BY <1>4, RunNodeSafeRun DEF GatesApart
<1> QED BY <1>0, <1>1, <1>2, <1>3, <1>5 DEF GatesApart

LEMMA GatesExecuteNode ==
  ASSUME TypeOK, GatesApart, NEW r \in Run, ExecuteNode(r)
  PROVE  GatesApart'
<1>1. UNCHANGED adv
  BY SendsBackStep
     DEF ExecuteNode, StallGuard, PairGuard, DepGuard, SuspendWrite, BlockWrite, Work,
         BuildProgrammatic, BudgetWrite, Complete, ReviveQa, Inspect, CheckStamp, Judge,
         RejectSelf, RejectCompleted, RejectTask, SendsBack,
         Cascade, EarlyInvalidate, EarlyResetPair, EarlyReopenGates
<1>2. GatesNeverRun'
  BY ExecuteNodeRun DEF GatesApart, GatesNeverRun
<1>3. \A s \in Run : run'[s].pc \in {"approve", "cascade"} => Type[run'[s].node] = "QA"
  BY ExecuteNodeRun, ExecuteNodeQa DEF GatesApart
<1> QED BY <1>1, <1>2, <1>3, ExecuteNodeGate, ExecuteNodeQa DEF GatesApart

LEMMA GatesCascade ==
  ASSUME TypeOK, GatesApart, NEW q \in Node, CascadeForNode(q)
  PROVE  GatesApart'
<1>0. /\ node \in [Node -> Row] /\ casc \in [Node -> CascadeTask]
      /\ UNCHANGED <<run, adv>>
  BY DEF TypeOK, CascadeForNode, CascadeRead, CascadeApply, CascadeResetRetry,
         CascadeReopenGates, CascadeEnqueue, engine
<1>1. casc[q].pc # "idle" /\ \A p \in Node \ {q} : casc'[p] = casc[p]
  BY <1>0 DEF CascadeForNode, CascadeRead, CascadeApply, CascadeResetRetry,
         CascadeReopenGates, CascadeEnqueue
<1>2. ~IsGate(q)
  BY <1>1 DEF GatesApart, IsGate
<1>3. \A g \in Node : IsGate(g) => node'[g].state \in GateState
  <2>1. CASE CascadeReopenGates(q)
    BY <1>0, <2>1, ReopenGatesGate DEF CascadeReopenGates, GatesApart
  <2>2. CASE ~CascadeReopenGates(q)
    <3>1. \A g \in Node \ {q} : node'[g] = node[g]
      BY <1>0, <2>2 DEF CascadeForNode, CascadeRead, CascadeApply, CascadeResetRetry,
                        CascadeEnqueue, WriteBump, engine
    <3> QED BY <1>2, <3>1 DEF GatesApart
  <2> QED BY <2>1, <2>2
<1> QED BY <1>0, <1>1, <1>3 DEF GatesApart, GatesNeverRun

LEMMA GatesNext == TypeOK /\ GatesApart /\ [Next]_vars => GatesApart'
<1> SUFFICES ASSUME TypeOK, GatesApart, [Next]_vars PROVE GatesApart'
  OBVIOUS
<1>1. CASE Advance /\ UNCHANGED execVars
  BY <1>1, GatesAdvance
<1>2. ASSUME NEW r \in Run, Execute(r) PROVE GatesApart'
  BY <1>2, GatesRunNodeSafe, GatesExecuteNode DEF Execute
<1>3. ASSUME NEW q \in Node, CascadeForNode(q) PROVE GatesApart'
  BY <1>3, GatesCascade
<1>4. CASE UNCHANGED vars
  BY <1>4 DEF vars, engine, execVars, GatesApart, GatesNeverRun
<1> QED BY <1>1, <1>2, <1>3, <1>4 DEF Next, Poll

\* No executor is ever started on a gate, although the automatic retry of
\* FAILED nodes launches without looking at the node type.
THEOREM GatesCorrect == Spec => []GatesNeverRun
<1>1. Init => TypeOK /\ GatesApart
  BY TypeInit, GatesInit
<1>2. TypeOK /\ GatesApart /\ [Next]_vars => TypeOK' /\ GatesApart'
  BY TypeNext, GatesNext
<1>3. GatesApart => GatesNeverRun
  BY DEF GatesApart
<1> QED BY <1>1, <1>2, <1>3, PTL DEF Spec
=============================================================================
