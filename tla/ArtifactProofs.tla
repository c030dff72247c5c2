--------------------------- MODULE ArtifactProofs ---------------------------
(***************************************************************************)
(* Proofs about the text of a node: its generation item by item, part by   *)
(* part or in batches of pages, its versions, its attempts and their       *)
(* validation, the checks and the verdict of its QA, its split into        *)
(* groups, and the pages made from a list of screens, for any number of    *)
(* items, workers, parts, pages, headings, tokens, answers, writers,       *)
(* groups and screens, saves and steps that interleave in any way, and     *)
(* processes that stop anywhere.                                           *)
(***************************************************************************)
EXTENDS ChunkedHtml, ChunkedText, BatchedFrontend, ArtifactVersions, Attempts,
        Verdicts, QaHarness, Splitting, PagePipeline, FiniteSetTheorems,
        SequenceTheorems, WellFoundedInduction, TLAPS

(* The generation of a document *)

\* While no failure of item x is recorded its row is not FAILED, so that only
\* the INSERT can reserve it; a holder has left a row behind, so that a
\* second INSERT fails.
Reservations ==
  /\ \A w \in Worker :
       worker[w].pc \in {"item", "sync", "write"} => ~worker[w].reserved
  /\ \A x \in Item : retries[x] = 0 =>
       /\ status[x] # "FAILED"
       /\ \A w \in Worker : Holds(w, x) => status[x] # "none"
       /\ \A w \in Worker : worker[w].pc = "write" /\ Current(w) = x
                              => worker[w].seen # "FAILED"

\* The whole invariant of the reservations.
Reserving == TypeOK /\ Reservations /\ FirstReserveExclusive

\* Nothing has happened before the first generation.
Untouched ==
  /\ snapshot = {}
  /\ status = [x \in Item |-> "none"]
  /\ \A w \in Worker : worker[w].pc = "idle"

\* What the worker of the first generation knows: rows ahead of it are new,
\* and no row is COMPLETE whose section it does not have.
Faithful(w) ==
  /\ worker[w].pc # "sync"
  /\ \A x \in Item : worker[w].doc[x] # "good" => status[x] # "COMPLETE"
  /\ \A x \in Item :
       x > Current(w) \/ (x = Current(w) /\ worker[w].pc \in {"item", "write"})
         => status[x] = "none" /\ x \notin worker[w].done
  /\ worker[w].pc = "call" => status[Current(w)] # "COMPLETE"
  /\ worker[w].pc = "complete" => worker[w].doc[Current(w)] = "good"
  /\ worker[w].pc \in {"report", "return"} =>
       \A x \in Item : worker[w].doc[x] # "good" => x \in worker[w].missing

\* In the first generation one worker at most is at work, and it is faithful.
Reporting ==
  /\ TypeOK
  /\ begun = 0 => Untouched
  /\ begun <= 1 =>
       \A w \in Worker : worker[w].pc # "idle" =>
         /\ Faithful(w)
         /\ \A v \in Worker : worker[v].pc # "idle" => v = w
-----------------------------------------------------------------------------
(* Types *)

Pcs == {"sync", "write", "call", "complete", "fail", "save"}

\* A worker past the head of the loop is at an item.
AtItem == \A w \in Worker : worker[w].pc \in Pcs => Current(w) \in Item

LEMMA IdleType == Idle \in Generation
  BY ChunkAssumption DEF Idle, Generation, Pc, Blank, Section, Status, Item

LEMMA StillWorker ==
  ASSUME worker \in [Worker -> Generation], NEW w \in Worker, NEW g \in Generation,
         worker' = [worker EXCEPT ![w] = g]
  PROVE  worker' \in [Worker -> Generation]
  OBVIOUS

LEMMA InitType == Init => TypeOK
<1> SUFFICES ASSUME Init PROVE TypeOK
  OBVIOUS
<1>1. worker \in [Worker -> Generation] /\ \A w \in Worker : worker[w].pc = "idle"
  BY IdleType DEF Init, Idle
<1>2. artifact \in [Item -> Section] /\ status \in [Item -> Status]
  BY DEF Init, Blank, Section, Status
<1> QED BY <1>1, <1>2 DEF Init, TypeOK

\* The operators the actions are built from keep the local variables' types.
LEMMA AdvanceType ==
  ASSUME worker \in [Worker -> Generation], AtItem,
         NEW w \in Worker, Current(w) \in Item,
         NEW items \in [Item -> Section], Advance(w, items)
  PROVE  worker' \in [Worker -> Generation] /\ AtItem'
<1>1. worker[w].i + 1 \in 1 .. N + 1
  BY ChunkAssumption DEF Current, Item
<1>2. worker' \in [Worker -> Generation]
  BY <1>1 DEF Advance, Generation, Pc
<1>3. AtItem'
  BY DEF AtItem, Advance, Current, Generation, Pcs
<1> QED BY <1>2, <1>3

LEMMA GotoType ==
  ASSUME worker \in [Worker -> Generation], AtItem,
         NEW w \in Worker, NEW at \in Pc, at \in Pcs => Current(w) \in Item,
         Goto(w, at)
  PROVE  worker' \in [Worker -> Generation] /\ AtItem'
<1>1. worker' \in [Worker -> Generation]
  BY DEF Goto, Generation
<1>2. AtItem'
  BY DEF AtItem, Goto, Current, Generation
<1> QED BY <1>1, <1>2

LEMMA GenerateType ==
  ASSUME TypeOK, NEW w \in Worker, Generate(w)
  PROVE  TypeOK'
<1> DEFINE x == Current(w)
<1> USE DEF stores
<1>0. /\ worker \in [Worker -> Generation] /\ AtItem
      /\ worker[w].pc \in Pcs => x \in Item
      /\ worker[w].doc \in [Item -> Section]
      /\ worker[w].done \subseteq Item
      /\ worker[w].missing \subseteq Item
  BY DEF TypeOK, AtItem, Generation, Pcs
<1>1. CASE Reuse(w)
  <2>1. x \in Item /\ [worker[w].doc EXCEPT ![x] = "good"] \in [Item -> Section]
    BY <1>0, <1>1 DEF Reuse, Section
  <2>2. CASE status[x] = "COMPLETE"
    BY <1>0, <1>1, <2>1, <2>2, AdvanceType DEF Reuse, TypeOK, AtItem, Pcs
  <2>3. CASE status[x] # "COMPLETE"
    <3>1. Goto(w, "sync")
      BY <1>1, <2>3 DEF Reuse
    <3> QED BY <1>0, <1>1, <2>1, <3>1, GotoType DEF Reuse, TypeOK, AtItem, Pcs, Pc
  <2> QED BY <2>2, <2>3
<1>2. CASE Sync(w)
  <2>1. x \in Item /\ [worker[w].doc EXCEPT ![x] = "good"] \in [Item -> Section]
    BY <1>0, <1>2 DEF Sync, Section, At, Pcs
  <2>2. status' \in [Item -> Status]
    BY <1>2 DEF Sync, TypeOK, Status
  <2> QED BY <1>0, <1>2, <2>1, <2>2, AdvanceType DEF Sync, TypeOK, AtItem, Pcs
<1>3. CASE ReserveRead(w)
  <2>0. UNCHANGED stores
    BY <1>3 DEF ReserveRead
  <2>1. x \in Item
    BY <1>3 DEF ReserveRead
  <2>2. CASE worker' = [worker EXCEPT ![w].pc = "write", ![w].seen = status[x]]
    <3> DEFINE g == [worker[w] EXCEPT !.pc = "write", !.seen = status[x]]
    <3>1. g \in Generation /\ worker' = [worker EXCEPT ![w] = g]
      <4>1. worker[w] \in Generation /\ status[x] \in Status
        BY <1>0, <2>1 DEF TypeOK
      <4>2. g \in Generation
        BY <4>1 DEF Generation, Pc
      <4>3. worker' = [worker EXCEPT ![w] = g]
        BY <1>0, <2>2 DEF Generation
      <4> QED BY <4>2, <4>3
    <3>2. worker' \in [Worker -> Generation]
      <4> HIDE DEF g
      <4> QED BY <1>0, <3>1, StillWorker
    <3>3. AtItem'
      BY <1>0, <2>1, <2>2 DEF AtItem, Current, Generation
    <3> QED BY <2>0, <3>2, <3>3 DEF TypeOK, AtItem, Pcs
  <2>3. CASE Advance(w, worker[w].doc)
    BY <1>0, <2>0, <2>1, <2>3, AdvanceType DEF TypeOK, AtItem, Pcs
  <2>4. CASE Goto(w, "call")
    BY <1>0, <2>0, <2>1, <2>4, GotoType DEF TypeOK, AtItem, Pcs, Pc
  <2> QED BY <1>3, <2>2, <2>3, <2>4 DEF ReserveRead
<1>4. CASE ReserveInsert(w) \/ ReserveUpdate(w)
  <2>1. x \in Item
    BY <1>0, <1>4 DEF ReserveInsert, ReserveUpdate, At, Pcs
  <2>2. /\ status' \in [Item -> Status]
        /\ UNCHANGED <<retries, snapshot, report, artifact, begun>>
    BY <1>4 DEF ReserveInsert, ReserveUpdate, TypeOK, Status
  <2>3. CASE Reserved(w)
    <3>1. /\ [worker[w] EXCEPT !.pc = "call", !.reserved = TRUE] \in Generation
          /\ worker' = [worker EXCEPT ![w] =
                          [worker[w] EXCEPT !.pc = "call", !.reserved = TRUE]]
      BY <1>0, <2>3 DEF Reserved, Generation, Pc
    <3>2. worker' \in [Worker -> Generation]
      BY <1>0, <3>1
    <3>3. AtItem'
      BY <1>0, <2>1, <2>3 DEF AtItem, Current, Generation, Reserved
    <3> QED BY <2>2, <3>2, <3>3 DEF TypeOK, AtItem, Pcs
  <2>4. CASE Advance(w, worker[w].doc)
    BY <1>0, <2>1, <2>2, <2>4, AdvanceType DEF TypeOK, AtItem, Pcs
  <2>5. CASE Goto(w, "call")
    BY <1>0, <2>1, <2>2, <2>5, GotoType DEF TypeOK, AtItem, Pcs, Pc
  <2> QED BY <1>4, <2>3, <2>4, <2>5 DEF ReserveInsert, ReserveUpdate
<1>5. CASE Call(w)
  <2>1. x \in Item
    BY <1>0, <1>5 DEF Call, At, Pcs
  <2>2. PICK at \in {"complete", "fail"}, sec \in Section, done \in SUBSET Item :
          worker' = [worker EXCEPT ![w].pc = at, ![w].doc[x] = sec, ![w].done = done]
    <3>1. CASE worker' = [worker EXCEPT ![w].pc = "complete", ![w].doc[x] = "good",
                                        ![w].done = @ \union {x}]
      <4>1. worker[w].done \union {x} \in SUBSET Item
        BY <1>0, <2>1
      <4> QED BY <3>1, <4>1 DEF Section
    <3>2. CASE worker' = [worker EXCEPT ![w].pc = "fail", ![w].doc[x] = "placeholder"]
      <4>1. worker[w].done \in SUBSET Item
        BY <1>0
      <4>2. worker' = [worker EXCEPT ![w].pc = "fail", ![w].doc[x] = "placeholder",
                                     ![w].done = worker[w].done]
        BY <1>0, <3>2 DEF Generation
      <4> QED BY <4>1, <4>2 DEF Section
    <3> QED BY <1>5, <3>1, <3>2 DEF Call
  <2>3. worker' \in [Worker -> Generation]
    <3> DEFINE items == [worker[w].doc EXCEPT ![x] = sec]
               g   == [worker[w] EXCEPT !.pc = at, !.doc = items, !.done = done]
    <3>1. items \in [Item -> Section]
      BY <1>0
    <3>2. worker' = [worker EXCEPT ![w] =
                      [worker[w] EXCEPT !.pc = at, !.doc[x] = sec, !.done = done]]
      BY <2>2
    <3>3. worker[w] = [worker[w] EXCEPT !.doc = worker[w].doc]
      BY <1>0 DEF Generation
    <3>4. worker' = [worker EXCEPT ![w] = g]
      BY <3>2, <3>3
    <3> HIDE DEF items
    <3>5. worker[w] \in Generation /\ at \in Pc
      BY <1>0 DEF Pc
    <3>6. g \in Generation
      BY <3>1, <3>5 DEF Generation
    <3> QED BY <1>0, <3>4, <3>6
  <2>4. AtItem'
    BY <1>0, <2>1, <2>2 DEF AtItem, Current, Generation, Pcs
  <2>5. UNCHANGED stores
    BY <1>5 DEF Call
  <2> QED BY <2>3, <2>4, <2>5 DEF TypeOK, AtItem, Pcs
<1>6. CASE Complete(w) \/ Fail(w)
  <2>1. x \in Item
    BY <1>0, <1>6 DEF Complete, Fail, At, Pcs
  <2>2. status' \in [Item -> Status] /\ retries' \in [Item -> Nat]
    BY <1>6, <2>1 DEF Complete, Fail, TypeOK, Status
  <2> QED BY <1>0, <1>6, <2>1, <2>2, GotoType
          DEF Complete, Fail, TypeOK, AtItem, Pcs, Pc
<1>7. CASE Save(w)
  <2>1. x \in Item
    BY <1>0, <1>7 DEF Save, At, Pcs
  <2>2. snapshot' \subseteq Item
    BY <1>0, <1>7 DEF Save, TypeOK
  <2> QED BY <1>0, <1>7, <2>1, <2>2, AdvanceType DEF Save, TypeOK, AtItem, Pcs
<1>8. CASE Clear(w)
  BY <1>0, <1>8, GotoType DEF Clear, TypeOK, AtItem, Pcs, Pc
<1>9. CASE Verify(w)
  <2> DEFINE lacking == {y \in Item : status[y] # "COMPLETE"}
  <2>1. worker' = [worker EXCEPT ![w].pc = "report", ![w].missing = lacking]
    BY <1>9 DEF Verify
  <2> HIDE DEF lacking
  <2>2. lacking \subseteq Item
    BY DEF lacking
  <2>3. worker' \in [Worker -> Generation]
    <3> DEFINE g == [worker[w] EXCEPT !.pc = "report", !.missing = lacking]
    <3>1. worker' = [worker EXCEPT ![w] = g]
      BY <1>0, <2>1 DEF Generation
    <3>2. g \in Generation
      <4>1. worker[w] \in Generation
        BY <1>0
      <4> QED BY <4>1, <2>2 DEF Generation, Pc
    <3> HIDE DEF g
    <3> QED BY <1>0, <3>1, <3>2, StillWorker
  <2>4. AtItem'
    BY <1>0, <2>1 DEF AtItem, Current, Generation, Pcs
  <2>5. UNCHANGED stores
    BY <1>9 DEF Verify
  <2> QED BY <2>3, <2>4, <2>5 DEF TypeOK, AtItem, Pcs
<1>10. CASE SaveReport(w)
  BY <1>0, <1>10, GotoType DEF SaveReport, TypeOK, AtItem, Pcs, Pc
<1>11. CASE Return(w)
  <2>1. worker' \in [Worker -> Generation]
    BY <1>0, <1>11, IdleType DEF Return
  <2>2. AtItem'
    BY <1>0, <1>11 DEF Return, AtItem, Current, Generation, Idle, Pcs
  <2> QED BY <1>0, <1>11, <2>1, <2>2 DEF Return, TypeOK, AtItem, Pcs
<1> QED BY <1>1, <1>2, <1>3, <1>4, <1>5, <1>6, <1>7, <1>8, <1>9, <1>10, <1>11
        DEF Generate

LEMMA NextType ==
  ASSUME TypeOK, [Next]_vars
  PROVE  TypeOK'
<1>1. ASSUME NEW w \in Worker, Begin(w)
      PROVE  TypeOK'
  <2>1. PICK done \in SUBSET Item :
          worker' = [worker EXCEPT ![w] = [Idle EXCEPT !.pc = "item", !.done = done]]
    BY <1>1 DEF Begin, TypeOK
  <2>2. [Idle EXCEPT !.pc = "item", !.done = done] \in Generation
    BY IdleType DEF Generation, Pc
  <2>3. worker' \in [Worker -> Generation]
    BY <2>1, <2>2 DEF TypeOK
  <2>4. \A v \in Worker : worker'[v].pc \in Pcs => worker'[v].i \in Item
    BY <2>1 DEF TypeOK, Idle, Pcs, Current, Generation
  <2> QED BY <1>1, <2>3, <2>4 DEF Begin, TypeOK, Pcs, Current
<1>2. CASE Crash
  BY <1>2, IdleType DEF Crash, TypeOK, stores, Idle, Current
<1>3. CASE UNCHANGED vars
  BY <1>3 DEF vars, TypeOK, Current
<1> QED BY <1>1, <1>2, <1>3, GenerateType DEF Next
-----------------------------------------------------------------------------
(* The reservation of a new item *)

LEMMA InitReserving == Init => Reserving
  BY InitType DEF Init, Reserving, Reservations, FirstReserveExclusive, Holds, Idle

\* A step of the generation that reserves nothing new.
LEMMA NoNewHolder ==
  ASSUME Reserving, TypeOK', NEW w \in Worker,
         \A v \in Worker \ {w} : worker'[v] = worker[v],
         \A x \in Item : retries'[x] = 0 => retries[x] = 0,
         \A x \in Item : retries'[x] = 0 /\ status'[x] = "FAILED" => status[x] = "FAILED",
         \A x \in Item : status'[x] = "none" => status[x] = "none",
         \A x \in Item : Holds(w, x)' => Holds(w, x),
         worker'[w].pc \in {"item", "sync", "write"} => ~worker'[w].reserved,
         \A x \in Item : retries[x] = 0 /\ worker'[w].pc = "write" /\ worker'[w].i = x
            => worker'[w].seen # "FAILED"
  PROVE  Reserving'
<1>1. \A v \in Worker, x \in Item : Holds(v, x)' => Holds(v, x)
  BY DEF Holds, Current
<1>2. Reservations'
  BY <1>1 DEF Reserving, Reservations, Current
<1>3. FirstReserveExclusive'
  BY <1>1 DEF Reserving, FirstReserveExclusive
<1> QED BY <1>2, <1>3 DEF Reserving

\* A worker that finds the item without a holder, or FAILED before, takes it.
LEMMA NewHolder ==
  ASSUME Reserving, TypeOK', NEW w \in Worker, At(w, "write"), Current(w) \in Item,
         Reserved(w), status' = [status EXCEPT ![Current(w)] = "RESERVED"],
         UNCHANGED retries,
         retries[Current(w)] = 0 => \A v \in Worker : ~Holds(v, Current(w))
  PROVE  Reserving'
<1> DEFINE x == Current(w)
<1>0. TypeOK /\ worker \in [Worker -> Generation] /\ status \in [Item -> Status]
  BY DEF Reserving, TypeOK
<1>1. \A v \in Worker : worker'[v] = IF v = w
        THEN [worker[w] EXCEPT !.pc = "call", !.reserved = TRUE] ELSE worker[v]
  BY <1>0 DEF Reserved
<1>2. ASSUME NEW v \in Worker, NEW y \in Item
      PROVE  Holds(v, y)' <=> Holds(v, y) \/ (v = w /\ y = x)
  <2>1. CASE v = w
    <3>1. worker'[w].pc = "call" /\ worker'[w].reserved /\ worker'[w].i = worker[w].i
      BY <1>0, <1>1 DEF Generation
    <3> QED BY <2>1, <3>1 DEF Holds, At, Current
  <2>2. CASE v # w
    BY <1>1, <2>2 DEF Holds, Current
  <2> QED BY <2>1, <2>2
<1>3. Reservations'
  <2>1. \A v \in Worker : worker'[v].pc \in {"item", "sync", "write"}
                              => worker'[v] = worker[v]
    BY <1>0, <1>1 DEF Generation
  <2>2. \A y \in Item : status'[y] = IF y = x THEN "RESERVED" ELSE status[y]
    BY <1>0
  <2> QED BY <1>2, <2>1, <2>2 DEF Reserving, Reservations, Current
<1>4. FirstReserveExclusive'
  BY <1>2 DEF Reserving, FirstReserveExclusive
<1> QED BY <1>3, <1>4 DEF Reserving

LEMMA GenerateReserving ==
  ASSUME Reserving, TypeOK', NEW w \in Worker, Generate(w)
  PROVE  Reserving'
<1> USE DEF stores
<1>0. /\ worker \in [Worker -> Generation] /\ TypeOK
      /\ retries \in [Item -> Nat] /\ status \in [Item -> Status]
      /\ worker[w].pc \in {"item", "sync", "write"} => ~worker[w].reserved
  BY DEF Reserving, TypeOK, Reservations
<1>1. CASE Reuse(w) \/ Sync(w)
  BY <1>0, <1>1, NoNewHolder
     DEF Reuse, Sync, At, Advance, Goto, Holds, Current, Generation
<1>2. CASE Complete(w) \/ Save(w) \/ Clear(w) \/ SaveReport(w) \/ Return(w)
  BY <1>0, <1>2, NoNewHolder
     DEF Complete, Save, Clear, SaveReport, Return, At, Advance, Goto, Holds, Current,
         Generation, Idle
<1>3. CASE Call(w) \/ Verify(w)
  BY <1>0, <1>3, NoNewHolder DEF Call, Verify, At, Holds, Current, Generation
<1>4. CASE Fail(w)
  BY <1>0, <1>4, NoNewHolder DEF Fail, At, Goto, Holds, Current, Generation
<1>5. CASE ReserveRead(w)
  BY <1>0, <1>5, NoNewHolder
     DEF ReserveRead, At, Goto, Advance, Holds, Current, Generation, Reserving, Reservations
<1>6. CASE ReserveInsert(w)
  <2> DEFINE x == Current(w)
  <2>1. CASE Advance(w, worker[w].doc) /\ UNCHANGED status
    BY <1>0, <1>6, <2>1, NoNewHolder
       DEF ReserveInsert, At, Advance, Holds, Current, Generation
  <2>2. CASE status[x] = "none" /\ status' = [status EXCEPT ![x] = "RESERVED"] /\ Reserved(w)
    <3>1. retries[x] = 0 => \A v \in Worker : ~Holds(v, x)
      BY <1>0, <1>6, <2>2
         DEF ReserveInsert, At, TypeOK, Reserving, Reservations
    <3>2. At(w, "write") /\ x \in Item /\ UNCHANGED retries
      BY <1>0, <1>6 DEF ReserveInsert, At, TypeOK
    <3> QED BY <2>2, <3>1, <3>2, NewHolder
  <2> QED BY <1>6, <2>1, <2>2 DEF ReserveInsert
<1>7. CASE ReserveUpdate(w)
  <2> DEFINE x == Current(w)
  <2>1. x \in Item /\ retries[x] # 0
    BY <1>0, <1>7 DEF ReserveUpdate, At, TypeOK, Reserving, Reservations
  <2>2. CASE Goto(w, "call") /\ UNCHANGED status
    BY <1>0, <1>7, <2>2, NoNewHolder
       DEF ReserveUpdate, At, Goto, Holds, Current, Generation
  <2>3. CASE status' = [status EXCEPT ![x] = "RESERVED"] /\ Reserved(w)
    BY <1>0, <1>7, <2>1, <2>3, NewHolder DEF ReserveUpdate, At
  <2> QED BY <1>7, <2>2, <2>3 DEF ReserveUpdate
<1> QED BY <1>1, <1>2, <1>3, <1>4, <1>5, <1>6, <1>7 DEF Generate

LEMMA NextReserving == Reserving /\ [Next]_vars => Reserving'
<1> SUFFICES ASSUME Reserving, [Next]_vars PROVE Reserving'
  OBVIOUS
<1>0. TypeOK /\ TypeOK'
  BY NextType DEF Reserving
<1>1. ASSUME NEW w \in Worker, Begin(w)
      PROVE  Reserving'
  BY <1>0, <1>1, NoNewHolder DEF Begin, TypeOK, Holds, Idle, Current
<1>2. CASE Crash
  <2>1. \A w \in Worker, x \in Item : ~Holds(w, x)' /\ worker'[w] = Idle
    BY <1>2 DEF Crash, Holds, Idle
  <2> QED BY <1>0, <1>2, <2>1
          DEF Crash, stores, Reserving, Reservations, FirstReserveExclusive, Idle
<1>3. CASE UNCHANGED vars
  BY <1>0, <1>3 DEF vars, Reserving, Reservations, FirstReserveExclusive, Holds, Current
<1> QED BY <1>0, <1>1, <1>2, <1>3, GenerateReserving DEF Next

\* TypeOK for the generation: every worker past the head of its loop is at an
\* item of the specification.
THEOREM TypeCorrect == Spec => []TypeOK
<1>1. TypeOK /\ [Next]_vars => TypeOK'
  BY NextType
<1> QED BY <1>1, InitType, PTL DEF Spec

\* FirstReserveExclusive for every number of items, workers and generations:
\* the primary key of atomic_state gives a new item to one worker.
THEOREM FirstReserveCorrect == Spec => []FirstReserveExclusive
<1>1. Reserving => FirstReserveExclusive
  BY DEF Reserving
<1> QED BY <1>1, InitReserving, NextReserving, PTL DEF Spec
-----------------------------------------------------------------------------
(* The report of the first generation *)

LEMMA InitReporting == Init => Reporting
  BY InitType DEF Init, Reporting, Untouched, Idle

\* A step of the generation keeps the worker of the first one faithful.
LEMMA GenerateFaithful ==
  ASSUME TypeOK, NEW w \in Worker, Faithful(w), Generate(w)
  PROVE  worker'[w].pc # "idle" => Faithful(w)'
<1> DEFINE x == Current(w)
<1> USE DEF stores
<1>0. worker \in [Worker -> Generation] /\ status \in [Item -> Status] /\ x \in Int
  BY DEF TypeOK, Generation, Current
<1>1. CASE Reuse(w)
  <2>1. x \in Item /\ x \in worker[w].done /\ worker[w].pc = "item"
    BY <1>0, <1>1 DEF Reuse, At, Generation
  <2> QED BY <2>1 DEF Faithful
<1>2. CASE Sync(w)
  BY <1>2 DEF Sync, At, Faithful
<1>3. CASE ReserveRead(w)
  BY <1>0, <1>3 DEF ReserveRead, At, Advance, Goto, Faithful, Current, Generation
<1>4. CASE ReserveInsert(w)
  <2>1. worker[w].pc = "write" /\ x \in Item
    BY <1>4 DEF ReserveInsert, At, TypeOK
  <2>2. CASE /\ status[x] = "none"
             /\ status' = [status EXCEPT ![x] = "RESERVED"] /\ Reserved(w)
    <3>1. /\ worker'[w].pc = "call"
          /\ worker'[w].doc = worker[w].doc /\ worker'[w].i = x
          /\ worker'[w].done = worker[w].done
      BY <1>0, <2>2 DEF Reserved, Current, Generation
    <3>2. \A y \in Item : status'[y] = IF y = x THEN "RESERVED" ELSE status[y]
      BY <1>0, <2>2
    <3> QED BY <1>0, <2>1, <3>1, <3>2 DEF Faithful, Current
  <2>3. CASE Advance(w, worker[w].doc) /\ UNCHANGED status
    <3>1. /\ worker'[w].pc = "item"
          /\ worker'[w].doc = worker[w].doc /\ worker'[w].i = x + 1
          /\ worker'[w].done = worker[w].done
      BY <1>0, <2>3 DEF Advance, Current, Generation
    <3>2. \A y \in Item : y > x => status'[y] = "none" /\ y \notin worker'[w].done
      BY <2>3, <3>1 DEF Faithful
    <3> QED BY <1>0, <2>3, <3>1, <3>2 DEF Faithful, Current, Item
  <2> QED BY <1>4, <2>2, <2>3 DEF ReserveInsert
<1>5. CASE ReserveUpdate(w)
  <2>1. worker[w].pc = "write" /\ x \in Item
    BY <1>5 DEF ReserveUpdate, At, TypeOK
  <2>2. /\ status' = [status EXCEPT ![x] = "RESERVED"] \/ UNCHANGED status
        /\ worker'[w].pc = "call"
        /\ worker'[w].doc = worker[w].doc /\ worker'[w].i = x
        /\ worker'[w].done = worker[w].done
    BY <1>0, <1>5 DEF ReserveUpdate, Goto, Reserved, Current, Generation
  <2>3. \A y \in Item : status'[y] = status[y] \/ (y = x /\ status'[y] = "RESERVED")
    BY <1>0, <2>2
  <2>4. status'[x] # "COMPLETE"
    BY <2>1, <2>3 DEF Faithful
  <2> QED BY <1>0, <2>1, <2>2, <2>3, <2>4 DEF Faithful, Current
<1>6. CASE Call(w)
  <2>1. worker[w].pc = "call" /\ UNCHANGED status
    BY <1>6 DEF Call, At
  <2>2. x \in Item
    BY <2>1 DEF TypeOK
  <2>3. PICK sec \in {"good", "placeholder"} :
          /\ worker'[w].pc = IF sec = "good" THEN "complete" ELSE "fail"
          /\ worker'[w].doc = [worker[w].doc EXCEPT ![x] = sec]
          /\ worker'[w].i = x
          /\ worker'[w].done \subseteq worker[w].done \union {x}
    BY <1>0, <1>6 DEF Call, Current, Generation
  <2>4. worker[w].doc \in [Item -> Section] /\ status[x] # "COMPLETE"
    BY <1>0, <2>1 DEF Generation, Faithful
  <2>5. \A y \in Item : worker'[w].doc[y] = IF y = x THEN sec ELSE worker[w].doc[y]
    BY <2>2, <2>3, <2>4
  <2>6. \A y \in Item : y > x => status[y] = "none" /\ y \notin worker'[w].done
    BY <1>0, <2>3 DEF Faithful
  <2> QED BY <2>1, <2>2, <2>3, <2>4, <2>5, <2>6 DEF Faithful, Current
<1>7. CASE Complete(w)
  BY <1>0, <1>7 DEF Complete, At, Goto, Faithful, Current, Generation
<1>8. CASE Fail(w)
  BY <1>0, <1>8 DEF Fail, At, Goto, Faithful, Current, Generation
<1>9. CASE Save(w)
  BY <1>0, <1>9 DEF Save, At, Advance, Faithful, Current, Generation
<1>10. CASE Clear(w)
  BY <1>0, <1>10 DEF Clear, At, Goto, Faithful, Current, Generation
<1>11. CASE Verify(w)
  <2>1. worker'[w] = [worker[w] EXCEPT !.pc = "report",
                        !.missing = {y \in Item : status[y] # "COMPLETE"}]
    BY <1>0, <1>11 DEF Verify
  <2>2. /\ worker'[w].pc = "report" /\ UNCHANGED status
        /\ worker'[w].missing = {y \in Item : status[y] # "COMPLETE"}
        /\ worker'[w].doc = worker[w].doc /\ worker'[w].i = worker[w].i
        /\ worker'[w].done = worker[w].done
    BY <1>0, <1>11, <2>1 DEF Verify, Generation
  <2> QED BY <2>2 DEF Faithful, Current
<1>12. CASE SaveReport(w)
  BY <1>0, <1>12 DEF SaveReport, At, Goto, Faithful, Current, Generation
<1>13. CASE Return(w)
  BY <1>0, <1>13 DEF Return, At, Idle
<1> QED BY <1>1, <1>2, <1>3, <1>4, <1>5, <1>6, <1>7, <1>8, <1>9, <1>10, <1>11, <1>12,
           <1>13 DEF Generate

LEMMA GenerateFrame ==
  ASSUME TypeOK, NEW w \in Worker, Generate(w)
  PROVE  /\ begun' = begun
         /\ worker[w].pc # "idle"
         /\ \A v \in Worker \ {w} : worker'[v] = worker[v]
<1>0. worker \in [Worker -> Generation]
  BY DEF TypeOK
<1> QED BY <1>0 DEF Generate, Reuse, Sync, ReserveRead, ReserveInsert, ReserveUpdate, Call,
           Complete, Fail, Save, Clear, Verify, SaveReport, Return, At, Goto, Advance,
           Reserved, stores

LEMMA NextReporting == Reporting /\ [Next]_vars => Reporting'
<1> SUFFICES ASSUME Reporting, [Next]_vars PROVE Reporting'
  OBVIOUS
<1>0. TypeOK /\ TypeOK' /\ begun \in Nat /\ begun' \in Nat
  BY NextType DEF Reporting, TypeOK
<1>1. ASSUME NEW w \in Worker, Begin(w)
      PROVE  Reporting'
  <2>1. CASE begun = 0
    <3>1. /\ snapshot = {} /\ status = [x \in Item |-> "none"] /\ status' = status
          /\ \A v \in Worker \ {w} : worker'[v].pc = "idle"
          /\ begun' = 1
      BY <1>0, <1>1, <2>1 DEF Begin, Reporting, Untouched, TypeOK
    <3>2. worker'[w] = [Idle EXCEPT !.pc = "item", !.done = {}]
      BY <1>0, <1>1, <3>1 DEF Begin, TypeOK
    <3>3. Faithful(w)'
      BY <3>1, <3>2 DEF Faithful, Current, Idle, Blank
    <3>4. \A u, v \in Worker : worker'[u].pc # "idle" /\ worker'[v].pc # "idle" => u = v
      BY <3>1
    <3>5. \A v \in Worker : worker'[v].pc # "idle" => Faithful(v)'
      BY <3>1, <3>3
    <3>6. begun' # 0
      BY <3>1
    <3> QED BY <1>0, <3>4, <3>5, <3>6, Zenon DEF Reporting
  <2>2. CASE begun > 0
    <3>1. begun' > 1
      BY <1>0, <1>1, <2>2 DEF Begin
    <3> QED BY <1>0, <3>1 DEF Reporting
  <2> QED BY <1>0, <2>1, <2>2
<1>2. ASSUME NEW w \in Worker, Generate(w)
      PROVE  Reporting'
  <2>1. begun' = begun /\ begun # 0 /\ worker[w].pc # "idle"
    BY <1>0, <1>2, GenerateFrame DEF Reporting, Untouched
  <2>2. CASE begun = 1
    <3>1. Faithful(w) /\ \A v \in Worker \ {w} : worker'[v].pc = "idle"
      BY <1>0, <1>2, <2>1, <2>2, GenerateFrame DEF Reporting
    <3>2. worker'[w].pc # "idle" => Faithful(w)'
      BY <1>0, <1>2, <3>1, GenerateFaithful
    <3> QED BY <1>0, <2>1, <3>1, <3>2 DEF Reporting
  <2> QED BY <1>0, <2>1, <2>2 DEF Reporting
<1>3. CASE Crash
  <2>1. \A w \in Worker : worker'[w].pc = "idle"
    BY <1>3 DEF Crash, Idle
  <2>2. begun' = begun /\ begun # 0
    BY <1>3 DEF Crash, stores, Reporting, Untouched, At
  <2> QED BY <1>0, <2>1, <2>2 DEF Reporting
<1>4. CASE UNCHANGED vars
  BY <1>0, <1>4 DEF vars, Reporting, Untouched, Faithful, Current
<1> QED BY <1>1, <1>2, <1>3, <1>4 DEF Next

\* FirstReportHonest for every number of items, workers and generations: the
\* first coverage report names each section that is missing or a placeholder.
THEOREM FirstReportCorrect == Spec => []FirstReportHonest
<1>1. Reporting => FirstReportHonest
  BY DEF Reporting, FirstReportHonest, Faithful
<1> QED BY <1>1, InitReporting, NextReporting, PTL DEF Spec
-----------------------------------------------------------------------------
(* The versions *)

VersionTypes ==
  /\ current \in Seq(Nat)
  /\ pc \in [Writer -> {"idle", "read", "bumped"}]
  /\ art \in [Writer -> Nat] /\ num \in [Writer -> Nat]

\* What a writer has read is still there, rows of artifacts are never deleted.
Known ==
  /\ \A w \in Writer : pc[w] # "idle" => art[w] \in 0..Len(current)
  /\ \A w \in Writer : pc[w] = "read" /\ art[w] = 0 => num[w] = 1
  /\ \A w \in Writer : pc[w] = "bumped" => art[w] # 0

\* A save that returned has its row.
MineKept == \A m \in mine : /\ <<m[1], m[2]>> \in DOMAIN versions
                        /\ versions[<<m[1], m[2]>>] = m[3]

\* A current version without a row is that of a writer about to insert it:
\* of the last one that wrote the number.
Backed(a) == \/ a \in torn
             \/ <<a, current[a]>> \in DOMAIN versions
             \/ \E w \in Writer : /\ pc[w] = "bumped" /\ art[w] = a
                                  /\ num[w] = current[a]

VersionInv == VersionTypes /\ Known /\ MineKept /\ \A a \in 1..Len(current) : Backed(a)

\* What the steps that write no row of artifact_versions leave alone.
LEMMA KeptSame ==
  ASSUME MineKept, versions' = versions, mine' = mine
  PROVE  MineKept'
  BY DEF MineKept

LEMMA VersionRead ==
  ASSUME VersionInv, NEW w \in Writer, Read(w)
  PROVE  VersionInv'
<1>1. /\ pc[w] = "idle" /\ pc' = [pc EXCEPT ![w] = "read"]
      /\ current' = current /\ versions' = versions /\ mine' = mine /\ torn' = torn
  BY DEF Read
<1>2. Len(current) \in Nat /\ current = <<>> <=> Len(current) = 0
  BY EmptySeq, LenProperties DEF VersionInv, VersionTypes
<1>3. PICK x, n : /\ art' = [art EXCEPT ![w] = x] /\ num' = [num EXCEPT ![w] = n]
                  /\ x \in 0..Len(current) /\ n \in Nat /\ (x = 0 => n = 1)
  <2>1. CASE current = <<>>
    <3>1. /\ art' = [art EXCEPT ![w] = 0] /\ num' = [num EXCEPT ![w] = 1]
      BY <2>1 DEF Read
    <3>2. 0 \in 0..Len(current) /\ 1 \in Nat
      BY <1>2
    <3> QED  BY <3>1, <3>2, Zenon
  <2>2. CASE current # <<>>
    <3>1. 1 \in 1..Len(current) /\ Len(current) \in Nat
      BY <2>2, EmptySeq, LenProperties DEF VersionInv, VersionTypes
    <3>2. current[1] + 1 \in Nat
      BY <3>1, ElementOfSeq DEF VersionInv, VersionTypes
    <3>3. /\ art' = [art EXCEPT ![w] = 1]
          /\ num' = [num EXCEPT ![w] = current[1] + 1]
      BY <2>2 DEF Read
    <3>4. 1 \in 0..Len(current) /\ 1 # 0
      BY <3>1
    <3> QED  BY <3>2, <3>3, <3>4, Zenon
  <2> QED  BY <2>1, <2>2
<1>4. VersionTypes'
  BY <1>1, <1>3, LenProperties DEF VersionInv, VersionTypes
<1>5. Known'
  BY <1>1, <1>3 DEF VersionInv, VersionTypes, Known
<1>6. ASSUME NEW a \in 1..Len(current)  PROVE Backed(a)'
  <2>1. ASSUME NEW u \in Writer, pc[u] = "bumped"
        PROVE  pc'[u] = "bumped" /\ art'[u] = art[u] /\ num'[u] = num[u]
    BY <1>1, <1>3, <2>1 DEF VersionInv, VersionTypes
  <2> QED  BY <1>1, <2>1 DEF VersionInv, Backed
<1> QED  BY <1>1, <1>4, <1>5, <1>6, KeptSame DEF VersionInv

LEMMA VersionBump ==
  ASSUME VersionInv, NEW w \in Writer, Bump(w)
  PROVE  VersionInv'
<1>1. /\ pc[w] = "read" /\ art[w] # 0 /\ pc' = [pc EXCEPT ![w] = "bumped"]
      /\ current' = [current EXCEPT ![art[w]] = num[w]]
      /\ versions' = versions /\ mine' = mine /\ torn' = torn
      /\ art' = art /\ num' = num
  BY DEF Bump
<1>2. Len(current) \in Nat /\ art[w] \in 1..Len(current) /\ num[w] \in Nat
  BY <1>1, LenProperties DEF VersionInv, VersionTypes, Known
<1>3. /\ current' \in Seq(Nat) /\ Len(current') = Len(current)
      /\ \A a \in 1..Len(current) :
           current'[a] = IF a = art[w] THEN num[w] ELSE current[a]
  BY <1>1, <1>2, ExceptSeq DEF VersionInv, VersionTypes
<1>4. VersionTypes'
  BY <1>1, <1>3 DEF VersionInv, VersionTypes
<1>5. Known'
  BY <1>1, <1>3 DEF VersionInv, VersionTypes, Known
<1>6. ASSUME NEW a \in 1..Len(current)  PROVE Backed(a)'
  <2>1. pc'[w] = "bumped" /\ \A u \in Writer : pc[u] = "bumped" => pc'[u] = "bumped"
    BY <1>1 DEF VersionInv, VersionTypes
  <2>2. CASE a = art[w]
    <3>1. pc'[w] = "bumped" /\ art'[w] = a /\ num'[w] = current'[a]
      BY <1>1, <1>3, <2>1, <2>2
    <3> QED  BY <3>1 DEF Backed
  <2>3. CASE a # art[w]
    <3>1. current'[a] = current[a] /\ Backed(a)
      BY <1>3, <2>3 DEF VersionInv
    <3> QED  BY <1>1, <2>1, <3>1 DEF Backed
  <2> QED  BY <2>2, <2>3
<1> QED  BY <1>1, <1>3, <1>4, <1>5, <1>6, KeptSame DEF VersionInv

LEMMA VersionCreate ==
  ASSUME VersionInv, NEW w \in Writer, Create(w)
  PROVE  VersionInv'
<1> DEFINE n == Len(current) + 1
<1>1. /\ pc[w] = "read" /\ art[w] = 0 /\ pc' = [pc EXCEPT ![w] = "bumped"]
      /\ current' = Append(current, 1) /\ art' = [art EXCEPT ![w] = n]
      /\ versions' = versions /\ mine' = mine /\ torn' = torn /\ num' = num
  BY DEF Create
<1>2. Len(current) \in Nat /\ num[w] = 1
  BY <1>1, LenProperties DEF VersionInv, VersionTypes, Known
<1>3. /\ current' \in Seq(Nat) /\ Len(current') = n /\ current'[n] = 1
      /\ \A a \in 1..Len(current) : current'[a] = current[a]
  BY <1>1, AppendProperties DEF VersionInv, VersionTypes
<1>4. /\ n \in Nat /\ n # 0 /\ n \in 0..n
      /\ \A a \in 0..Len(current) : a \in 0..n
      /\ \A a \in 1..n : a \in 1..Len(current) \/ a = n
  BY <1>2
<1> HIDE DEF n
<1>5. VersionTypes'
  BY <1>1, <1>3, <1>4 DEF VersionInv, VersionTypes
<1>6. Known'
  BY <1>1, <1>3, <1>4 DEF VersionInv, VersionTypes, Known
<1>7. ASSUME NEW a \in 1..n  PROVE Backed(a)'
  <2>1. /\ pc'[w] = "bumped" /\ art'[w] = n
        /\ \A u \in Writer : pc[u] = "bumped" => pc'[u] = "bumped" /\ art'[u] = art[u]
    BY <1>1 DEF VersionInv, VersionTypes
  <2>2. CASE a = n
    BY <1>1, <1>2, <1>3, <2>1, <2>2 DEF Backed
  <2>3. CASE a # n
    BY <1>1, <1>3, <1>4, <2>1, <2>3 DEF VersionInv, Backed
  <2> QED  BY <2>2, <2>3
<1> QED  BY <1>1, <1>3, <1>5, <1>6, <1>7, KeptSame DEF VersionInv

LEMMA VersionInsert ==
  ASSUME VersionInv, NEW w \in Writer, Insert(w)
  PROVE  VersionInv'
<1>1. /\ pc[w] = "bumped" /\ pc' = [pc EXCEPT ![w] = "idle"]
      /\ current' = current /\ art' = art /\ num' = num /\ torn' = torn
  BY DEF Insert
<1>2. /\ Key(w) \in DOMAIN versions'
      /\ \A k \in DOMAIN versions : k \in DOMAIN versions' /\ versions'[k] = versions[k]
      /\ \A m \in mine' : m \in mine \/ (m = <<art[w], num[w], w>> /\ versions'[Key(w)] = w)
  <2>1. CASE Key(w) \in DOMAIN versions
    <3>1. versions' = versions /\ mine' = mine
      BY <2>1 DEF Insert
    <3> QED  BY <2>1, <3>1, Zenon
  <2>2. CASE Key(w) \notin DOMAIN versions
    <3> DEFINE D == DOMAIN versions \cup {Key(w)}
    <3>1. /\ versions' = [k \in D |-> IF k = Key(w) THEN w ELSE versions[k]]
          /\ mine' = mine \cup {<<art[w], num[w], w>>}
      BY <2>2 DEF Insert
    <3> HIDE DEF D
    <3>2. /\ DOMAIN versions' = D
          /\ \A k \in D : versions'[k] = IF k = Key(w) THEN w ELSE versions[k]
      BY <3>1
    <3>3. Key(w) \in D /\ \A k \in DOMAIN versions : k \in D /\ k # Key(w)
      BY <2>2 DEF D
    <3> QED  BY <3>1, <3>2, <3>3
  <2> QED  BY <2>1, <2>2
<1>3. VersionTypes' /\ Known'
  BY <1>1 DEF VersionInv, VersionTypes, Known
<1>4. MineKept'
  <2>1. ASSUME NEW m \in mine
        PROVE  /\ <<m[1], m[2]>> \in DOMAIN versions'
               /\ versions'[<<m[1], m[2]>>] = m[3]
    BY <1>2, <2>1 DEF VersionInv, MineKept
  <2>2. ASSUME NEW m, m = <<art[w], num[w], w>>, versions'[Key(w)] = w
        PROVE  /\ <<m[1], m[2]>> \in DOMAIN versions'
               /\ versions'[<<m[1], m[2]>>] = m[3]
    BY <1>2, <2>2 DEF Key
  <2> QED  BY <1>2, <2>1, <2>2 DEF MineKept
<1>5. ASSUME NEW a \in 1..Len(current)  PROVE Backed(a)'
  <2>1. CASE a \in torn \/ <<a, current[a]>> \in DOMAIN versions
    BY <1>1, <1>2, <2>1 DEF Backed
  <2>2. ASSUME NEW u \in Writer, pc[u] = "bumped", art[u] = a, num[u] = current[a]
        PROVE  Backed(a)'
    <3>1. CASE u = w
      BY <1>1, <1>2, <2>2, <3>1 DEF Backed, Key
    <3>2. CASE u # w
      BY <1>1, <2>2, <3>2 DEF VersionInv, VersionTypes, Backed
    <3> QED  BY <3>1, <3>2
  <2> QED  BY <2>1, <2>2 DEF VersionInv, Backed
<1> QED  BY <1>1, <1>3, <1>4, <1>5 DEF VersionInv

LEMMA VersionHalt == VersionInv /\ Halt => VersionInv'
<1> SUFFICES ASSUME VersionInv, Halt  PROVE VersionInv'
  OBVIOUS
<1>1. /\ pc' = [w \in Writer |-> "idle"] /\ current' = current
      /\ versions' = versions /\ mine' = mine /\ art' = art /\ num' = num
      /\ torn \subseteq torn'
      /\ \A w \in Writer : pc[w] = "bumped" => art[w] \in torn'
  BY DEF Halt
<1>2. VersionTypes' /\ Known'
  BY <1>1 DEF VersionInv, VersionTypes, Known
<1>3. ASSUME NEW a \in 1..Len(current)  PROVE Backed(a)'
  BY <1>1 DEF VersionInv, Backed
<1> QED  BY <1>1, <1>2, <1>3, KeptSame DEF VersionInv

LEMMA VersionStart == VersionInit => VersionInv
<1> SUFFICES ASSUME VersionInit  PROVE VersionInv
  OBVIOUS
<1>1. current \in Seq(Nat) /\ Len(current) = 0
  BY EmptySeq DEF VersionInit
<1>2. VersionTypes
  BY <1>1 DEF VersionInit, VersionTypes
<1>3. Known /\ MineKept
  BY DEF VersionInit, Known, MineKept
<1>4. 1..Len(current) = {}
  BY <1>1
<1> QED  BY <1>2, <1>3, <1>4 DEF VersionInv

LEMMA VersionKept == VersionInv /\ [VersionNext]_artifactVars => VersionInv'
<1> SUFFICES ASSUME VersionInv, [VersionNext]_artifactVars  PROVE VersionInv'
  OBVIOUS
<1>1. CASE UNCHANGED artifactVars
  BY <1>1 DEF artifactVars, VersionInv, VersionTypes, Known, MineKept, Backed
<1>2. CASE VersionNext
  BY <1>2, VersionHalt, VersionRead, VersionBump, VersionCreate, VersionInsert
     DEF VersionNext, AgentRead, OperatorRead
<1> QED  BY <1>1, <1>2

\* The row a save has returned for stays its own, and an artifact that nobody
\* is saving and whose saves were not stopped half way has a row for its
\* current version: for any number of writers and saves, although two of them
\* may read the same number and write it back.
THEOREM VersionsCorrect == VersionSpec => []VersionsWhole
<1>1. VersionInv => VersionsWhole
  BY DEF VersionInv, MineKept, Backed, VersionsWhole
<1> QED  BY <1>1, VersionStart, VersionKept, PTL DEF VersionSpec
-----------------------------------------------------------------------------
(* The attempts *)

\* What was judged is what is saved, and every part of a version in form was
\* registered with it.
Validated ==
  /\ stage = "saved" => artifactKind = "html" \/ saved = answer
  /\ stage \in {"passed", "completed"} => artifactKind = "html" \/ Issues(saved) = {}
  /\ Json /\ saved.form => saved.parts \subseteq registry

LEMMA StepValidated == Validated /\ [AttemptNext]_attemptVars => Validated'
<1> SUFFICES ASSUME Validated, [AttemptNext]_attemptVars PROVE Validated'
  OBVIOUS
<1>1. artifactKind' = artifactKind
  BY DEF AttemptNext, Prepare, Chunks, Outline, AskModel, Extend, MendJson, Correct, SaveAnswer,
     NoDoctype, SizeGate, Pass, Repair, RejectAnswer, CompleteTask, CallFails, ReworkTask,
     AttemptStops, given, attemptVars
<1>2. Json' = Json
  BY <1>1 DEF Json
<1>3. saved' = saved => Issues(saved)' = Issues(saved)
  BY <1>1 DEF Issues, Long, Size
<1>4. ASSUME saved' = saved, registry' = registry, stage' \notin {"saved", "passed", "completed"}
      PROVE  Validated'
  BY <1>2, <1>4 DEF Validated
<1>5. CASE \/ Prepare \/ Chunks \/ Outline \/ AskModel \/ Extend \/ MendJson \/ Correct
           \/ ReworkTask \/ AttemptStops
  <2>1. saved' = saved /\ registry' = registry
    BY <1>5 DEF Prepare, Chunks, Outline, AskModel, Extend, MendJson, Correct, ReworkTask,
       AttemptStops, stored
  <2>2. stage' \in {"chunks", "single", "outline", "answered", "outlined", "formed", "mended",
                    "ready", "waiting"}
    BY <1>5 DEF Prepare, Chunks, Outline, AskModel, Extend, MendJson, Correct, ReworkTask,
       AttemptStops
  <2> QED BY <1>4, <2>1, <2>2
<1>6. CASE NoDoctype \/ SizeGate \/ RejectAnswer \/ CallFails
  <2>1. saved' = saved /\ registry' = registry
    BY <1>6 DEF NoDoctype, SizeGate, RejectAnswer, CallFails, stored
  <2>2. stage' \in {"waiting", "failed"}
    BY <1>6 DEF NoDoctype, SizeGate, RejectAnswer, CallFails, Failed
  <2> QED BY <1>4, <2>1, <2>2
<1>7. CASE SaveAnswer
  <2>1. stage' = "saved" /\ answer' = answer
    BY <1>7 DEF SaveAnswer
  <2>2. artifactKind = "html" \/ saved' = answer
    BY <1>7 DEF SaveAnswer, Saved
  <2>3. ASSUME Json, saved'.form
        PROVE  saved'.parts \subseteq registry'
    BY <1>7, <2>3 DEF SaveAnswer, Saved
  <2> QED BY <1>1, <1>2, <2>1, <2>2, <2>3 DEF Validated
<1>8. CASE Pass
  <2>1. /\ stage = "saved" /\ stage' = "passed" /\ saved' = saved /\ registry' = registry
        /\ Issues(answer) = {}
    BY <1>8 DEF Pass, stored
  <2>2. artifactKind = "html" \/ Issues(saved) = {}
    BY <2>1 DEF Validated
  <2> QED BY <1>1, <1>2, <1>3, <2>1, <2>2 DEF Validated
<1>9. CASE Repair
  <2>1. PICK r : Issues(r) = {} /\ saved' = r
                 /\ registry' = IF Json /\ r.form THEN registry \cup r.parts ELSE registry
    BY <1>9 DEF Repair, SaveRepaired, Saved
  <2>2. stage' = "passed"
    BY <1>9 DEF Repair
  <2>3. Issues(saved)' = {}
    BY <1>1, <2>1 DEF Issues, Long, Size
  <2> QED BY <1>2, <2>1, <2>2, <2>3 DEF Validated
<1>10. CASE CompleteTask
  <2>1. stage = "passed" /\ stage' = "completed" /\ saved' = saved /\ registry' = registry
    BY <1>10 DEF CompleteTask, stored
  <2> QED BY <1>1, <1>2, <1>3, <2>1 DEF Validated
<1>11. CASE UNCHANGED attemptVars
  <2>1. stage' = stage /\ saved' = saved /\ registry' = registry /\ answer' = answer
    BY <1>11 DEF attemptVars
  <2> QED BY <1>1, <1>2, <1>3, <2>1 DEF Validated
<1> QED BY <1>5, <1>6, <1>7, <1>8, <1>9, <1>10, <1>11 DEF AttemptNext

\* Whatever was cut, mended, repaired or retried before, a version the TASK is
\* COMPLETED with has no issue validate would find (its text is the one that was
\* judged), and the registry has its components.
THEOREM CompletesValid == AttemptSpec => []CompletedValid
<1>1. AttemptInit => Validated
  BY DEF AttemptInit, Validated, NoText
<1>2. Validated => CompletedValid
  BY DEF Validated, CompletedValid
<1> QED BY <1>1, <1>2, StepValidated, PTL DEF AttemptSpec
-----------------------------------------------------------------------------
(* The verdicts *)

\* A claim that a section is missing, of a text without that section.
TrueOf(issues) == \A i \in issues : i.what = "missing" => i.of \notin doc.headings

\* What is to be sent back for a verdict fails the checks, and what is told to
\* the TASK, now or at the end of this execution, is true of its text.
Judged ==
  /\ stamped => qaAt \in {"waiting", "dispatch", "stamp", "approved"}
  /\ qaAt = "mend" \/ (task = "INVALID" /\ by = "verdict")
       => textKind = "plain" \/ ~PassesChecks
  /\ qaAt = "judged" => TrueOf(verdict.issues)
  /\ TrueOf(hints)

\* reconcile_verdict leaves no claim that a section is missing that is there.
LEMMA ReconciledTrue ==
  ASSUME NEW a \in QaAnswer
  PROVE  TrueOf(Reconciled(Parsed(a)).issues)
<1> DEFINE v == Parsed(a)
           untrue == {i \in v.issues : Untrue(i)}
           score == Least(v.score + Bonus(untrue), 100)
<1>1. "issues" \in DOMAIN v /\ v = [x \in DOMAIN v |-> v[x]]
  BY DEF Parsed
<1> HIDE DEF v
<1>2. CASE doc.headings = {}
  BY <1>2 DEF TrueOf
<1>3. CASE doc.headings # {} /\ untrue = {}
  <2>1. Reconciled(v) = v
    BY <1>3 DEF Reconciled
  <2>2. \A i \in v.issues : ~Untrue(i)
    BY <1>3
  <2> QED BY <2>1, <2>2 DEF TrueOf, Untrue, v
<1>4. CASE doc.headings # {} /\ untrue # {}
  <2>1. Reconciled(v) = [v EXCEPT !.issues = v.issues \ untrue, !.score = score,
                                  !.pass = v.pass \/ score >= Enough]
    BY <1>4 DEF Reconciled
  <2>2. Reconciled(v).issues = v.issues \ untrue
    <3> HIDE DEF untrue, score
    <3> QED BY <1>1, <2>1
  <2>3. \A i \in v.issues \ untrue : ~Untrue(i)
    OBVIOUS
  <2> QED BY <2>2, <2>3 DEF TrueOf, Untrue, v
<1> QED BY <1>2, <1>3, <1>4

LEMMA StepJudged == Judged /\ [VerdictNext]_verdictVars => Judged'
<1> SUFFICES ASSUME Judged, [VerdictNext]_verdictVars PROVE Judged'
  OBVIOUS
<1>1. textKind' = textKind
  BY DEF VerdictNext, StartQa, Dispatch, DispatchFails, ByCategory, LookForStamp, AskVerdict,
     Broke, Approve, CompleteQa, MendPart, SendToMend, RejectTask, RedoTask, Reopen, QaStops,
     verdictVars
<1>2. doc' = doc => PassesChecks' = PassesChecks
  BY <1>1 DEF PassesChecks, Covered
<1> USE <1>1, <1>2 DEF Judged, TrueOf
<1>3. CASE StartQa
  BY <1>3 DEF StartQa, taskVars
<1>4. CASE Dispatch
  BY <1>4 DEF Dispatch, ReturnQa, taskVars
<1>5. CASE DispatchFails
  BY <1>5 DEF DispatchFails, SendBack, RaiseQa
<1>6. CASE ByCategory
  BY <1>6 DEF ByCategory, ReturnQa, SendBack, RaiseQa, taskVars
<1>7. CASE LookForStamp
  BY <1>7 DEF LookForStamp, Cache, ReturnQa, taskVars
<1>8. CASE AskVerdict
  <2>1. doc' = doc /\ UNCHANGED <<task, by, stamped, hints>> /\ qaAt = "ask"
    BY <1>8 DEF AskVerdict, taskVars
  <2>2. CASE qaAt' = "judged"
    <3>1. PICK a \in QaAnswer : verdict' = Reconciled(Parsed(a))
      BY <1>8, <2>2 DEF AskVerdict, RaiseQa
    <3>2. TrueOf(verdict'.issues)
      BY <3>1, ReconciledTrue
    <3> QED BY <2>1, <2>2, <3>2
  <2>3. CASE qaAt' = "waiting"
    BY <2>1, <2>3
  <2> QED BY <1>8, <2>2, <2>3 DEF AskVerdict, RaiseQa
<1>9. CASE Broke
  BY <1>9 DEF Broke, ReturnQa, SendBack, RaiseQa, taskVars
<1>10. CASE Approve
  BY <1>10 DEF Approve, taskVars, qaVars
<1>11. CASE CompleteQa
  BY <1>11 DEF CompleteQa, ReturnQa, taskVars
<1>12. CASE MendPart
  BY <1>12 DEF MendPart, Rejected, Overruled, Hints, taskVars, qaVars
<1>13. CASE SendToMend
  BY <1>13 DEF SendToMend, SendBack, RaiseQa
<1>14. CASE RejectTask
  BY <1>14 DEF RejectTask, Rejected, Overruled, SendBack, RaiseQa
<1>15. CASE RedoTask
  BY <1>15 DEF RedoTask
<1>16. CASE Reopen
  BY <1>16 DEF Reopen, taskVars
<1>17. CASE QaStops
  BY <1>17 DEF QaStops, taskVars, qaVars
<1>18. CASE UNCHANGED verdictVars
  BY <1>18 DEF verdictVars
<1> QED BY <1>3, <1>4, <1>5, <1>6, <1>7, <1>8, <1>9, <1>10, <1>11, <1>12, <1>13, <1>14, <1>15,
           <1>16, <1>17, <1>18 DEF VerdictNext

\* For any headings, scores and answers, whatever the process, an operator or a
\* cascade does in between: a stamped pair is not judged by a model again, a
\* text that passes the checks is not sent back for a verdict, and no TASK is
\* told to restore a section it has.
THEOREM StandsCorrect == VerdictSpec => []VerdictStands
<1>1. VerdictInit => Judged
  BY DEF VerdictInit, Judged, TrueOf
<1>2. Judged => VerdictStands
  BY DEF Judged, TrueOf, VerdictStands
<1> QED BY <1>1, <1>2, StepJudged, PTL DEF VerdictSpec

(* The split of a TASK of DESIGN *)

BeforeCut == {"idle", "read"}
Cutting == {"skip_task", "skip_qa", "off_task", "off_qa", "mend"}
Inserting == {"insert_qa", "edges_in", "edge_pair", "edges_out"}

\* What the executor has written down: where the edges of the pair go.
Noted == split.ups = Up /\ split.downs = Followers

\* The pair of the group and its edges are all there.
PairWhole(g) ==
  /\ QaOf(g) \in DOMAIN nodeState
  /\ Up \X {TaskOf(g)} \subseteq edges
  /\ {QaOf(g)} \X split.downs \subseteq edges

\* How far the pair of the group at hand is.
Begun ==
  /\ split.at # "insert_qa" => QaOf(split.group) \in DOMAIN nodeState
  /\ split.at \in {"edge_pair", "edges_out"} => Up \X {TaskOf(split.group)} \subseteq edges

SplitFields ==
  /\ DOMAIN split = {"at", "ups", "downs", "ends", "todo", "group"}
  /\ split = [f \in DOMAIN split |-> split[f]]

Uncut == \E downs \in {Down, {}} :
  edges = Up \X {WholeTask} \cup {<<WholeTask, WholeQa>>} \cup {WholeQa} \X downs

SplitInv ==
  /\ SplitFields
  /\ split.at \in BeforeCut \cup Cutting \cup Inserting \cup {"next", "single", "done"}
  /\ Up \cup {WholeTask} \subseteq DOMAIN nodeState
  /\ split.at \in BeforeCut => split.ends = {}
  /\ split.at \in BeforeCut \cup {"skip_task"} => Uncut
  /\ split.at \in (Cutting \ {"skip_task"}) \cup Inserting \cup {"next"} =>
       nodeState[WholeTask] # "IN_PROGRESS"
  /\ split.at \in Cutting \cup Inserting \cup {"next"} => Noted
  /\ split.at \in Cutting => split.todo = NewPairs
  /\ split.at \in Inserting => Begun
  /\ split.at \in Inserting \cup {"next"} =>
       \A g \in NewPairs \ split.todo : PairWhole(g) \/ (split.at \in Inserting /\ g = split.group)
  /\ split.at = "single" => broken \/ split.ends = {}
  /\ split.at = "done" => broken \/ split.ends = {} \/ (Noted /\ \A g \in NewPairs : PairWhole(g))

\* The graph at first.
LEMMA FirstEdges ==
  ASSUME NEW downs, downs \in {Down, {}},
         edges = Up \X {WholeTask} \cup {<<WholeTask, WholeQa>>} \cup {WholeQa} \X downs
  PROVE  Before(WholeTask) = Up /\ After(WholeTask) = {WholeQa} /\ After(WholeQa) = downs
<1>1. WholeTask # WholeQa
  BY DEF WholeTask, WholeQa
<1>2. WholeTask \notin Up \cup downs /\ WholeQa \notin Up \cup downs
  BY SplitAssumption
<1> HIDE DEF WholeTask, WholeQa
<1> DEFINE Edge(a, b) == \/ a \in Up /\ b = WholeTask
                         \/ a = WholeTask /\ b = WholeQa
                         \/ a = WholeQa /\ b \in downs
<1>3. \A a, b : <<a, b>> \in edges <=> Edge(a, b)
  OBVIOUS
<1>4. \A e \in edges : e = <<e[1], e[2]>>
  OBVIOUS
<1>5. \A a, b : a \in Before(b) <=> <<a, b>> \in edges
  <2>1. ASSUME NEW a, NEW b, a \in Before(b) PROVE <<a, b>> \in edges
    <3>1. PICK e \in edges : e[2] = b /\ a = e[1]
      BY <2>1 DEF Before
    <3> QED BY <1>4, <3>1
  <2>2. ASSUME NEW a, NEW b, <<a, b>> \in edges PROVE a \in Before(b)
    <3>1. <<a, b>>[1] = a /\ <<a, b>>[2] = b
      OBVIOUS
    <3> QED BY <2>2, <3>1 DEF Before
  <2> QED BY <2>1, <2>2
<1>6. \A a, b : b \in After(a) <=> <<a, b>> \in edges
  <2>1. ASSUME NEW a, NEW b, b \in After(a) PROVE <<a, b>> \in edges
    <3>1. PICK e \in edges : e[1] = a /\ b = e[2]
      BY <2>1 DEF After
    <3> QED BY <1>4, <3>1
  <2>2. ASSUME NEW a, NEW b, <<a, b>> \in edges PROVE b \in After(a)
    <3>1. <<a, b>>[1] = a /\ <<a, b>>[2] = b
      OBVIOUS
    <3> QED BY <2>2, <3>1 DEF After
  <2> QED BY <2>1, <2>2
<1>7. \A a : /\ a \in Before(WholeTask) <=> a \in Up
             /\ a \in After(WholeTask) <=> a = WholeQa
             /\ a \in After(WholeQa) <=> a \in downs
  BY <1>1, <1>2, <1>3, <1>5, <1>6
<1> QED BY <1>7

LEMMA SplitStart == SplitInit => SplitInv
<1> SUFFICES ASSUME SplitInit PROVE SplitInv
  OBVIOUS
<1>1. SplitFields /\ split.at = "idle" /\ split.ends = {}
  BY DEF SplitInit, NoSplit, SplitFields
<1>2. Uncut
  BY DEF SplitInit, Uncut
<1>3. Up \cup {WholeTask} \subseteq DOMAIN nodeState
  BY DEF SplitInit
<1> QED BY <1>1, <1>2, <1>3 DEF SplitInv, BeforeCut, Cutting, Inserting

\* The groups do not change, and whole ones stay whole.
LEMMA SplitKeeps ==
  ASSUME UNCHANGED <<kind, screens>>
  PROVE  /\ NewPairs' = NewPairs
         /\ \A g : PairWhole(g) /\ edges \subseteq edges' /\ split'.downs = split.downs
                     /\ DOMAIN nodeState \subseteq DOMAIN nodeState'
              => PairWhole(g)'
<1>1. NewPairs' = NewPairs
  BY DEF NewPairs, Groups, Grouped, Members, NamedRows, Kept
<1> QED BY <1>1 DEF PairWhole

\* What a step of the executor leaves in its variables.
LEMMA SplitMoves ==
  ASSUME SplitFields
  PROVE  /\ \A place : SplitGoto(place) =>
              /\ SplitFields' /\ split'.at = place
              /\ split'.ups = split.ups /\ split'.downs = split.downs /\ split'.ends = split.ends
              /\ split'.todo = split.todo /\ split'.group = split.group
         /\ \A g : split' = [split EXCEPT !.at = "insert_qa", !.group = g, !.todo = @ \ {g}] =>
              /\ SplitFields' /\ split'.at = "insert_qa"
              /\ split'.ups = split.ups /\ split'.downs = split.downs /\ split'.ends = split.ends
              /\ split'.todo = split.todo \ {g} /\ split'.group = g
         /\ \A ups, downs, ends, todo :
              split' = [split EXCEPT !.at = "skip_task", !.todo = todo, !.ups = ups,
                                     !.downs = downs, !.ends = ends] =>
              /\ SplitFields' /\ split'.at = "skip_task"
              /\ split'.ups = ups /\ split'.downs = downs /\ split'.ends = ends
              /\ split'.todo = todo
BY DEF SplitFields, SplitGoto

\* A step that leaves the executor and the edges alone.
LEMMA SplitElsewhere ==
  ASSUME SplitInv, UNCHANGED <<kind, screens, edges, split, broken>>,
         DOMAIN nodeState \subseteq DOMAIN nodeState',
         nodeState'[WholeTask] = "IN_PROGRESS" => nodeState[WholeTask] = "IN_PROGRESS"
  PROVE  SplitInv'
<1>1. NewPairs' = NewPairs /\ \A g : PairWhole(g) => PairWhole(g)'
  BY SplitKeeps
<1>2. (Noted => Noted') /\ (Begun => Begun') /\ (Uncut => Uncut') /\ (SplitFields => SplitFields')
  BY DEF Noted, Followers, Begun, Uncut, SplitFields
<1> QED BY <1>1, <1>2 DEF SplitInv

LEMMA SplitStep == SplitInv /\ [SplitNext]_splitVars => SplitInv'
<1> SUFFICES ASSUME SplitInv, [SplitNext]_splitVars PROVE SplitInv'
  OBVIOUS
<1> USE DEF BeforeCut, Cutting, Inserting
<1>1. CASE UNCHANGED splitVars
  BY <1>1, SplitElsewhere DEF splitVars
<1>0. SplitFields /\ Up \cup {WholeTask} \subseteq DOMAIN nodeState
  BY DEF SplitInv
<1>2. ASSUME NEW n \in DOMAIN nodeState, Start(n) \/ EndNode(n) \/ Rework(n) PROVE SplitInv'
  BY <1>0, <1>2, SplitElsewhere DEF Start, EndNode, Rework
<1>3. CASE Launch
  <2>1. /\ split'.at = "read" /\ split'.ends = split.ends /\ split.at = "idle" /\ SplitFields'
        /\ edges' = edges /\ DOMAIN nodeState' = DOMAIN nodeState
    BY <1>0, <1>3, SplitMoves DEF Launch, SplitAt
  <2>2. Uncut' /\ split.ends = {}
    BY <2>1 DEF SplitInv, Uncut
  <2> QED BY <1>0, <2>1, <2>2 DEF SplitInv
<1>4. CASE ReadGroups
  <2>0. /\ split.at = "read" /\ split.ends = {} /\ Uncut
        /\ UNCHANGED <<kind, screens, nodeState, edges, broken>>
    BY <1>4 DEF ReadGroups, SplitAt, SplitInv
  <2>1. CASE NewPairs = {} \/ ~Unsplit
    <3>1. SplitFields' /\ split'.at = "single" /\ split'.ends = {}
      BY <1>0, <1>4, <2>0, <2>1, SplitMoves DEF ReadGroups
    <3> QED BY <1>0, <2>0, <3>1 DEF SplitInv
  <2>2. CASE ~(NewPairs = {} \/ ~Unsplit)
    <3>1. PICK downs \in {Down, {}} :
            edges = Up \X {WholeTask} \cup {<<WholeTask, WholeQa>>} \cup {WholeQa} \X downs
      BY <2>0 DEF Uncut
    <3>2. Before(WholeTask) = Up /\ After(WholeTask) = {WholeQa} /\ After(WholeQa) = downs
      BY <3>1, FirstEdges
    <3>3. WholeQa \notin downs
      BY SplitAssumption
    <3>4. split' = [split EXCEPT
            !.at = "skip_task", !.todo = NewPairs, !.ups = Before(WholeTask),
            !.downs = IF After(WholeQa) # {} THEN After(WholeQa) ELSE {Gate},
            !.ends = After(WholeTask) \cup After(WholeQa)]
      BY <1>4, <2>2 DEF ReadGroups
    <3> DEFINE first == After(WholeQa)
               followers == IF first # {} THEN first ELSE {Gate}
               ends == After(WholeTask) \cup first
               ups == Before(WholeTask)
               todo == NewPairs
    <3>5. /\ SplitFields' /\ split'.at = "skip_task" /\ split'.todo = NewPairs /\ split'.ups = Up
          /\ split'.downs = IF downs # {} THEN downs ELSE {Gate}
          /\ split'.ends = {WholeQa} \cup downs
      <4>1. split' = [split EXCEPT !.at = "skip_task", !.todo = todo, !.ups = ups,
                                   !.downs = followers, !.ends = ends]
        BY <3>4
      <4>2. /\ followers = IF downs # {} THEN downs ELSE {Gate}
            /\ ends = {WholeQa} \cup downs /\ ups = Up /\ todo = NewPairs
        BY <3>2
      <4> HIDE DEF first, followers, ends, ups, todo
      <4>3. /\ SplitFields' /\ split'.at = "skip_task"
            /\ split'.ups = ups /\ split'.downs = followers /\ split'.ends = ends
            /\ split'.todo = todo
        BY <1>0, <4>1, SplitMoves
      <4> QED BY <4>2, <4>3
    <3>6. Noted'
      BY <3>3, <3>5 DEF Noted, Followers
    <3>7. NewPairs' = NewPairs
      BY <2>0, SplitKeeps
    <3>8. Uncut'
      BY <2>0 DEF Uncut
    <3> QED BY <1>0, <2>0, <3>5, <3>6, <3>7, <3>8 DEF SplitInv
  <2> QED BY <2>1, <2>2
<1>5. CASE \/ SkipTask \/ SkipQa \/ Mend
           \/ SwitchOff(WholeTask, "off_task", "off_qa") \/ SwitchOff(WholeQa, "off_qa", "mend")
  <2>1. /\ split.at \in Cutting /\ UNCHANGED <<kind, screens>>
        /\ DOMAIN nodeState' = DOMAIN nodeState
        /\ \E place \in (Cutting \ {"skip_task"}) \cup {"next"} : SplitGoto(place)
    BY <1>5 DEF SkipTask, SkipQa, Mend, SwitchOff, SplitAt
  <2>2. Noted /\ split.todo = NewPairs
    BY <2>1 DEF SplitInv
  <2>3. /\ SplitFields' /\ split'.at \in (Cutting \ {"skip_task"}) \cup {"next"}
        /\ split'.ups = split.ups /\ split'.downs = split.downs /\ split'.ends = split.ends
        /\ split'.todo = split.todo
    BY <1>0, <2>1, SplitMoves
  <2>4. NewPairs' = NewPairs /\ Noted'
    BY <2>1, <2>2, <2>3, SplitKeeps DEF Noted, Followers
  <2>5. nodeState'[WholeTask] # "IN_PROGRESS"
    <3>1. CASE SkipTask
      BY <1>0, <3>1 DEF SkipTask
    <3>2. CASE SkipQa
      <4>1. nodeState[WholeTask] # "IN_PROGRESS"
        BY <3>2 DEF SkipQa, SplitAt, SplitInv
      <4> QED BY <1>0, <3>2, <4>1 DEF SkipQa
    <3>3. CASE ~SkipTask /\ ~SkipQa
      BY <1>5, <3>3 DEF Mend, SwitchOff, SplitAt, SplitInv
    <3> QED BY <3>1, <3>2, <3>3
  <2> QED BY <1>0, <2>1, <2>2, <2>3, <2>4, <2>5 DEF SplitInv
<1>6. CASE NextGroup
  <2>1. PICK g \in split.todo :
          /\ split' = [split EXCEPT !.at = "insert_qa", !.group = g, !.todo = @ \ {g}]
          /\ nodeState' = [n \in DOMAIN nodeState \cup {TaskOf(g)} |->
                             IF n = TaskOf(g) THEN "NOT_STARTED" ELSE nodeState[n]]
    BY <1>6 DEF NextGroup
  <2>2. split.at = "next" /\ UNCHANGED <<kind, screens, edges, broken>>
    BY <1>6 DEF NextGroup, SplitAt
  <2>3. /\ SplitFields' /\ split'.at = "insert_qa" /\ split'.group = g
        /\ split'.todo = split.todo \ {g}
        /\ split'.ups = split.ups /\ split'.downs = split.downs /\ split'.ends = split.ends
    BY <1>0, <2>1, SplitMoves
  <2>4. DOMAIN nodeState \subseteq DOMAIN nodeState' /\ nodeState'[WholeTask] # "IN_PROGRESS"
    <3>1. nodeState[WholeTask] # "IN_PROGRESS"
      BY <2>2 DEF SplitInv
    <3> QED BY <1>0, <2>1, <3>1
  <2>5. NewPairs' = NewPairs /\ \A h : PairWhole(h) => PairWhole(h)'
    BY <2>2, <2>3, <2>4, SplitKeeps
  <2>6. Noted' /\ Begun'
    BY <2>2, <2>3 DEF SplitInv, Noted, Followers, Begun
  <2>7. \A h \in NewPairs' \ split'.todo : PairWhole(h)' \/ h = split'.group
    BY <2>2, <2>3, <2>5 DEF SplitInv
  <2> QED BY <1>0, <2>2, <2>3, <2>4, <2>6, <2>7 DEF SplitInv
<1>7. CASE InsertQa \/ EdgesIn \/ EdgePair \/ EdgesOut
  <2>0. split.at \in Inserting /\ nodeState[WholeTask] # "IN_PROGRESS"
    BY <1>7 DEF InsertQa, EdgesIn, EdgePair, EdgesOut, Connect, SplitAt, SplitInv
  <2>1. /\ \E place \in (Inserting \ {"insert_qa"}) \cup {"next"} :
             SplitGoto(place) /\ (place = "next" => EdgesOut)
        /\ UNCHANGED <<kind, screens, broken>>
        /\ edges \subseteq edges' /\ DOMAIN nodeState \subseteq DOMAIN nodeState'
        /\ nodeState'[WholeTask] # "IN_PROGRESS"
    <3>1. CASE InsertQa
      BY <1>0, <2>0, <3>1 DEF InsertQa
    <3>2. CASE EdgesIn \/ EdgePair \/ EdgesOut
      BY <2>0, <3>2 DEF EdgesIn, EdgePair, EdgesOut, Connect
    <3> QED BY <1>7, <3>1, <3>2
  <2>2. /\ SplitFields' /\ split'.at \in (Inserting \ {"insert_qa"}) \cup {"next"}
        /\ split'.at = "next" => EdgesOut
        /\ split'.group = split.group /\ split'.todo = split.todo
        /\ split'.ups = split.ups /\ split'.downs = split.downs /\ split'.ends = split.ends
    BY <1>0, <2>1, SplitMoves
  <2>3. NewPairs' = NewPairs /\ \A h : PairWhole(h) => PairWhole(h)'
    BY <2>1, <2>2, SplitKeeps
  <2>4. Noted' /\ split.ups = Up
    BY <2>0, <2>1, <2>2 DEF SplitInv, Noted, Followers
  <2>5. Begun'
    <3>1. CASE InsertQa
      <4>1. QaOf(split.group) \in DOMAIN nodeState' /\ SplitGoto("edges_in")
        BY <3>1 DEF InsertQa
      <4>2. split'.at = "edges_in"
        BY <1>0, <4>1, SplitMoves
      <4> QED BY <2>2, <4>1, <4>2 DEF Begun
    <3>2. CASE EdgesIn
      <4>1. QaOf(split.group) \in DOMAIN nodeState
        BY <3>2 DEF EdgesIn, Connect, SplitAt, Begun, SplitInv
      <4>2. Up \X {TaskOf(split.group)} \subseteq edges'
        BY <2>4, <3>2 DEF EdgesIn, Connect
      <4> QED BY <2>1, <2>2, <4>1, <4>2 DEF Begun
    <3>3. CASE EdgePair \/ EdgesOut
      <4>1. QaOf(split.group) \in DOMAIN nodeState /\ Up \X {TaskOf(split.group)} \subseteq edges
        BY <3>3 DEF EdgePair, EdgesOut, Connect, SplitAt, Begun, SplitInv
      <4> QED BY <2>1, <2>2, <4>1 DEF Begun
    <3> QED BY <1>7, <3>1, <3>2, <3>3
  <2>6. split'.at = "next" => PairWhole(split.group)'
    <3> SUFFICES ASSUME EdgesOut PROVE PairWhole(split.group)'
      BY <2>2
    <3>2. QaOf(split.group) \in DOMAIN nodeState /\ Up \X {TaskOf(split.group)} \subseteq edges
      BY DEF EdgesOut, Connect, SplitAt, Begun, SplitInv
    <3>3. {QaOf(split.group)} \X split.downs \subseteq edges'
      BY DEF EdgesOut, Connect
    <3> QED BY <2>1, <2>2, <3>2, <3>3 DEF PairWhole
  <2>7. \A h \in NewPairs' \ split'.todo :
          PairWhole(h)' \/ (split'.at \in Inserting /\ h = split'.group)
    BY <2>0, <2>2, <2>3, <2>6 DEF SplitInv
  <2> QED BY <1>0, <2>1, <2>2, <2>4, <2>5, <2>7 DEF SplitInv
<1>8. CASE Replaced
  <2>1. /\ split.at = "next" /\ split.todo = {} /\ SplitGoto("done")
        /\ UNCHANGED <<kind, screens, nodeState, edges, broken>>
    BY <1>8 DEF Replaced, SplitAt
  <2>2. /\ SplitFields' /\ split'.at = "done"
        /\ split'.ups = split.ups /\ split'.downs = split.downs /\ split'.ends = split.ends
    BY <1>0, <2>1, SplitMoves
  <2>3. NewPairs' = NewPairs /\ \A h : PairWhole(h) => PairWhole(h)'
    BY <2>1, <2>2, SplitKeeps
  <2>4. Noted' /\ \A h \in NewPairs : PairWhole(h)
    BY <2>1, <2>2 DEF SplitInv, Noted, Followers
  <2> QED BY <1>0, <2>1, <2>2, <2>3, <2>4 DEF SplitInv
<1>9. CASE SplitFails
  <2>1. SplitFields' /\ split'.at = "single"
    BY <1>0, <1>9, SplitMoves DEF SplitFails
  <2> QED BY <1>0, <1>9, <2>1 DEF SplitFails, SplitInv
<1>10. CASE Single
  <2>1. /\ split.at = "single" /\ SplitGoto("done")
        /\ broken' = broken /\ DOMAIN nodeState' = DOMAIN nodeState
    BY <1>10 DEF Single, SplitAt
  <2>2. SplitFields' /\ split'.at = "done" /\ split'.ends = split.ends
    BY <1>0, <2>1, SplitMoves
  <2> QED BY <1>0, <2>1, <2>2 DEF SplitInv
<1>11. CASE SplitStops
  <2>0. split.at \notin {"idle", "single", "done"}
    BY <1>11 DEF SplitStops, Working
  <2>1. /\ DOMAIN nodeState' = DOMAIN nodeState /\ edges' = edges
        /\ SplitFields' /\ split'.ends = {}
    BY <1>11 DEF SplitStops, NoSplit, SplitFields
  <2>2. CASE nodeState[WholeTask] = "IN_PROGRESS"
    <3>1. split'.at = "idle"
      BY <1>11, <2>2 DEF SplitStops, NoSplit
    <3>2. Uncut'
      BY <2>0, <2>1, <2>2 DEF SplitInv, Uncut
    <3> QED BY <1>0, <2>1, <3>1, <3>2 DEF SplitInv
  <2>3. CASE nodeState[WholeTask] # "IN_PROGRESS"
    <3>1. split'.at = "done"
      BY <1>11, <2>3 DEF SplitStops, NoSplit
    <3> QED BY <1>0, <2>1, <3>1 DEF SplitInv
  <2> QED BY <2>2, <2>3
<1> QED BY <1>1, <1>2, <1>3, <1>4, <1>5, <1>6, <1>7, <1>8, <1>9, <1>10, <1>11 DEF SplitNext

\* What may begin has nothing before it that is not done.
LEMMA BeginsLast ==
  ASSUME [SplitNext]_splitVars, split.at = "done", NEW m, Begins(m), NEW u,
         <<u, m>> \in edges, u \in DOMAIN nodeState
  PROVE  nodeState[u] \in Done
<1>1. CanStart(m)
  <2>1. PICK n \in DOMAIN nodeState : Start(n) \/ EndNode(n) \/ Rework(n)
    BY DEF Begins, splitVars, SplitNext, Launch, ReadGroups, SkipTask, SkipQa, SwitchOff, Mend,
           NextGroup, InsertQa, EdgesIn, EdgePair, EdgesOut, Connect, Replaced, SplitFails,
           Single, SplitStops, SplitAt, Working
  <2> QED BY <2>1 DEF Begins, Start, EndNode, Rework
<1>2. u \in Before(m)
  <2>1. <<u, m>>[1] = u /\ <<u, m>>[2] = m
    OBVIOUS
  <2> QED BY <2>1 DEF Before
<1> QED BY <1>1, <1>2 DEF CanStart

\* A split that went through keeps the order of the graph, for any lists of
\* screens, limits and neighbours, although the rows and edges are written one
\* by one while the advancer looks on and the process may stop between any two.
THEOREM OrderCorrect == SplitSpec => OrderKept
<1>1. SplitInv /\ [SplitNext]_splitVars =>
        [SplitAt("done") /\ split.ends # {} /\ ~broken =>
           /\ \A g \in NewPairs : Begins(TaskOf(g)) => \A u \in Up : nodeState[u] \in Done
           /\ \A d \in Followers : Begins(d) =>
                \A g \in NewPairs : nodeState[QaOf(g)] \in Done]_splitVars
  <2> SUFFICES ASSUME SplitInv, [SplitNext]_splitVars, split.at = "done", split.ends # {}, ~broken
               PROVE  /\ \A g \in NewPairs : Begins(TaskOf(g)) => \A u \in Up : nodeState[u] \in Done
                      /\ \A d \in Followers : Begins(d) =>
                           \A g \in NewPairs : nodeState[QaOf(g)] \in Done
    BY DEF SplitAt
  <2>1. split.downs = Followers /\ \A g \in NewPairs : PairWhole(g)
    BY DEF SplitInv, Noted
  <2>2. ASSUME NEW g \in NewPairs, Begins(TaskOf(g)), NEW u \in Up PROVE nodeState[u] \in Done
    <3>1. <<u, TaskOf(g)>> \in edges /\ u \in DOMAIN nodeState
      BY <2>1, <2>2 DEF PairWhole, SplitInv
    <3> QED BY <2>2, <3>1, BeginsLast
  <2>3. ASSUME NEW d \in Followers, Begins(d), NEW g \in NewPairs
        PROVE  nodeState[QaOf(g)] \in Done
    <3>1. <<QaOf(g), d>> \in edges /\ QaOf(g) \in DOMAIN nodeState
      BY <2>1, <2>3 DEF PairWhole
    <3> QED BY <2>3, <3>1, BeginsLast
  <2> QED BY <2>2, <2>3
<1> QED BY <1>1, SplitStart, SplitStep, PTL DEF SplitSpec, OrderKept
-----------------------------------------------------------------------------
(* The checks of a QA *)

\* A fix moves no heading, fence or row: it writes "text" over words that are
\* none of these and adds its marker at the end.
LEMMA FixPlaces ==
  ASSUME NEW d \in Seq(Token), Fixed(d) # d,
         NEW T, T \cap {"text", "tbd", "marker"} = {}
  PROVE  Places(Fixed(d), T) = Places(d, T) /\ Len(Fixed(d)) = Len(d) + 1
<1> DEFINE g == [i \in DOMAIN d |-> IF i \in Fixable(d) THEN "text" ELSE d[i]]
           f == g \o <<"marker">>
<1>1. Fixed(d) = f
  BY DEF Fixed
<1>2. g \in Seq(Token) /\ Len(g) = Len(d) /\ DOMAIN g = 1..Len(d)
  BY DEF Token
<1>3. /\ Len(f) = Len(d) + 1 /\ DOMAIN f = 1..(Len(d) + 1)
      /\ f[Len(d) + 1] = "marker" /\ \A i \in 1..Len(d) : f[i] = g[i]
  BY <1>2
<1>4. \A i \in Fixable(d) : d[i] = "tbd"
  BY DEF Fixable, Forbidden, Places, Safe
<1>5. \A i \in 1..Len(d) : g[i] \in T <=> d[i] \in T
  BY <1>4
<1> HIDE DEF f, g
<1>6. Places(f, T) = Places(d, T)
  BY <1>3, <1>5 DEF Places
<1> QED BY <1>1, <1>3, <1>6

\* A document that passes the checks passes them again when it has been fixed.
LEMMA FixPasses ==
  ASSUME NEW d \in Seq(Token), NEW s, ~DocumentFails(d, s)
  PROVE  ~DocumentFails(Fixed(d), s)
<1> DEFINE f == Fixed(d)
<1>1. CASE f = d
  BY <1>1
<1>2. CASE f # d
  <2>1. /\ \A T : T \cap {"text", "tbd", "marker"} = {} => Places(f, T) = Places(d, T)
        /\ Len(f) = Len(d) + 1
    BY <1>2, FixPlaces
  <2>2. Forbidden(f) = {}
    BY DEF DocumentFails, Remaining
  <2>3. Fixable(f) = {}
    BY <2>2 DEF Fixable
  <2>4. Cardinality(Fixable(f)) \notin 1..MaxFix
    BY <2>3, FS_EmptySet
  <2>5. Remaining(f) = {}
    BY <2>2, <2>4 DEF Remaining, Fixed
  <2> HIDE DEF f
  <2>6. Headings(f) = Headings(d) /\ Fences(f) = Fences(d)
    BY <2>1 DEF Headings, Fences
  <2>7. Places(f, {"section"}) = Places(d, {"section"}) /\ Places(f, {"row"}) = Places(d, {"row"})
    BY <2>1
  <2>8. ~(Len(f) < LeastSize)
    <3>1. ~(Len(d) < LeastSize)
      BY DEF DocumentFails
    <3> QED BY <2>1, <3>1, CheckAssumption
  <2>9. /\ Headings(d) # {}
        /\ ~("section" \in s /\ Places(d, {"section"}) = {})
        /\ ~("table" \in s /\ Cardinality(Places(d, {"row"})) < 2)
        /\ ~(Cardinality(Fences(d)) % 2 = 1)
    BY DEF DocumentFails
  <2> QED BY <2>5, <2>6, <2>7, <2>8, <2>9 DEF DocumentFails, f
<1> QED BY <1>1, <1>2

\* A document that a model may judge has passed the checks, as it is stored;
\* what the harness approved is a frontend that passes those of the audit.
CheckInv ==
  /\ contentKind = "document" =>
       /\ standing \in {"made", "suspended"} => content \in Seq(Token)
       /\ standing \in {"model", "approved"} => ~DocumentFails(content, spec)
  /\ approver = "harness" =>
       /\ standing = "approved" /\ contentKind = "frontend"
       /\ ~AiCodeFails(content) /\ ~InteractivityFails(content)

LEMMA CheckStart == CheckInit => CheckInv
BY DEF CheckInit, CheckInv

LEMMA CheckStep == CheckInv /\ [CheckNext]_checkVars => CheckInv'
<1> SUFFICES ASSUME CheckInv, [CheckNext]_checkVars PROVE CheckInv'
  OBVIOUS
<1>1. CASE UNCHANGED checkVars
  BY <1>1 DEF checkVars, CheckInv
<1>2. CASE MakeContent
  <2>1. contentKind = "document" => content' \in Seq(Token)
    <3>1. ASSUME contentKind = "document" PROVE content' \in SeqOf(Token, MaxTokens)
      BY <1>2, <3>1 DEF MakeContent, Contents, Document, BoundedSeq
    <3>2. SeqOf(Token, MaxTokens) \subseteq Seq(Token)
      BY CheckAssumption DEF SeqOf
    <3> QED BY <3>1, <3>2
  <2> QED BY <1>2, <2>1 DEF MakeContent, CheckInv
<1>3. CASE QaDocument
  <2>1. content \in Seq(Token) /\ approver # "harness"
    BY <1>3 DEF QaDocument, CheckInv
  <2>2. CASE DocumentFails(content, spec)
    BY <1>3, <2>2 DEF QaDocument, Reject, CheckInv
  <2>3. CASE ~DocumentFails(content, spec)
    <3>1. ~DocumentFails(content', spec) /\ spec' = spec /\ approver' = approver
          /\ standing' = "model"
      BY <1>3, <2>1, <2>3, FixPasses DEF QaDocument
    <3> QED BY <2>1, <3>1 DEF CheckInv
  <2> QED BY <2>2, <2>3
<1>4. CASE QaFrontend
  BY <1>4 DEF QaFrontend, CheckInv, Reject, ToModel, ApproveAs
<1>5. CASE QaProgrammatic \/ QaDesign \/ QaItems \/ QaHtml
  BY <1>5 DEF QaProgrammatic, QaDesign, QaItems, QaHtml, CheckInv, Reject, ToModel, ApproveAs
<1>6. CASE Model
  BY <1>6 DEF Model, CheckInv, Reject, ApproveAs
<1>7. CASE Suspend \/ Recover
  BY <1>7 DEF Suspend, Recover, CheckInv
<1>8. CASE Audit
  BY <1>8 DEF Audit, Reject, CheckInv
<1> QED BY <1>1, <1>2, <1>3, <1>4, <1>5, <1>6, <1>7, <1>8 DEF CheckNext

\* Whatever the limits and specifications, what the checks of a QA have
\* approved passes them again wherever they are made again: a fixed document
\* as it is stored, and in the audit whatever the harness has let through.
THEOREM VerdictsCorrect == CheckSpec => []VerdictsAgree
<1>1. CheckInv => VerdictsAgree
  BY DEF CheckInv, VerdictsAgree, AuditFails
<1> QED BY <1>1, CheckStart, CheckStep, PTL DEF CheckSpec
-----------------------------------------------------------------------------
(* Documents and lists that are generated part by part *)

Entry == Part \X {"good", "cut", "recut", "failed", "loose"}

Snapshot == [list : Seq(Entry), marked : SUBSET Part]
Answer == [list : Seq(Entry), stop : {"none", "end_turn", "max_tokens", "single"}]

TextTypes ==
  /\ running \in BOOLEAN /\ paused \in BOOLEAN /\ anyCut \in BOOLEAN /\ fresh \in BOOLEAN
  /\ part \in Nat /\ marked \subseteq Part
  /\ results \in Seq(Entry)
  /\ snap \in Snapshot
  /\ returned \in Answer
  /\ running => part \in 1..(Pieces + 1) /\ returned = NoAnswer
  /\ running /\ paused => part = Pieces + 1

Numbered(list) == \A k \in 1..Len(list) : list[k][1] = k
NoCut(list) == \A k \in 1..Len(list) : list[k][2] # "cut"

\* The results of a document stand in order; those of an attempt without a
\* snapshot are its own, since what it saves is behind it.
DocumentInv ==
  shape = "document" =>
    /\ running /\ ~paused => Len(results) = part - 1 /\ Numbered(results)
    /\ Ended /\ ~paused => Len(returned.list) = Pieces /\ Numbered(returned.list)
    /\ running /\ fresh => \A k \in 1..Len(snap.list) : snap.list[k][1] < part
    /\ running /\ fresh /\ ~anyCut => NoCut(results)
    /\ Ended /\ fresh /\ returned.stop = "end_turn" => NoCut(returned.list)

Goods(list, p) == {k \in Entries(list, p) : list[k][2] = "good"}

\* What is there of a category is marked, and there once.
GoodOnce(list, names) ==
  \A p \in Part : \A j, k \in Goods(list, p) : j = k /\ p \in names

CategoryInv == shape = "categories" => GoodOnce(results, marked) /\ GoodOnce(snap.list, snap.marked)

ItemInv ==
  shape = "items" =>
    /\ running => \A p \in Part : p < part => Entries(results, p) # {}
    /\ Ended => \A p \in Part : Entries(returned.list, p) # {}

TextInv == TextTypes /\ DocumentInv /\ CategoryInv /\ ItemInv

LEMMA Nothing ==
  /\ NoSnap \in Snapshot /\ NoSnap.list = <<>> /\ NoSnap.marked = {}
  /\ NoAnswer \in Answer /\ NoAnswer.list = <<>> /\ NoAnswer.stop = "none"
<1>1. <<>> \in Seq(Entry) /\ {} \in SUBSET Part
  OBVIOUS
<1> QED BY <1>1 DEF NoSnap, NoAnswer, Snapshot, Answer

LEMMA LeastPlace ==
  ASSUME NEW T, T \subseteq Nat, T # {}
  PROVE  \E x \in T : \A y \in T : x <= y
<1>1. PICK x \in T : \A y \in T : ~(<<y, x>> \in OpToRel(<, Nat))
  BY NatLessThanWellFounded, WFMin
<1>2. \A y \in T : ~(y < x)
  BY <1>1 DEF OpToRel
<1> QED BY <1>2

LEMMA FirstEntry ==
  ASSUME NEW list \in Seq(Entry), NEW p, Entries(list, p) # {}
  PROVE  First(list, p) \in Entry /\ First(list, p)[1] = p
<1>1. Entries(list, p) \subseteq Nat
  BY DEF Entries
<1>2. PICK k \in Entries(list, p) : \A j \in Entries(list, p) : k <= j
  BY <1>1, LeastPlace
<1> DEFINE c == CHOOSE i \in Entries(list, p) : \A j \in Entries(list, p) : i <= j
<1>3. c \in Entries(list, p)
  BY <1>2
<1>4. First(list, p) = list[c]
  BY DEF First
<1> HIDE DEF c
<1> QED BY <1>3, <1>4 DEF Entries

LEMMA Appended ==
  ASSUME NEW list \in Seq(Entry), NEW e \in Entry
  PROVE  /\ Append(list, e) \in Seq(Entry) /\ Len(Append(list, e)) = Len(list) + 1
         /\ Append(list, e)[Len(list) + 1] = e
         /\ \A k \in 1..Len(list) : Append(list, e)[k] = list[k]
         /\ \A p : Entries(list, p) # {} => Entries(Append(list, e), p) # {}
         /\ Entries(Append(list, e), e[1]) # {}
<1>1. /\ Append(list, e) \in Seq(Entry) /\ Len(Append(list, e)) = Len(list) + 1
      /\ Append(list, e)[Len(list) + 1] = e
      /\ \A k \in 1..Len(list) : Append(list, e)[k] = list[k]
  OBVIOUS
<1> QED BY <1>1 DEF Entries

\* One more entry.
LEMMA OneMore ==
  ASSUME NEW list \in Seq(Entry), NEW names \in SUBSET Part, GoodOnce(list, names),
         NEW p \in Part
  PROVE  /\ p \notin names => GoodOnce(Append(list, <<p, "good">>), names \cup {p})
         /\ GoodOnce(list, names \cup {p})
         /\ GoodOnce(Append(list, <<p, "loose">>), names)
<1>1. ASSUME p \notin names PROVE GoodOnce(Append(list, <<p, "good">>), names \cup {p})
  <2> DEFINE new == Append(list, <<p, "good">>)
  <2>1. /\ Len(new) = Len(list) + 1 /\ new[Len(list) + 1] = <<p, "good">>
        /\ \A k \in 1..Len(list) : new[k] = list[k]
    BY Appended DEF Entry
  <2> HIDE DEF new
  <2>2. \A k \in 1..Len(list) : k \in Goods(list, p) => p \in names
    BY DEF GoodOnce
  <2>3. \A q \in Part \ {p} : Goods(new, q) = Goods(list, q)
    BY <2>1 DEF Goods, Entries
  <2>4. Goods(new, p) \subseteq {Len(list) + 1}
    BY <1>1, <2>1, <2>2 DEF Goods, Entries
  <2> QED BY <2>3, <2>4 DEF GoodOnce, new
<1>2. GoodOnce(Append(list, <<p, "loose">>), names)
  <2> DEFINE new == Append(list, <<p, "loose">>)
  <2>1. /\ Len(new) = Len(list) + 1 /\ new[Len(list) + 1] = <<p, "loose">>
        /\ \A k \in 1..Len(list) : new[k] = list[k]
    BY Appended DEF Entry
  <2> HIDE DEF new
  <2>2. \A q \in Part : Goods(new, q) = Goods(list, q)
    BY <2>1 DEF Goods, Entries
  <2> QED BY <2>2 DEF GoodOnce, new
<1> QED BY <1>1, <1>2 DEF GoodOnce

LEMMA TextStart == TextInit => TextInv
<1> SUFFICES ASSUME TextInit PROVE TextInv
  OBVIOUS
<1>1. <<>> \in Seq(Entry) /\ Len(<<>>) = 0
  OBVIOUS
<1>2. TextTypes
  BY <1>1, Nothing DEF TextInit, TextTypes
<1>3. ~running /\ ~Ended
  BY DEF TextInit, NoAnswer, Ended
<1>4. GoodOnce(<<>>, {})
  BY DEF GoodOnce, Goods, Entries
<1> QED BY <1>2, <1>3, <1>4 DEF TextInv, DocumentInv, CategoryInv, ItemInv, TextInit, NoSnap

\* What an attempt writes to the snapshot.
LEMMA SnapshotTaken ==
  ASSUME snap \in Snapshot,
         NEW list \in Seq(Entry), NEW names \in SUBSET Part, SaveSnap(list, names)
  PROVE  /\ snap' \in Snapshot
         /\ snap' = snap \/ (snap'.list = list /\ snap'.marked = names)
BY DEF SaveSnap, Snapshot

\* Steps on the parts of a document.
LEMMA SectionSteps ==
  ASSUME TextInv,
         \/ SectionCached \/ SectionFails \/ PauseSeen
         \/ \E c \in BOOLEAN, what \in {"good", "cut", "recut"} : SectionMade(c, what)
  PROVE  TextInv'
<1> USE TextAssumption
<1>0. /\ TextTypes /\ DocumentInv /\ running /\ running' /\ shape = "document" /\ shape' = shape
      /\ part \in Part /\ returned' = returned /\ marked' = marked /\ fresh' = fresh
      /\ ~Ended'
  BY DEF SectionCached, SectionFails, PauseSeen, SectionMade, Move, TextInv, TextTypes, Ended, NoAnswer
<1>1. CASE PauseSeen
  <2>1. /\ part' = Pieces + 1 /\ paused' /\ part < part'
        /\ UNCHANGED <<results, anyCut, snap>>
    BY <1>0, <1>1 DEF PauseSeen, Part
  <2>2. TextTypes'
    BY <1>0, <2>1 DEF TextTypes
  <2>3. ASSUME fresh, NEW k \in 1..Len(snap.list) PROVE snap.list[k][1] < part'
    <3>1. snap.list \in Seq(Entry)
      BY <1>0 DEF TextTypes, Snapshot
    <3>2. snap.list[k][1] \in Part
      BY <2>3, <3>1 DEF Entry
    <3> QED BY <2>1, <3>2 DEF Part
  <2>4. DocumentInv'
    BY <1>0, <2>1, <2>3 DEF DocumentInv, NoCut
  <2> QED BY <1>0, <2>2, <2>4 DEF TextInv, CategoryInv, ItemInv
<1>2. ASSUME NEW what \in {"good", "cut", "recut", "failed", "loose"}, NEW e \in Entry,
             e = <<part, what>>,
             results' = Append(results, e), part' = part + 1, paused' = paused,
             anyCut' \in BOOLEAN, anyCut => anyCut',
             fresh /\ what = "cut" => anyCut',
             SaveSnap(results', {}) \/ snap' = snap
      PROVE  TextInv'
  <2>1. /\ results' \in Seq(Entry) /\ Len(results') = Len(results) + 1
        /\ results'[Len(results) + 1] = e
        /\ \A k \in 1..Len(results) : results'[k] = results[k]
    BY <1>0, <1>2, Appended DEF TextTypes
  <2>2. ~paused /\ Len(results) = part - 1 /\ Numbered(results)
    BY <1>0 DEF TextTypes, DocumentInv, Part
  <2>3. snap' \in Snapshot
        /\ (snap' = snap \/ snap'.list = results')
    BY <1>0, <1>2, <2>1, SnapshotTaken DEF TextTypes
  <2>4. TextTypes'
    BY <1>0, <1>2, <2>1, <2>2, <2>3 DEF TextTypes, Part
  <2>5. Len(results') = part' - 1 /\ Numbered(results')
    BY <1>0, <1>2, <2>1, <2>2 DEF Numbered, Part
  <2>6. fresh => \A k \in 1..Len(snap'.list) : snap'.list[k][1] < part'
    <3>1. CASE snap' = snap
      <4> SUFFICES ASSUME fresh, NEW k \in 1..Len(snap.list) PROVE snap.list[k][1] < part'
        BY <3>1
      <4>1. snap.list[k][1] < part /\ snap.list[k][1] \in Nat
        <5>1. snap.list \in Seq(Entry)
          BY <1>0 DEF TextTypes, Snapshot
        <5>2. snap.list[k][1] \in Part
          BY <5>1 DEF Entry
        <5> QED BY <1>0, <5>2 DEF DocumentInv, Part
      <4> QED BY <1>0, <1>2, <4>1 DEF Part
    <3>2. CASE snap'.list = results'
      BY <1>0, <1>2, <2>1, <2>5, <3>2 DEF Numbered, Part
    <3> QED BY <2>3, <3>1, <3>2
  <2>7. fresh /\ ~anyCut' => NoCut(results')
    BY <1>0, <1>2, <2>1 DEF DocumentInv, NoCut, TextTypes
  <2> QED BY <1>0, <2>4, <2>5, <2>6, <2>7 DEF TextInv, DocumentInv, CategoryInv, ItemInv
<1>3. CASE SectionCached
  <2>1. /\ First(snap.list, part) \in Entry /\ First(snap.list, part)[1] = part
    BY <1>0, <1>3, FirstEntry DEF SectionCached, Cached, TextTypes, Snapshot
  <2>2. PICK what \in {"good", "cut", "recut", "failed", "loose"} :
          First(snap.list, part) = <<part, what>>
    BY <2>1 DEF Entry
  <2>3. ~fresh
    <3>1. PICK k \in 1..Len(snap.list) : snap.list[k][1] = part
      BY <1>0, <1>3 DEF SectionCached, Cached, Entries
    <3> QED BY <1>0, <3>1 DEF DocumentInv, Part
  <2>4. <<part, what>> \in Entry
    BY <1>0 DEF Entry
  <2>5. /\ results' = Append(results, <<part, what>>) /\ part' = part + 1
        /\ paused' = paused /\ anyCut' = anyCut /\ snap' = snap
    BY <1>3, <2>2 DEF SectionCached, Move
  <2> QED BY <1>0, <1>2, <2>3, <2>4, <2>5 DEF TextTypes
<1>4. CASE SectionFails
  <2>1. <<part, "failed">> \in Entry
    BY <1>0 DEF Entry
  <2>2. /\ results' = Append(results, <<part, "failed">>) /\ part' = part + 1
        /\ paused' = paused /\ anyCut' = anyCut /\ snap' = snap
    BY <1>4 DEF SectionFails, Move
  <2> QED BY <1>0, <1>2, <2>1, <2>2 DEF TextTypes
<1>5. ASSUME NEW c \in BOOLEAN, NEW what \in {"good", "cut", "recut"}, SectionMade(c, what)
      PROVE  TextInv'
  <2>1. <<part, what>> \in Entry
    BY <1>0 DEF Entry
  <2>2. /\ results' = Append(results, <<part, what>>) /\ part' = part + 1
        /\ paused' = paused /\ anyCut' = (anyCut \/ c) /\ SaveSnap(results', {})
        /\ what = "cut" => c
    BY <1>5 DEF SectionMade
  <2> QED BY <1>0, <1>2, <2>1, <2>2 DEF TextTypes
<1> QED BY <1>1, <1>3, <1>4, <1>5

\* Steps on the categories of a list.
LEMMA CategorySteps ==
  ASSUME TextInv, CategoryCached \/ CategoryList \/ CategoryLoose
  PROVE  TextInv'
<1> USE TextAssumption
<1>0. /\ TextTypes /\ CategoryInv /\ running /\ running' /\ shape = "categories" /\ shape' = shape
      /\ part \in Part /\ part' = part + 1 /\ returned' = returned /\ ~Ended'
      /\ UNCHANGED <<fresh, paused, anyCut>>
  BY DEF CategoryCached, CategoryList, CategoryLoose, Move, TextInv, TextTypes, Ended, NoAnswer
<1>1. ~paused
  BY <1>0 DEF TextTypes, Part
<1>2. GoodOnce(results, marked) /\ GoodOnce(snap.list, snap.marked)
  BY <1>0 DEF CategoryInv
<1>3. <<part, "good">> \in Entry /\ <<part, "loose">> \in Entry
  BY <1>0 DEF Entry
<1>4. /\ Append(results, <<part, "good">>) \in Seq(Entry)
      /\ Append(results, <<part, "loose">>) \in Seq(Entry)
      /\ results \in Seq(Entry) /\ marked \in SUBSET Part
      /\ snap \in Snapshot
  BY <1>0, <1>3 DEF TextTypes
<1>5. ASSUME results' \in Seq(Entry), marked' \in SUBSET Part, GoodOnce(results', marked'),
             snap' = snap \/ SaveSnap(results', marked')
      PROVE  TextInv'
  <2>1. /\ snap' \in Snapshot
        /\ GoodOnce(snap'.list, snap'.marked)
    BY <1>2, <1>4, <1>5, SnapshotTaken
  <2>2. TextTypes'
    BY <1>0, <1>1, <1>5, <2>1 DEF TextTypes, Part
  <2> QED BY <1>0, <1>5, <2>1, <2>2 DEF TextInv, DocumentInv, CategoryInv, ItemInv
<1>6. CASE CategoryCached
  BY <1>2, <1>4, <1>5, <1>6 DEF CategoryCached
<1>7. CASE CategoryList
  <2>1. part \notin marked
    BY <1>0, <1>7 DEF CategoryList, Cached
  <2>2. results' \in Seq(Entry) /\ marked' = marked \cup {part} /\ marked' \in SUBSET Part
    BY <1>0, <1>4, <1>7 DEF CategoryList
  <2>3. GoodOnce(results', marked')
    <3>1. /\ GoodOnce(Append(results, <<part, "good">>), marked \cup {part})
          /\ GoodOnce(results, marked \cup {part})
      BY <1>0, <1>2, <1>4, <2>1, OneMore
    <3> QED BY <1>7, <2>2, <3>1 DEF CategoryList
  <2> QED BY <1>5, <1>7, <2>2, <2>3 DEF CategoryList
<1>8. CASE CategoryLoose
  BY <1>0, <1>2, <1>4, <1>5, <1>8, OneMore DEF CategoryLoose
<1> QED BY <1>6, <1>7, <1>8

\* Steps on the items of a list.
LEMMA ItemSteps ==
  ASSUME TextInv, ItemCached \/ ItemFails \/ \E objects \in {1, 2} : ItemMade(objects)
  PROVE  TextInv'
<1> USE TextAssumption
<1>0. /\ TextTypes /\ ItemInv /\ running /\ running' /\ shape = "items" /\ shape' = shape
      /\ part \in Part /\ part' = part + 1 /\ returned' = returned /\ ~Ended'
      /\ UNCHANGED <<fresh, paused, anyCut>>
  BY DEF ItemCached, ItemFails, ItemMade, Move, TextInv, TextTypes, Ended, NoAnswer
<1>1. ~paused
  BY <1>0 DEF TextTypes, Part
<1>2. <<part, "good">> \in Entry /\ <<part, "failed">> \in Entry /\ results \in Seq(Entry)
      /\ marked \in SUBSET Part /\ snap \in Snapshot
  BY <1>0 DEF Entry, TextTypes
<1>3. ASSUME results' \in Seq(Entry), marked' \in SUBSET Part,
             \A p : Entries(results, p) # {} => Entries(results', p) # {},
             Entries(results', part) # {},
             snap' = snap \/ SaveSnap(<<>>, marked')
      PROVE  TextInv'
  <2>1. snap' \in Snapshot
    <3>1. <<>> \in Seq(Entry)
      OBVIOUS
    <3> QED BY <1>2, <1>3, <3>1, SnapshotTaken
  <2>2. TextTypes'
    BY <1>0, <1>1, <1>3, <2>1 DEF TextTypes, Part
  <2>3. \A p \in Part : p < part' => Entries(results', p) # {}
    BY <1>0, <1>3 DEF ItemInv, Part
  <2> QED BY <1>0, <2>2, <2>3 DEF TextInv, DocumentInv, CategoryInv, ItemInv
<1>4. CASE ItemCached
  BY <1>2, <1>3, <1>4, Appended DEF ItemCached
<1>5. CASE ItemFails
  BY <1>2, <1>3, <1>5, Appended DEF ItemFails
<1>6. ASSUME NEW objects \in {1, 2}, ItemMade(objects) PROVE TextInv'
  <2> DEFINE more == [k \in 1..objects |-> <<part, "good">>]
  <2>1. more \in Seq(Entry) /\ Len(more) = objects /\ more[1] = <<part, "good">>
    BY <1>2
  <2> HIDE DEF more
  <2>2. /\ results \o more \in Seq(Entry)
        /\ Len(results \o more) = Len(results) + objects
        /\ \A k \in 1..Len(results) : (results \o more)[k] = results[k]
        /\ (results \o more)[Len(results) + 1] = <<part, "good">>
    BY <1>2, <2>1
  <2>3. results' = results \o more
    BY <1>6 DEF ItemMade, more
  <2>4. /\ \A p : Entries(results, p) # {} => Entries(results', p) # {}
        /\ Entries(results', part) # {}
    <3>1. ASSUME NEW p, NEW k \in Entries(results, p) PROVE k \in Entries(results', p)
      BY <1>2, <2>1, <2>2, <2>3, <3>1 DEF Entries
    <3>2. Len(results) + 1 \in 1..Len(results')
      BY <1>2, <2>2, <2>3
    <3>3. Len(results) + 1 \in Entries(results', part)
      BY <2>2, <2>3, <3>2 DEF Entries
    <3> QED BY <3>1, <3>3
  <2>5. marked' \in SUBSET Part /\ SaveSnap(<<>>, marked')
    BY <1>0, <1>2, <1>6 DEF ItemMade
  <2> QED BY <1>3, <2>2, <2>3, <2>4, <2>5
<1> QED BY <1>4, <1>5, <1>6

LEMMA TextStep == TextInv /\ [TextNext]_textVars => TextInv'
<1> SUFFICES ASSUME TextInv, [TextNext]_textVars PROVE TextInv'
  OBVIOUS
<1> USE TextAssumption
<1>0. TextTypes
  BY DEF TextInv
<1>1. CASE UNCHANGED textVars
  <2>1. /\ TextTypes' = TextTypes /\ DocumentInv' = DocumentInv
        /\ CategoryInv' = CategoryInv /\ ItemInv' = ItemInv
    BY <1>1 DEF textVars, TextTypes, DocumentInv, CategoryInv, ItemInv, Ended
  <2> QED BY <2>1 DEF TextInv
<1>2. CASE StartText
  <2>1. /\ results' \in Seq(Entry) /\ Len(<<>>) = 0 /\ <<>> \in Seq(Entry)
        /\ snap' = snap /\ shape' = shape /\ part' = 1 /\ paused' = FALSE /\ anyCut' = FALSE
        /\ ~Ended' /\ running' = TRUE /\ returned' = NoAnswer /\ marked' = snap.marked
        /\ fresh' = (snap = NoSnap) /\ fresh' \in BOOLEAN
    BY <1>0, <1>2, Nothing DEF StartText, TextTypes, Ended, Snapshot
  <2>2. TextTypes'
    <3>1. snap.marked \subseteq Part
      BY <1>0 DEF TextTypes, Snapshot
    <3>2. part' \in 1..(Pieces + 1) /\ part' \in Nat
      BY <2>1
    <3>3. snap' \in Snapshot /\ returned' \in Answer
      BY <1>0, <2>1, Nothing DEF TextTypes
    <3>4. {running', paused', anyCut', fresh'} \subseteq BOOLEAN
      BY <2>1
    <3> QED BY <2>1, <3>1, <3>2, <3>3, <3>4 DEF TextTypes
  <2>3. DocumentInv'
    <3> SUFFICES ASSUME shape = "document" PROVE DocumentInv'
      BY <2>1 DEF DocumentInv
    <3>1. results' = <<>>
      BY <1>2 DEF StartText
    <3>2. fresh' => snap' = NoSnap
      BY <2>1
    <3>3. \A k \in 1..Len(<<>>) : FALSE
      BY <2>1
    <3> QED BY <2>1, <3>1, <3>2, <3>3, Nothing DEF DocumentInv, Numbered, NoCut
  <2>4. CategoryInv'
    BY <1>2, <2>1 DEF StartText, TextInv, CategoryInv
  <2>5. ItemInv'
    BY <2>1 DEF ItemInv, Part
  <2> QED BY <2>2, <2>3, <2>4, <2>5 DEF TextInv
<1>3. CASE TextStops
  <2>1. TextTypes'
    <3>1. <<>> \in Seq(Entry)
      OBVIOUS
    <3> QED BY <1>0, <1>3, <3>1 DEF TextStops, TextTypes
  <2>2. ~running' /\ ~Ended'
    BY <1>0, <1>3, Nothing DEF TextStops, TextTypes, Ended
  <2>3. GoodOnce(<<>>, {})
    BY DEF GoodOnce, Goods, Entries
  <2> QED BY <1>3, <2>1, <2>2, <2>3 DEF TextStops, TextInv, DocumentInv, CategoryInv, ItemInv
<1>4. ASSUME NEW stop \in {"end_turn", "max_tokens", "single"}, ReturnText(stop), running,
             part = Pieces + 1, snap' = snap \/ snap' = NoSnap,
             stop = "single" \/ ~anyCut \/ stop = "max_tokens"
      PROVE  TextInv'
  <2>1. /\ running' = FALSE /\ returned' = [list |-> results, stop |-> stop]
        /\ UNCHANGED <<shape, part, results, marked, anyCut, fresh, paused>>
    BY <1>4 DEF ReturnText
  <2>2. snap' \in Snapshot
    BY <1>0, <1>4, Nothing DEF TextTypes
  <2>3. TextTypes'
    <3>1. returned' \in Answer
      BY <1>0, <2>1 DEF TextTypes, Answer
    <3> QED BY <1>0, <2>1, <2>2, <3>1 DEF TextTypes
  <2>4. returned'.list = results /\ returned'.stop = stop
    BY <2>1
  <2>5. DocumentInv'
    BY <1>0, <1>4, <2>1, <2>4 DEF TextInv, DocumentInv, Ended, TextTypes, Numbered, NoCut
  <2>6. CategoryInv'
    <3>1. GoodOnce(<<>>, {})
      BY DEF GoodOnce, Goods, Entries
    <3> QED BY <1>4, <2>1, <3>1, Nothing DEF TextInv, CategoryInv
  <2>7. ItemInv'
    BY <1>4, <2>1, <2>4 DEF TextInv, ItemInv, Part
  <2> QED BY <2>3, <2>5, <2>6, <2>7 DEF TextInv
<1>5. CASE Finish \/ SingleCall
  BY <1>4, <1>5 DEF Finish, SingleCall
<1> QED BY <1>1, <1>2, <1>3, <1>5, SectionSteps, CategorySteps, ItemSteps DEF TextNext

\* Over any number of parts and attempts, wherever one was stopped or paused
\* and continued from its snapshot, and whether a snapshot was written or not,
\* an answer has each section once and in order, no category twice, an entry
\* for each item, and a document made in one attempt owns up to its cuts.
THEOREM AnswersHonest == TextSpec => []AnswerHonest
<1>1. TextInv => AnswerHonest
  <2> SUFFICES ASSUME TextInv PROVE AnswerHonest
    OBVIOUS
  <2>1. (Ended /\ shape = "document" /\ ~paused) =>
           [k \in 1..Len(returned.list) |-> returned.list[k][1]] = [k \in Part |-> k]
    <3> SUFFICES ASSUME Ended, shape = "document", ~paused
                 PROVE  [k \in 1..Len(returned.list) |-> returned.list[k][1]] = [k \in Part |-> k]
      OBVIOUS
    <3>1. Len(returned.list) = Pieces /\ Numbered(returned.list)
      BY DEF TextInv, DocumentInv
    <3> QED BY <3>1 DEF Numbered, Part
  <2>2. shape = "categories" =>
          \A p \in Part : Cardinality(Goods(results, p)) <= (IF p \in marked THEN 1 ELSE 0)
    <3> SUFFICES ASSUME shape = "categories", NEW p \in Part
                 PROVE  Cardinality(Goods(results, p)) <= (IF p \in marked THEN 1 ELSE 0)
      OBVIOUS
    <3>1. \A j, k \in Goods(results, p) : j = k /\ p \in marked
      BY DEF TextInv, CategoryInv, GoodOnce
    <3>2. CASE Goods(results, p) = {}
      BY <3>2, FS_EmptySet
    <3>3. CASE Goods(results, p) # {}
      <4>1. PICK j : Goods(results, p) = {j} /\ p \in marked
        BY <3>1, <3>3
      <4>2. Cardinality(Goods(results, p)) = 1
        BY <4>1, FS_Singleton
      <4> QED BY <4>1, <4>2
    <3> QED BY <3>2, <3>3
  <2>3. (Ended /\ shape = "items") => \A p \in Part : Entries(returned.list, p) # {}
    BY DEF TextInv, ItemInv
  <2>4. CutsReported
    BY DEF TextInv, DocumentInv, CutsReported, NoCut
  <2> QED BY <2>1, <2>2, <2>3, <2>4 DEF AnswerHonest, EachOnce, Goods
<1> QED BY <1>1, TextStart, TextStep, PTL DEF TextSpec
-----------------------------------------------------------------------------
(* Pages that are generated in batches *)

\* The pages of a set in order are these pages, each once.
LEMMA OrderExact ==
  ASSUME NEW set \in SUBSET Page
  PROVE  /\ InOrder(set) \in Seq(set) /\ Len(InOrder(set)) = Cardinality(set)
         /\ Cardinality(set) \in Nat
         /\ \A p \in set : \E i \in 1..Len(InOrder(set)) : InOrder(set)[i] = p
         /\ \A i, j \in 1..Len(InOrder(set)) :
              InOrder(set)[i] = InOrder(set)[j] => i = j
<1> DEFINE n == Cardinality(set)
           upTo(p) == {q \in set : q <= p}
           rank == [p \in set |-> Cardinality(upTo(p))]
<1>1. set \subseteq Nat /\ IsFiniteSet(set) /\ n \in Nat
  <2>1. IsFiniteSet(Page)
    BY BatchAssumption, FS_Interval DEF Page
  <2>2. IsFiniteSet(set)
    BY <2>1, FS_Subset
  <2>3. set \subseteq Nat
    BY BatchAssumption DEF Page
  <2> QED BY <2>2, <2>3, FS_CardinalityType
<1>2. \A p \in set : upTo(p) \subseteq set /\ p \in upTo(p) /\ IsFiniteSet(upTo(p))
                     /\ Cardinality(upTo(p)) \in 1..n
  <2> SUFFICES ASSUME NEW p \in set
               PROVE  upTo(p) \subseteq set /\ p \in upTo(p) /\ IsFiniteSet(upTo(p))
                      /\ Cardinality(upTo(p)) \in 1..n
    OBVIOUS
  <2>1. upTo(p) \subseteq set /\ p \in upTo(p)
    BY <1>1
  <2> HIDE DEF upTo
  <2>2. IsFiniteSet(upTo(p)) /\ Cardinality(upTo(p)) <= n /\ Cardinality(upTo(p)) \in Nat
    BY <1>1, <2>1, FS_Subset, FS_CardinalityType
  <2>3. Cardinality(upTo(p)) # 0
    BY <2>1, <2>2, FS_EmptySet
  <2> QED BY <1>1, <2>1, <2>2, <2>3
<1>3. \A p, q \in set : p < q => Cardinality(upTo(p)) < Cardinality(upTo(q))
  <2> SUFFICES ASSUME NEW p \in set, NEW q \in set, p < q
               PROVE  Cardinality(upTo(p)) < Cardinality(upTo(q))
    OBVIOUS
  <2>1. /\ \A x \in upTo(p) : x \in upTo(q)
        /\ q \in upTo(q) /\ q \notin upTo(p)
    BY <1>1
  <2>2. IsFiniteSet(upTo(q)) /\ Cardinality(upTo(p)) \in Nat /\ Cardinality(upTo(q)) \in Nat
    BY <1>1, <1>2
  <2>3. upTo(p) \in SUBSET upTo(q) /\ upTo(p) # upTo(q)
    BY <2>1
  <2> HIDE DEF upTo
  <2> QED BY <2>2, <2>3, FS_Subset
<1> HIDE DEF upTo
<1>4. rank \in Injection(set, 1..n)
  <2>1. rank \in [set -> 1..n]
    BY <1>2
  <2>2. \A p, q \in set : rank[p] = rank[q] => p = q
    BY <1>1, <1>2, <1>3
  <2> QED BY <2>1, <2>2 DEF Injection, IsInjective
<1>5. rank \in Surjection(set, 1..n)
  BY <1>1, <1>4, FS_Interval, FS_Injection
<1>6. \A i \in 1..n : \E p \in set : Cardinality(upTo(p)) = i
  BY <1>5 DEF Surjection
<1>7. InOrder(set) = [i \in 1..n |-> CHOOSE p \in set : Cardinality(upTo(p)) = i]
  BY DEF InOrder, upTo
<1>8. \A i \in 1..n : InOrder(set)[i] \in set /\ Cardinality(upTo(InOrder(set)[i])) = i
  BY <1>6, <1>7
<1>9. InOrder(set) \in [1..n -> set]
  BY <1>7, <1>8
<1>10. InOrder(set) \in Seq(set) /\ Len(InOrder(set)) = n
  BY <1>1, <1>9
<1>11. ASSUME NEW p \in set
       PROVE  InOrder(set)[Cardinality(upTo(p))] = p
  <2> DEFINE q == InOrder(set)[Cardinality(upTo(p))]
  <2>1. q \in set /\ Cardinality(upTo(q)) = Cardinality(upTo(p))
    BY <1>2, <1>8
  <2> HIDE DEF q
  <2>2. ~(p < q) /\ ~(q < p)
    BY <1>1, <1>2, <1>3, <2>1
  <2>3. q = p
    BY <1>1, <2>1, <2>2
  <2> QED BY <2>3 DEF q
<1> QED BY <1>1, <1>2, <1>8, <1>10, <1>11

\* Division and multiplication by the size of a batch.
LEMMA BatchOf ==
  ASSUME NEW k \in Nat
  PROVE  /\ k \div MaxBatch \in Nat
         /\ (k \div MaxBatch) * MaxBatch <= k
         /\ k < (k \div MaxBatch) * MaxBatch + MaxBatch
BY BatchAssumption

LEMMA BatchesApart ==
  ASSUME NEW a \in Nat, NEW b \in Nat, a < b
  PROVE  a * MaxBatch + MaxBatch <= b * MaxBatch
BY BatchAssumption
-----------------------------------------------------------------------------
LEMMA PatternKnown ==
  ASSUME home \subseteq Page
  PROVE  /\ PatternPages \in Seq(Page) /\ RecipePages \in Seq(Page)
         /\ RecipeBatches \in Nat
         /\ Page \ ToSet(PatternPages) \in SUBSET Page
<1>1. Priority \in SUBSET Page /\ Picks \ Priority \in SUBSET Page
  BY DEF Priority, Picks
<1>2. PatternOrder \in Seq(Page)
  BY <1>1, OrderExact DEF PatternOrder
<1>3. PatternPages \in Seq(Page)
  BY <1>2, BatchAssumption DEF PatternPages
<1>4. RecipePages \in Seq(Page)
  BY OrderExact DEF RecipePages
<1>5. RecipeBatches \in Nat
  BY <1>4, BatchOf, BatchAssumption DEF RecipeBatches
<1> QED BY <1>3, <1>4, <1>5

\* The pages of a recipe batch, by their places among the recipe pages.
LEMMA RecipeBatch ==
  ASSUME home \subseteq Page, NEW b \in Batches \ {0}
  PROVE  /\ b - 1 \in Nat /\ (b - 1) * MaxBatch \in Nat /\ b * MaxBatch \in Nat
         /\ PagesOf(b) \in Seq(Page)
         /\ \A p : p \in ToSet(PagesOf(b)) <=>
              \E i \in 1..Len(RecipePages) :
                /\ RecipePages[i] = p
                /\ (b - 1) * MaxBatch < i /\ i <= b * MaxBatch
<1> DEFINE lo == (b - 1) * MaxBatch
           up == b * MaxBatch
           hi == IF up < Len(RecipePages) THEN up ELSE Len(RecipePages)
           slice == SubSeq(RecipePages, lo + 1, hi)
<1>1. b \in Nat \ {0} /\ b - 1 \in Nat /\ lo \in Nat /\ up \in Nat
  BY PatternKnown, BatchAssumption DEF Batches
<1>2. RecipePages \in Seq(Page) /\ Len(RecipePages) \in Nat
  BY PatternKnown
<1>3. PagesOf(b) = slice
  BY <1>1 DEF PagesOf
<1> HIDE DEF lo, up
<1>4. /\ slice \in Seq(Page)
      /\ DOMAIN slice = 1..(hi - lo)
      /\ \A j \in 1..(hi - lo) : slice[j] = RecipePages[lo + j]
  BY <1>1, <1>2
<1>5. hi \in Nat /\ \A i \in Nat : i <= hi <=> i <= Len(RecipePages) /\ i <= up
  BY <1>1, <1>2
<1> HIDE DEF slice, hi
<1>6. ASSUME NEW p
      PROVE  p \in ToSet(slice) <=>
               \E i \in 1..Len(RecipePages) : RecipePages[i] = p /\ lo < i /\ i <= up
  <2>1. ASSUME p \in ToSet(slice)
        PROVE  \E i \in 1..Len(RecipePages) : RecipePages[i] = p /\ lo < i /\ i <= up
    <3>1. PICK j \in 1..(hi - lo) : slice[j] = p
      BY <1>4, <2>1 DEF ToSet
    <3>2. lo + j \in Nat /\ lo < lo + j /\ lo + j <= hi /\ 1 <= lo + j
      BY <1>1, <1>5, <3>1
    <3> QED BY <1>2, <1>4, <1>5, <3>1, <3>2
  <2>2. ASSUME NEW i \in 1..Len(RecipePages), RecipePages[i] = p, lo < i, i <= up
        PROVE  p \in ToSet(slice)
    <3>1. i - lo \in 1..(hi - lo) /\ lo + (i - lo) = i
      BY <1>1, <1>2, <1>5, <2>2
    <3> QED BY <1>4, <2>2, <3>1 DEF ToSet
  <2> QED BY <2>1, <2>2
<1> QED BY <1>1, <1>3, <1>4, <1>6 DEF lo, up

\* Each page is in exactly one batch.
LEMMA PagesGrouped ==
  ASSUME home \subseteq Page
  PROVE  /\ \A p \in Page : \E b \in Batches : Contains(PagesOf(b), p)
         /\ \A b, c \in Batches : b # c =>
              ToSet(PagesOf(b)) \cap ToSet(PagesOf(c)) = {}
<1> DEFINE rest == Page \ ToSet(PatternPages)
<1>1. /\ PatternPages \in Seq(Page) /\ RecipePages \in Seq(Page)
      /\ RecipeBatches \in Nat /\ Len(RecipePages) \in Nat /\ rest \in SUBSET Page
  BY PatternKnown
<1> HIDE DEF rest
<1>2. /\ RecipePages \in Seq(rest)
      /\ \A p \in rest : \E i \in 1..Len(RecipePages) : RecipePages[i] = p
      /\ \A i, j \in 1..Len(RecipePages) : RecipePages[i] = RecipePages[j] => i = j
  BY <1>1, OrderExact DEF RecipePages, rest
<1>3. PagesOf(0) = PatternPages
  BY DEF PagesOf
<1>4. \A b \in Batches : PagesOf(b) \in Seq(Page)
  BY <1>1, <1>3, RecipeBatch
<1>5. \A b \in Batches : \A p : p \in ToSet(PagesOf(b)) => Contains(PagesOf(b), p)
  BY <1>4 DEF ToSet, Contains
<1>6. ASSUME NEW p \in Page
      PROVE  \E b \in Batches : p \in ToSet(PagesOf(b))
  <2>1. CASE p \in ToSet(PatternPages)
    BY <1>1, <1>3, <2>1 DEF Batches
  <2>2. CASE p \notin ToSet(PatternPages)
    <3>1. PICK i \in 1..Len(RecipePages) : RecipePages[i] = p
      BY <1>2, <2>2 DEF rest
    <3> DEFINE q == (i - 1) \div MaxBatch
               low == q * MaxBatch
    <3>2. i - 1 \in Nat /\ MaxBatch \in Nat \ {0}
      BY BatchAssumption
    <3>3. q \in Nat /\ low \in Nat /\ low <= i - 1 /\ i - 1 < low + MaxBatch
      BY <3>2, BatchOf
    <3>4. (q + 1) * MaxBatch = low + MaxBatch
      BY <3>2, <3>3
    <3> HIDE DEF low, q
    <3>5. q + 1 <= RecipeBatches
      <4> DEFINE total == Len(RecipePages) + MaxBatch - 1
      <4>1. total \in Nat
        BY <1>1, <3>2
      <4>2. total < RecipeBatches * MaxBatch + MaxBatch
        BY <4>1, BatchOf DEF RecipeBatches
      <4>3. RecipeBatches * MaxBatch \in Nat
        BY <1>1, <3>2
      <4>4. low < RecipeBatches * MaxBatch
        BY <1>1, <3>1, <3>2, <3>3, <4>2, <4>3
      <4>5. CASE RecipeBatches < q
        BY <1>1, <3>2, <3>3, <4>3, <4>4, <4>5, BatchesApart DEF low
      <4>6. CASE RecipeBatches = q
        BY <3>3, <4>4, <4>6 DEF low
      <4> QED BY <1>1, <3>3, <4>5, <4>6
    <3>6. q + 1 \in Batches \ {0} /\ (q + 1) - 1 = q
      BY <1>1, <3>3, <3>5 DEF Batches
    <3>7. low < i /\ i <= low + MaxBatch
      BY <3>1, <3>2, <3>3
    <3>8. p \in ToSet(PagesOf(q + 1))
      BY <3>1, <3>4, <3>6, <3>7, RecipeBatch DEF low
    <3> QED BY <3>6, <3>8
  <2> QED BY <2>1, <2>2
<1>7. ASSUME NEW b \in Batches \ {0}, NEW p \in ToSet(PagesOf(b))
      PROVE  p \in rest
  <2>1. PICK i \in 1..Len(RecipePages) : RecipePages[i] = p
    BY <1>7, RecipeBatch
  <2> QED BY <1>2, <2>1
<1>8. ASSUME NEW b \in Batches \ {0}, NEW c \in Batches \ {0}, b < c,
             NEW p, p \in ToSet(PagesOf(b)), p \in ToSet(PagesOf(c))
      PROVE  FALSE
  <2>1. PICK i \in 1..Len(RecipePages) : RecipePages[i] = p /\ i <= b * MaxBatch
    BY <1>8, RecipeBatch
  <2>2. PICK j \in 1..Len(RecipePages) : RecipePages[j] = p /\ (c - 1) * MaxBatch < j
    BY <1>8, RecipeBatch
  <2>3. i = j
    BY <1>2, <2>1, <2>2
  <2>4. b \in Nat /\ c - 1 \in Nat /\ b <= c - 1 /\ b * MaxBatch \in Nat
        /\ (c - 1) * MaxBatch \in Nat
    BY <1>1, <1>8, RecipeBatch DEF Batches
  <2>5. b * MaxBatch <= (c - 1) * MaxBatch
    BY <2>4, BatchesApart, BatchAssumption
  <2> QED BY <2>1, <2>2, <2>3, <2>4, <2>5
<1>9. ASSUME NEW b \in Batches, NEW c \in Batches, b # c
      PROVE  ToSet(PagesOf(b)) \cap ToSet(PagesOf(c)) = {}
  <2>1. CASE b = 0 \/ c = 0
    BY <1>3, <1>7, <1>9, <2>1 DEF rest
  <2>2. CASE b # 0 /\ c # 0
    <3>1. b < c \/ c < b
      BY <1>1, <1>9 DEF Batches
    <3> QED BY <1>8, <2>2, <3>1
  <2> QED BY <2>1, <2>2
<1> QED BY <1>5, <1>6, <1>9
-----------------------------------------------------------------------------
\* What is shown of a batch was saved as OK; so was all that the cache holds.
BatchInv ==
  /\ home \subseteq Page
  /\ savedBatches \in Seq(Batches \X {"OK", "FAIL"})
  /\ batchCache \subseteq SavedOk
  /\ output \in Seq({"ok", "failed"})
  /\ batchStage = "recipes" => Len(output) \in 1..(RecipeBatches + 1)
  /\ batchStage = "completed" => Len(output) = RecipeBatches + 1
  /\ \A i \in 1..Len(output) : output[i] = "ok" => i - 1 \in SavedOk

\* The grouping does not move while the batches are made.
SameGrouping == layout' = layout /\ home' = home

LEMMA GroupingStands ==
  ASSUME SameGrouping
  PROVE  RecipeBatches' = RecipeBatches /\ Batches' = Batches
BY DEF SameGrouping, RecipeBatches, Batches, RecipePages, PatternPages, PatternOrder, Picks,
       Priority, InOrder, Page

LEMMA BatchStart == BatchInit => BatchInv
<1> SUFFICES ASSUME BatchInit PROVE BatchInv
  OBVIOUS
<1>1. savedBatches = <<>> /\ output = <<>> /\ batchCache = {} /\ batchStage = "idle"
  BY DEF BatchInit
<1>2. home \subseteq Page
  BY DEF BatchInit
<1>3. <<>> \in Seq(Batches \X {"OK", "FAIL"}) /\ <<>> \in Seq({"ok", "failed"})
  OBVIOUS
<1> QED BY <1>1, <1>2, <1>3 DEF BatchInv

\* A version more: what was saved stays saved.
LEMMA OneMoreVersion ==
  ASSUME SameGrouping, NEW v \in Batches \X {"OK", "FAIL"},
         savedBatches \in Seq(Batches \X {"OK", "FAIL"}),
         savedBatches' = Append(savedBatches, v)
  PROVE  /\ savedBatches' \in Seq(Batches' \X {"OK", "FAIL"})
         /\ SavedOk \subseteq SavedOk'
         /\ \A b \in Batches : v = <<b, "OK">> => b \in SavedOk'
<1>1. Batches' = Batches
  BY GroupingStands
<1>2. /\ DOMAIN savedBatches' = 1..(Len(savedBatches) + 1)
      /\ savedBatches'[Len(savedBatches) + 1] = v
      /\ \A i \in DOMAIN savedBatches : /\ i \in DOMAIN savedBatches'
                                        /\ savedBatches'[i] = savedBatches[i]
      /\ Len(savedBatches) + 1 \in DOMAIN savedBatches'
  OBVIOUS
<1>3. savedBatches' \in Seq(Batches \X {"OK", "FAIL"})
  OBVIOUS
<1> QED BY <1>1, <1>2, <1>3 DEF SavedOk

LEMMA BatchStep == BatchInv /\ [BatchNext]_batchVars => BatchInv'
<1> SUFFICES ASSUME BatchInv, [BatchNext]_batchVars PROVE BatchInv'
  OBVIOUS
<1>0. /\ RecipeBatches \in Nat /\ Batches = 0..RecipeBatches
      /\ savedBatches \in Seq(Batches \X {"OK", "FAIL"})
      /\ output \in Seq({"ok", "failed"}) /\ home \subseteq Page
  BY PatternKnown DEF BatchInv, Batches
<1>1. SameGrouping => RecipeBatches' = RecipeBatches /\ Batches' = Batches /\ home' \subseteq Page'
  BY <1>0, GroupingStands DEF SameGrouping, Page
<1>2. SameGrouping /\ savedBatches' = savedBatches
        => /\ SavedOk' = SavedOk
           /\ savedBatches' \in Seq(Batches' \X {"OK", "FAIL"})
  BY <1>0, <1>1 DEF SavedOk
<1>3. <<>> \in Seq({"ok", "failed"}) /\ Len(<<>>) = 0
  OBVIOUS
\* Steps that leave nothing to show and save nothing.
<1>4. ASSUME SameGrouping, savedBatches' = savedBatches, output' = <<>>,
             batchStage' \in {"idle", "pattern"}, batchCache' \subseteq SavedOk
      PROVE  BatchInv'
  BY <1>1, <1>2, <1>3, <1>4 DEF BatchInv
<1>5. ASSUME NEW reread \in BOOLEAN, BeginBatches(reread) PROVE BatchInv'
  <2>1. batchCache' \subseteq SavedOk
    BY <1>5 DEF BeginBatches, Load
  <2> QED BY <1>4, <1>5, <2>1 DEF BeginBatches, SameGrouping
<1>6. CASE Pattern
  <2>1. SameGrouping /\ batchCache' = batchCache /\ batchStage' = "recipes" /\ output' = <<"ok">>
    BY <1>6 DEF Pattern, Keep, SameGrouping
  <2>2. /\ savedBatches' \in Seq(Batches' \X {"OK", "FAIL"})
        /\ SavedOk \subseteq SavedOk' /\ 0 \in SavedOk'
    <3>1. CASE 0 \in batchCache
      BY <1>2, <1>6, <2>1, <3>1 DEF Pattern, BatchInv
    <3>2. CASE 0 \notin batchCache
      <4>1. <<0, "OK">> \in Batches \X {"OK", "FAIL"} /\ 0 \in Batches
        BY <1>0
      <4>2. savedBatches' = Append(savedBatches, <<0, "OK">>)
        BY <1>6, <3>2 DEF Pattern
      <4> QED BY <1>0, <2>1, <4>1, <4>2, OneMoreVersion
    <3> QED BY <3>1, <3>2
  <2>3. /\ output' \in Seq({"ok", "failed"}) /\ Len(output') = 1
    BY <2>1
  <2>4. Len(output') \in 1..(RecipeBatches' + 1)
    BY <1>0, <1>1, <2>1, <2>3
  <2>5. \A i \in 1..Len(output') : i - 1 \in SavedOk'
    BY <2>2, <2>3
  <2> QED BY <1>1, <2>1, <2>2, <2>3, <2>4, <2>5 DEF BatchInv
<1>7. CASE PatternFails
  BY <1>4, <1>7 DEF PatternFails, Keep, SameGrouping, BatchInv
<1>8. ASSUME NEW good \in BOOLEAN, Recipe(good) PROVE BatchInv'
  <2> DEFINE b == Len(output)
             shown == IF good THEN "ok" ELSE "failed"
             noted == IF good THEN "OK" ELSE "FAIL"
  <2>1. /\ SameGrouping /\ batchCache' = batchCache
        /\ batchStage = "recipes" /\ batchStage' = "recipes"
        /\ b <= RecipeBatches /\ (b \in batchCache => good)
        /\ output' = Append(output, shown)
        /\ savedBatches' = IF b \in batchCache THEN savedBatches
                           ELSE Append(savedBatches, <<b, noted>>)
    BY <1>8 DEF Recipe, Keep, SameGrouping
  <2>2. b \in Batches /\ b \in Nat /\ b >= 1
    BY <1>0, <2>1 DEF BatchInv
  <2>3. shown \in {"ok", "failed"} /\ noted \in {"OK", "FAIL"}
        /\ (good <=> shown = "ok") /\ (good => noted = "OK")
    OBVIOUS
  <2> HIDE DEF shown, noted
  <2>4. /\ savedBatches' \in Seq(Batches' \X {"OK", "FAIL"})
        /\ SavedOk \subseteq SavedOk' /\ (good => b \in SavedOk')
    <3>1. CASE b \in batchCache
      BY <1>2, <2>1, <3>1 DEF BatchInv
    <3>2. CASE b \notin batchCache
      <4>1. <<b, noted>> \in Batches \X {"OK", "FAIL"}
        BY <2>2, <2>3
      <4>2. savedBatches' = Append(savedBatches, <<b, noted>>)
        BY <2>1, <3>2
      <4> QED BY <1>0, <2>1, <2>2, <2>3, <4>1, <4>2, OneMoreVersion
    <3> QED BY <3>1, <3>2
  <2>5. /\ output' \in Seq({"ok", "failed"}) /\ Len(output') = b + 1
        /\ output'[b + 1] = shown
        /\ \A i \in 1..b : output'[i] = output[i]
    BY <1>0, <2>1, <2>3
  <2>6. Len(output') \in 1..(RecipeBatches' + 1)
    BY <1>0, <1>1, <2>1, <2>2, <2>5
  <2>7. ASSUME NEW i \in 1..Len(output'), output'[i] = "ok"
        PROVE  i - 1 \in SavedOk'
    <3>1. CASE i = b + 1
      BY <2>2, <2>3, <2>4, <2>5, <2>7, <3>1
    <3>2. CASE i # b + 1
      <4>1. i \in 1..b
        BY <2>2, <2>5, <3>2
      <4> QED BY <2>4, <2>5, <2>7, <4>1 DEF BatchInv
    <3> QED BY <3>1, <3>2
  <2> QED BY <1>1, <2>1, <2>4, <2>5, <2>6, <2>7 DEF BatchInv
<1>9. CASE Merge
  <2>1. /\ SameGrouping /\ batchCache' = batchCache /\ savedBatches' = savedBatches
        /\ output' = output /\ batchStage' = "completed"
        /\ Len(output) = RecipeBatches + 1
    BY <1>0, <1>9 DEF Merge, Keep, SameGrouping, BatchInv
  <2> QED BY <1>1, <1>2, <2>1 DEF BatchInv
<1>10. CASE Restart
  BY <1>4, <1>10 DEF Restart, Keep, SameGrouping, BatchInv
<1>11. CASE UNCHANGED batchVars
  <2>1. /\ SameGrouping /\ batchCache' = batchCache /\ savedBatches' = savedBatches
        /\ output' = output /\ batchStage' = batchStage
    BY <1>11 DEF batchVars, SameGrouping
  <2> QED BY <1>1, <1>2, <2>1 DEF BatchInv
<1> QED BY <1>5, <1>6, <1>7, <1>8, <1>9, <1>10, <1>11 DEF BatchNext

\* Whatever the layouts and the limits, each page is in exactly one batch, and
\* what a completed node shows of a batch was saved as OK, now or by an earlier
\* attempt (_group_pages_for_batching, _prepare_batch_context, _load_batch_cache).
THEOREM EachPageOnce == BatchSpec => []PagesCovered
<1>1. BatchInv => PagesCovered
  <2> SUFFICES ASSUME BatchInv, batchStage = "completed" PROVE PagesCovered
    BY DEF PagesCovered
  <2>1. RecipeBatches \in Nat
    BY PatternKnown DEF BatchInv
  <2>2. ASSUME NEW b \in Batches, output[b + 1] = "ok"
        PROVE  b \in SavedOk
    <3>1. b + 1 \in 1..Len(output) /\ (b + 1) - 1 = b
      BY <2>1 DEF Batches, BatchInv
    <3> QED BY <2>2, <3>1 DEF BatchInv
  <2> QED BY <2>2, PagesGrouped DEF BatchInv, PagesCovered
<1> QED BY <1>1, BatchStart, BatchStep, PTL DEF BatchSpec

(* The pages: the invariant *)

PartName == FirstLibrary \cup (UNION {Needs[s] : s \in Screen})
TaskState == {"READY", "IN_PROGRESS", "COMPLETED"}
PageTask == [state : {"NOT_STARTED", "IN_PROGRESS", "COMPLETED", "SKIPPED"},
             pages : SUBSET SlugPage, reads : SUBSET SlugPage,
             built : SUBSET SlugPage, told : BOOLEAN, edge : BOOLEAN]
AssemblyTask ==
  [state : TaskState,
   at : {"start", "render", "register", "save", "skip", "insert", "edge", "describe",
         "complete"},
   pages : SUBSET SlugPage, missing : SUBSET PartName, round : Nat,
   todo : SUBSET SUBSET SlugPage]

PipelineTypes ==
  /\ screenList \in Seq(Screen)
  /\ recipeRows \in [SlugPage -> Screen \cup {NoScreen}]
  /\ componentRows \subseteq PartName
  /\ recipeTask \in [state : TaskState, todo : Seq(Screen)]
  /\ assemblyTask \in AssemblyTask
  /\ frontendTask \in PageTask /\ pageTasks \in Seq(PageTask)
  /\ infraDone \in BOOLEAN /\ splitCut \in BOOLEAN /\ listEdits \in Nat
  /\ duePages \subseteq MadePages

\* The recipes stand while pages are assembled from them.
Settled ==
  /\ assemblyTask.state = "IN_PROGRESS" => recipeTask.state = "COMPLETED"
  /\ \A place \in {"save", "skip", "insert", "edge", "describe"} :
       Assembling(place) => assemblyTask.pages = MadePages
  /\ Assembling("skip") \/ GroupsMade =>
       \A g \in assemblyTask.todo : g \subseteq MadePages

\* The frontend TASK builds all pages there are, after a first assembly.
WholeFrontend ==
  /\ ~frontendTask.told /\ frontendTask.edge
  /\ frontendTask.state = "IN_PROGRESS" => frontendTask.reads = SlugPage
  /\ frontendTask.reads \in {NoPages, SlugPage, frontendTask.built}
  /\ listEdits = 0 /\ assemblyTask.state # "COMPLETED" => ~infraDone
  /\ ~infraDone => /\ frontendTask.state \in {"NOT_STARTED", "SKIPPED"}
                   /\ frontendTask.reads = NoPages /\ frontendTask.built = NoPages

\* A group builds its pages at least.
GroupBuilds(t) == /\ t.pages \subseteq MadePages
                  /\ t.state # "SKIPPED"
                  /\ t.state = "IN_PROGRESS" => t.pages \subseteq t.reads
                  /\ t.state = "COMPLETED" => t.pages \subseteq t.built

\* A group that has not been told its pages builds all.
BuildsAll(t) == IF t.state = "COMPLETED" THEN duePages \subseteq t.built
                ELSE ~t.told /\ (t.state = "IN_PROGRESS" => t.reads = SlugPage)

\* No group has been inserted, and the split will come about.
SplitBegun ==
  /\ assemblyTask.state # "COMPLETED" /\ ~Assembling("complete")
  /\ recipeTask.state = "COMPLETED"
  /\ duePages = MadePages /\ Splits(MadePages)
  /\ Assembling("skip") \/ Assembling("insert") => duePages \subseteq UNION assemblyTask.todo

\* Groups have been inserted: they have all the pages, with those that are
\* still to come, or a crash came before one of them was told its pages.
SplitMade ==
  \/ splitCut
  \/ duePages \subseteq (UNION {pageTasks[i].pages : i \in DOMAIN pageTasks})
                        \cup (IF GroupsMade THEN UNION assemblyTask.todo ELSE {})
  \/ ~GroupsMade /\ \E i \in DOMAIN pageTasks : BuildsAll(pageTasks[i])

SplitStage ==
  /\ duePages = {} => /\ frontendTask.state # "SKIPPED" /\ pageTasks = <<>>
                      /\ ~Assembling("skip")
  /\ Assembling("edge") \/ Assembling("describe") =>
       pageTasks # <<>> /\ BuildsAll(pageTasks[Len(pageTasks)])
  /\ Assembling("skip") => pageTasks = <<>>
  /\ pageTasks = <<>> => \/ SplitBegun
                         \/ /\ ~Assembling("skip") /\ ~GroupsMade
                            /\ duePages \subseteq Promised(frontendTask)
  /\ pageTasks # <<>> => SplitMade

PagesInv == /\ PipelineTypes /\ Settled /\ WholeFrontend /\ SplitStage
            /\ \A i \in DOMAIN pageTasks : GroupBuilds(pageTasks[i])

(* The pages: lemmas *)

\* The groups of some pages are all of them.
LEMMA GroupsCover ==
  ASSUME NEW pages
  PROVE  /\ UNION PageGroups(pages) = pages
         /\ \A g \in PageGroups(pages) : g \subseteq pages
<1>1. ASSUME NEW p \in pages PROVE p \in PageGroup(p, pages) /\ PageGroup(p, pages) \subseteq pages
  <2>1. p \in UncutGroup(p, pages)
    BY DEF UncutGroup, Alike
  <2>2. UncutGroup(p, pages) \subseteq pages
    BY DEF UncutGroup, Alike
  <2> QED BY <2>1, <2>2 DEF PageGroup
<1> QED BY <1>1 DEF PageGroups

\* What is split has pages.
LEMMA SplitsSome ==
  ASSUME PipelineAssumption, NEW pages, Splits(pages)
  PROVE  pages # {}
<1>1. ASSUME pages = {} PROVE Cardinality(pages) = 0
  BY <1>1, FS_EmptySet
<1>2. Cardinality(pages) > SplitThreshold /\ SplitThreshold \in Nat
  BY DEF Splits, PipelineAssumption
<1> QED BY <1>1, <1>2

LEMMA PartsMissing ==
  ASSUME PipelineTypes
  PROVE  MissingParts \subseteq PartName
<1>1. \A p \in MadePages : recipeRows[p] \in Screen
  BY DEF PipelineTypes, MadePages
<1> QED BY <1>1 DEF MissingParts, PartName

\* A TASK of pages that starts, ends or is started again.
LEMMA PageTaskSteps ==
  ASSUME NEW t \in PageTask
  PROVE  /\ PagesStarted(t) \in PageTask /\ PagesEnded(t) \in PageTask
         /\ BuildsAgain(t) \in PageTask
         /\ PagesStarted(t).pages = t.pages /\ PagesEnded(t).pages = t.pages
         /\ BuildsAgain(t).pages = t.pages
<1>1. MadePages \subseteq SlugPage
  BY DEF MadePages
<1>2. PagesStarted(t) \in PageTask /\ PagesStarted(t).pages = t.pages
  BY DEF PagesStarted, PageTask
<1>3. PagesEnded(t) \in PageTask /\ PagesEnded(t).pages = t.pages
  BY <1>1 DEF PagesEnded, PageTask
<1>4. BuildsAgain(t) \in PageTask /\ BuildsAgain(t).pages = t.pages
  BY DEF BuildsAgain, PageTask, NoPages
<1> QED BY <1>2, <1>3, <1>4

LEMMA GroupSteps ==
  ASSUME NEW t \in PageTask, GroupBuilds(t), duePages \subseteq MadePages
  PROVE  /\ PagesStart(t) => GroupBuilds(PagesStarted(t))
         /\ t.state = "IN_PROGRESS" => GroupBuilds(PagesEnded(t))
         /\ GroupBuilds(BuildsAgain(t))
         /\ PagesStart(t) /\ BuildsAll(t) => BuildsAll(PagesStarted(t))
         /\ t.state = "IN_PROGRESS" /\ BuildsAll(t) => BuildsAll(PagesEnded(t))
         /\ BuildsAll(t) => BuildsAll(BuildsAgain(t))
<1>1. PagesStart(t) => GroupBuilds(PagesStarted(t))
  BY DEF PagesStart, PagesStarted, PageTask, GroupBuilds
<1>2. t.state = "IN_PROGRESS" => GroupBuilds(PagesEnded(t))
  BY DEF PagesEnded, PageTask, GroupBuilds
<1>3. GroupBuilds(BuildsAgain(t))
  BY DEF BuildsAgain, PageTask, GroupBuilds
<1>4. PagesStart(t) /\ BuildsAll(t) => BuildsAll(PagesStarted(t))
  BY DEF PagesStart, PagesStarted, PageTask, BuildsAll
<1>5. t.state = "IN_PROGRESS" /\ BuildsAll(t) => BuildsAll(PagesEnded(t))
  BY DEF PagesEnded, PageTask, BuildsAll, MadePages
<1>6. BuildsAll(t) => BuildsAll(BuildsAgain(t))
  BY DEF BuildsAgain, PageTask, BuildsAll
<1> QED BY <1>1, <1>2, <1>3, <1>4, <1>5, <1>6

(* The pages: steps *)

LEMMA PagesStart0 ==
  ASSUME PipelineAssumption, PipelineInit
  PROVE  PagesInv
<1> USE DEF PipelineInit
<1>1. PipelineTypes
  <2>1. screenList \in Seq(Screen)
    BY DEF PipelineAssumption
  <2>2. componentRows \subseteq PartName
    BY DEF PartName
  <2>3. assemblyTask \in AssemblyTask
    BY DEF AssemblyTask, Unassembled, TaskState, NoPages
  <2>4. frontendTask \in PageTask
    BY DEF PageTask, PagesWaiting, NoPages
  <2>5. recipeRows \in [SlugPage -> Screen \cup {NoScreen}]
    OBVIOUS
  <2>6. recipeTask \in [state : TaskState, todo : Seq(Screen)]
    BY DEF TaskState
  <2>7. pageTasks \in Seq(PageTask)
    OBVIOUS
  <2>8. infraDone \in BOOLEAN /\ splitCut \in BOOLEAN
    OBVIOUS
  <2>9. listEdits \in Nat /\ duePages \subseteq MadePages
    OBVIOUS
  <2> QED BY <2>1, <2>2, <2>3, <2>4, <2>5, <2>6, <2>7, <2>8, <2>9 DEF PipelineTypes
<1>2. Settled
  BY DEF Settled, Assembling, Unassembled, GroupsMade
<1>3. WholeFrontend
  BY DEF WholeFrontend, PagesWaiting, NoPages, Unassembled
<1>4. SplitStage
  BY DEF SplitStage, Assembling, Unassembled, GroupsMade, PagesWaiting
<1> QED BY <1>1, <1>2, <1>3, <1>4 DEF PagesInv

\* The recipes.
LEMMA RecipeSteps ==
  ASSUME PipelineAssumption, PagesInv, MakeRecipes \/ SaveRecipe \/ RecipesMade
  PROVE  PagesInv'
<1> USE DEF PagesInv
<1>1. /\ recipeTask.state \in {"READY", "IN_PROGRESS"}
      /\ UNCHANGED <<screenList, slugLabel, componentRows, assemblyTask, frontendTask,
                     pageTasks, infraDone, duePages, splitCut, listEdits, pipelineStops>>
  BY DEF MakeRecipes, SaveRecipe, RecipesMade
<1>2. assemblyTask.state # "IN_PROGRESS" /\ \A place \in STRING : ~Assembling(place)
  BY <1>1 DEF Settled, Assembling
<1>3. /\ recipeTask' \in [state : TaskState, todo : Seq(Screen)]
      /\ recipeRows' \in [SlugPage -> Screen \cup {NoScreen}]
      /\ MadePages \subseteq MadePages'
  <2>1. CASE MakeRecipes
    BY <2>1 DEF MakeRecipes, PipelineTypes, TaskState, MadePages
  <2>2. CASE RecipesMade
    BY <2>2 DEF RecipesMade, PipelineTypes, TaskState, MadePages
  <2>3. CASE SaveRecipe
    <3>1. /\ Head(recipeTask.todo) \in Screen /\ Tail(recipeTask.todo) \in Seq(Screen)
          /\ recipeTask.todo # <<>>
      BY <2>3 DEF SaveRecipe, PipelineTypes
    <3>2. Head(recipeTask.todo) # NoScreen
      BY <3>1 DEF PipelineAssumption, NoScreen
    <3>3. Slug[Head(recipeTask.todo)] \in SlugPage
      BY <3>1 DEF SlugPage
    <3> DEFINE s == Head(recipeTask.todo)
    <3>4. recipeRows' = [recipeRows EXCEPT ![Slug[s]] = s]
      BY <2>3 DEF SaveRecipe
    <3>5. recipeTask' \in [state : TaskState, todo : Seq(Screen)]
      BY <2>3, <3>1 DEF SaveRecipe, PipelineTypes, TaskState
    <3>6. s \in Screen /\ s # NoScreen /\ Slug[s] \in SlugPage
      BY <3>1, <3>2, <3>3
    <3> HIDE DEF s
    <3> QED BY <3>4, <3>5, <3>6 DEF PipelineTypes, MadePages
  <2> QED BY <2>1, <2>2, <2>3
<1>4. PipelineTypes'
  BY <1>1, <1>3 DEF PipelineTypes
<1>5. Settled'
  BY <1>1, <1>2 DEF Settled, Assembling, GroupsMade
<1>6. WholeFrontend'
  BY <1>1 DEF WholeFrontend
<1>7. SplitStage'
  <2>1. ~SplitBegun
    BY <1>1 DEF SplitBegun
  <2> QED BY <1>1, <2>1 DEF SplitStage, SplitMade, Assembling, GroupsMade, Promised, BuildsAll
<1>8. (\A i \in DOMAIN pageTasks : GroupBuilds(pageTasks[i]))'
  BY <1>1, <1>3 DEF GroupBuilds
<1> QED BY <1>4, <1>5, <1>6, <1>7, <1>8

\* A step of the assembly that neither saves pages nor splits.
LEMMA RenderSteps ==
  ASSUME PipelineAssumption, PagesInv,
         AssemblePages \/ Render \/ RegisterParts \/ PagesAssembled
  PROVE  PagesInv'
<1> USE DEF PagesInv
<1>1. /\ UNCHANGED <<screenList, slugLabel, recipeRows, recipeTask, frontendTask, pageTasks,
                     infraDone, duePages, splitCut, listEdits, pipelineStops>>
      /\ assemblyTask' \in AssemblyTask /\ componentRows' \subseteq PartName
      /\ recipeTask.state = "COMPLETED"
  <2>1. assemblyTask \in AssemblyTask
    BY DEF PipelineTypes
  <2>2. CASE AssemblePages
    BY <2>1, <2>2 DEF AssemblePages, AssemblyOnly, AssemblyTask, TaskState, PipelineTypes
  <2>3. CASE Render
    <3>1. MissingParts \subseteq PartName /\ MadePages \subseteq SlugPage
      BY PartsMissing DEF MadePages
    <3> DEFINE parts == MissingParts  made == MadePages
               place == IF parts = {} \/ assemblyTask.round = 2 THEN "save" ELSE "register"
    <3>2. assemblyTask' = [assemblyTask EXCEPT !.pages = made, !.missing = parts, !.at = place]
      BY <2>3 DEF Render
    <3>3. parts \subseteq PartName /\ made \subseteq SlugPage /\ place \in {"save", "register"}
      BY <3>1
    <3> HIDE DEF parts, made, place
    <3>4. assemblyTask' \in AssemblyTask
      BY <2>1, <3>2, <3>3 DEF AssemblyTask
    <3>5. UNCHANGED <<frontendTask, pageTasks, duePages, componentRows>> /\ AssemblyOnly
      BY <2>3 DEF Render
    <3>6. recipeTask.state = "COMPLETED"
      BY <2>3 DEF Render, Settled, Assembling
    <3>7. componentRows' \subseteq PartName
      BY <3>5 DEF PipelineTypes
    <3> QED BY <3>4, <3>5, <3>6, <3>7 DEF AssemblyOnly
  <2>4. CASE RegisterParts
    <3>1. /\ assemblyTask' = [assemblyTask EXCEPT !.at = "render", !.round = @ + 1]
          /\ componentRows' = componentRows \cup assemblyTask.missing
      BY <2>4 DEF RegisterParts
    <3>0. assemblyTask.round \in Nat
      BY <2>1 DEF AssemblyTask
    <3> DEFINE round == assemblyTask.round + 1
    <3>9. round \in Nat /\ assemblyTask' = [assemblyTask EXCEPT !.at = "render", !.round = round]
      BY <3>0, <3>1
    <3> HIDE DEF round
    <3>2. assemblyTask' \in AssemblyTask
      BY <2>1, <3>9 DEF AssemblyTask
    <3>3. componentRows' \subseteq PartName
      BY <2>1, <3>1 DEF AssemblyTask, PipelineTypes
    <3>4. UNCHANGED <<frontendTask, pageTasks, duePages>> /\ AssemblyOnly
      BY <2>4 DEF RegisterParts
    <3>5. recipeTask.state = "COMPLETED"
      BY <2>4 DEF RegisterParts, Settled, Assembling
    <3> QED BY <3>2, <3>3, <3>4, <3>5 DEF AssemblyOnly
  <2>5. CASE PagesAssembled
    BY <2>1, <2>5 DEF PagesAssembled, AssemblyOnly, AssemblyTask, TaskState, PipelineTypes,
                      Settled, Assembling
  <2> QED BY <2>2, <2>3, <2>4, <2>5
<1>2. PipelineTypes'
  BY <1>1 DEF PipelineTypes, MadePages
<1>3. Settled'
  <2>1. assemblyTask \in AssemblyTask
    BY DEF PipelineTypes
  <2>2. MadePages' = MadePages
    BY <1>1 DEF MadePages
  <2>3. CASE AssemblePages
    BY <1>1, <2>1, <2>3 DEF AssemblePages, AssemblyTask, Settled, Assembling, GroupsMade
  <2>4. CASE Render
    BY <1>1, <2>1, <2>2, <2>4 DEF Render, AssemblyTask, Settled, Assembling, GroupsMade
  <2>5. CASE RegisterParts
    BY <1>1, <2>1, <2>5 DEF RegisterParts, AssemblyTask, Settled, Assembling, GroupsMade
  <2>6. CASE PagesAssembled
    BY <1>1, <2>1, <2>6 DEF PagesAssembled, AssemblyTask, Settled, Assembling, GroupsMade
  <2> QED BY <2>3, <2>4, <2>5, <2>6
<1>4. assemblyTask.state # "COMPLETED"
  BY DEF AssemblePages, Render, RegisterParts, PagesAssembled, Assembling
<1>5. WholeFrontend'
  BY <1>1, <1>4 DEF WholeFrontend
<1>6. SplitStage'
  <2>1. assemblyTask \in AssemblyTask
    BY DEF PipelineTypes
  <2>2. MadePages' = MadePages /\ Splits(MadePages)' = Splits(MadePages)
    BY <1>1 DEF MadePages, Splits, PageGroups, PageGroup, UncutGroup, ChunkNo, OwnGroup, Alike,
                Precedes, PlaceOf
  <2>3. CASE PagesAssembled
    <3>1. ~GroupsMade' /\ ~Assembling("skip")' /\ ~Assembling("edge")'
          /\ ~Assembling("describe")'
      BY <2>1, <2>3 DEF PagesAssembled, AssemblyTask, GroupsMade, Assembling
    <3>2. ~SplitBegun
      <4>1. CASE Assembling("complete")
        BY <4>1 DEF SplitBegun
      <4>2. CASE Assembling("insert") /\ assemblyTask.todo = {}
        <5>1. SplitBegun => duePages = {} /\ MadePages = {} /\ Splits(MadePages)
          BY <4>2 DEF SplitBegun
        <5> QED BY <5>1, SplitsSome
      <4> QED BY <2>3, <4>1, <4>2 DEF PagesAssembled
    <3>3. SplitMade => SplitMade'
      <4>1. CASE Assembling("complete")
        BY <1>1, <3>1, <4>1 DEF SplitMade, Assembling, GroupsMade, BuildsAll
      <4>2. CASE Assembling("insert") /\ assemblyTask.todo = {}
        BY <1>1, <3>1, <4>2 DEF SplitMade, Assembling, GroupsMade, BuildsAll
      <4> QED BY <2>3, <4>1, <4>2 DEF PagesAssembled
    <3> QED BY <1>1, <3>1, <3>2, <3>3 DEF SplitStage, Promised
  <2>4. CASE AssemblePages \/ Render \/ RegisterParts
    <3>1. /\ ~GroupsMade' /\ ~Assembling("skip")' /\ ~Assembling("edge")'
          /\ ~Assembling("describe")' /\ ~Assembling("insert")' /\ ~Assembling("complete")'
          /\ assemblyTask'.state # "COMPLETED"
          /\ ~GroupsMade
      BY <2>1, <2>4 DEF AssemblePages, Render, RegisterParts, AssemblyTask, GroupsMade,
                        Assembling
    <3>2. SplitBegun => SplitBegun'
      BY <1>1, <2>2, <3>1 DEF SplitBegun
    <3>3. SplitMade => SplitMade'
      BY <1>1, <3>1 DEF SplitMade, BuildsAll
    <3> QED BY <1>1, <3>1, <3>2, <3>3 DEF SplitStage, Promised
  <2> QED BY <2>3, <2>4
<1>7. (\A i \in DOMAIN pageTasks : GroupBuilds(pageTasks[i]))'
  BY <1>1 DEF GroupBuilds, MadePages
<1> QED BY <1>2, <1>3, <1>5, <1>6, <1>7

\* The pages are saved, and the split decided.
LEMMA SaveSteps ==
  ASSUME PipelineAssumption, PagesInv, SavePages
  PROVE  PagesInv'
<1> USE DEF PagesInv
<1> DEFINE splits == Splits(MadePages)
           groups == PageGroups(MadePages)
<1>1. /\ UNCHANGED <<screenList, slugLabel, recipeRows, recipeTask, componentRows,
                     frontendTask, pageTasks, infraDone, splitCut, listEdits, pipelineStops>>
      /\ Assembling("save") /\ assemblyTask.pages = MadePages
      /\ recipeTask.state = "COMPLETED"
      /\ assemblyTask \in AssemblyTask
  BY DEF SavePages, AssemblyOnly, Settled, Assembling, PipelineTypes
<1>2. /\ assemblyTask' = [assemblyTask EXCEPT !.at = IF splits THEN "skip" ELSE "complete",
                                              !.todo = IF splits THEN groups ELSE {}]
      /\ duePages' = IF (duePages = {} /\ listEdits = 0) \/ splits THEN MadePages ELSE duePages
  BY <1>1 DEF SavePages
<1>3. MadePages' = MadePages /\ splits' = splits /\ MadePages \subseteq SlugPage
  BY <1>1 DEF MadePages, Splits, PageGroups, PageGroup, UncutGroup, ChunkNo, OwnGroup, Alike,
              Precedes, PlaceOf
<1>4. UNION groups = MadePages /\ groups \subseteq SUBSET SlugPage
  BY <1>3, GroupsCover
<1>5. splits => MadePages # {} /\ pageTasks = <<>>
  BY SplitsSome DEF Splits
<1> HIDE DEF splits, groups
<1>6. /\ assemblyTask'.state = "IN_PROGRESS"
      /\ assemblyTask'.at = IF splits THEN "skip" ELSE "complete"
      /\ assemblyTask'.todo = IF splits THEN groups ELSE {}
      /\ assemblyTask'.pages = MadePages /\ assemblyTask' \in AssemblyTask
  BY <1>1, <1>2, <1>4 DEF Assembling, AssemblyTask
<1>7. PipelineTypes'
  BY <1>1, <1>2, <1>3, <1>6 DEF PipelineTypes
<1>8. Settled'
  BY <1>1, <1>3, <1>4, <1>6 DEF Settled, Assembling, GroupsMade
<1>9. WholeFrontend'
  BY <1>1, <1>6 DEF WholeFrontend, Assembling
<1>10. SplitStage'
  <2>1. /\ ~GroupsMade /\ ~GroupsMade' /\ ~Assembling("edge")' /\ ~Assembling("describe")'
        /\ ~Assembling("insert")' /\ (Assembling("skip")' <=> splits)
        /\ (Assembling("complete")' <=> ~splits)
    BY <1>1, <1>6 DEF GroupsMade, Assembling
  <2>2. CASE splits
    <3>1. SplitBegun'
      BY <1>1, <1>2, <1>3, <1>4, <1>6, <2>1, <2>2 DEF SplitBegun, splits
    <3>2. duePages' # {} /\ pageTasks' = <<>>
      BY <1>1, <1>2, <1>5, <2>2
    <3> QED BY <2>1, <3>1, <3>2 DEF SplitStage
  <2>3. CASE ~splits
    <3>1. ~SplitBegun
      BY <2>3 DEF SplitBegun, splits
    <3>2. CASE duePages = {} /\ listEdits = 0
      <4>1. frontendTask.state = "NOT_STARTED" /\ ~frontendTask.told
        BY <1>1, <3>2 DEF WholeFrontend, SplitStage, Assembling
      <4>2. Promised(frontendTask) = SlugPage
        BY <4>1 DEF Promised
      <4>3. duePages' \subseteq Promised(frontendTask)
        BY <1>2, <1>3, <3>2, <4>2
      <4>4. pageTasks = <<>>
        BY <3>2 DEF SplitStage
      <4> QED BY <1>1, <2>1, <2>3, <4>1, <4>3, <4>4 DEF SplitStage, Promised
    <3>3. CASE ~(duePages = {} /\ listEdits = 0)
      <4>1. duePages' = duePages
        BY <1>2, <2>3, <3>3
      <4>2. SplitMade => SplitMade'
        BY <1>1, <2>1, <4>1 DEF SplitMade, BuildsAll
      <4> QED BY <1>1, <2>1, <2>3, <3>1, <4>1, <4>2 DEF SplitStage, Promised
    <3> QED BY <3>2, <3>3
  <2> QED BY <2>2, <2>3
<1>11. (\A i \in DOMAIN pageTasks : GroupBuilds(pageTasks[i]))'
  BY <1>1, <1>3 DEF GroupBuilds
<1> QED BY <1>7, <1>8, <1>9, <1>10, <1>11

\* The frontend TASK is skipped.
LEMMA SkipSteps ==
  ASSUME PipelineAssumption, PagesInv, SkipFrontend
  PROVE  PagesInv'
<1> USE DEF PagesInv
<1>1. /\ UNCHANGED <<screenList, slugLabel, recipeRows, recipeTask, componentRows, duePages,
                     pageTasks, infraDone, splitCut, listEdits, pipelineStops>>
      /\ Assembling("skip") /\ assemblyTask \in AssemblyTask /\ frontendTask \in PageTask
      /\ assemblyTask' = [assemblyTask EXCEPT !.at = "insert"]
      /\ frontendTask' = [frontendTask EXCEPT !.state = "SKIPPED"]
  BY DEF SkipFrontend, AssemblyOnly, PipelineTypes
<1>2. MadePages' = MadePages /\ Splits(MadePages)' = Splits(MadePages)
  BY <1>1 DEF MadePages, Splits, PageGroups, PageGroup, UncutGroup, ChunkNo, OwnGroup, Alike,
              Precedes, PlaceOf
<1>3. /\ assemblyTask' \in AssemblyTask /\ assemblyTask'.state = "IN_PROGRESS"
      /\ assemblyTask'.at = "insert" /\ assemblyTask'.todo = assemblyTask.todo
      /\ assemblyTask'.pages = assemblyTask.pages
  BY <1>1 DEF AssemblyTask, Assembling
<1>4. frontendTask' \in PageTask
  BY <1>1 DEF PageTask
<1>5. PipelineTypes'
  BY <1>1, <1>2, <1>3, <1>4 DEF PipelineTypes
<1>6. Settled'
  BY <1>1, <1>2, <1>3 DEF Settled, Assembling, GroupsMade
<1>7. WholeFrontend'
  BY <1>1, <1>3 DEF WholeFrontend, PageTask, Assembling
<1>8. SplitStage'
  <2>1. SplitBegun /\ pageTasks = <<>>
    BY <1>1 DEF SplitStage
  <2>2. SplitBegun'
    BY <1>1, <1>2, <1>3, <2>1 DEF SplitBegun, Assembling
  <2>3. duePages # {}
    BY <2>1, SplitsSome DEF SplitBegun
  <2> QED BY <1>1, <1>3, <2>1, <2>2, <2>3 DEF SplitStage, Assembling, GroupsMade
<1>9. (\A i \in DOMAIN pageTasks : GroupBuilds(pageTasks[i]))'
  BY <1>1, <1>2 DEF GroupBuilds
<1> QED BY <1>5, <1>6, <1>7, <1>8, <1>9

\* A group is inserted.
LEMMA InsertSteps ==
  ASSUME PipelineAssumption, PagesInv, InsertGroup
  PROVE  PagesInv'
<1> USE DEF PagesInv
<1>1. /\ UNCHANGED <<screenList, slugLabel, recipeRows, recipeTask, componentRows, duePages,
                     frontendTask, infraDone, splitCut, listEdits, pipelineStops>>
      /\ Assembling("insert") /\ assemblyTask \in AssemblyTask /\ pageTasks \in Seq(PageTask)
  BY DEF InsertGroup, AssemblyOnly, PipelineTypes
<1>2. PICK pages \in assemblyTask.todo :
        /\ pageTasks' = Append(pageTasks, PagesWaiting(pages))
        /\ assemblyTask' = [assemblyTask EXCEPT !.at = "edge", !.todo = @ \ {pages}]
  BY DEF InsertGroup
<1>3. MadePages' = MadePages
  BY <1>1 DEF MadePages
<1>4. /\ assemblyTask' \in AssemblyTask /\ assemblyTask'.state = "IN_PROGRESS"
      /\ assemblyTask'.at = "edge" /\ assemblyTask'.todo = assemblyTask.todo \ {pages}
      /\ assemblyTask'.pages = assemblyTask.pages
  BY <1>1, <1>2 DEF AssemblyTask, Assembling
<1>5. pages \subseteq SlugPage
  BY <1>1, <1>2 DEF AssemblyTask
<1> DEFINE t == PagesWaiting(pages)
           l == Len(pageTasks) + 1
<1>6. t \in PageTask /\ t.pages = pages /\ BuildsAll(t)'
  BY <1>5 DEF PagesWaiting, PageTask, NoPages, BuildsAll
<1>7. t.state = "NOT_STARTED"
  BY DEF PagesWaiting
<1> HIDE DEF t
<1>8. /\ pageTasks' \in Seq(PageTask) /\ Len(pageTasks') = l /\ l \in Nat
      /\ DOMAIN pageTasks' = DOMAIN pageTasks \cup {l}
      /\ pageTasks'[l] = t /\ \A i \in DOMAIN pageTasks : pageTasks'[i] = pageTasks[i]
      /\ pageTasks' # <<>>
  BY <1>1, <1>2, <1>6 DEF t
<1>9. PipelineTypes'
  BY <1>1, <1>3, <1>4, <1>8 DEF PipelineTypes
<1>10. Settled'
  BY <1>1, <1>3, <1>4 DEF Settled, Assembling, GroupsMade
<1>11. WholeFrontend'
  BY <1>1, <1>4 DEF WholeFrontend, Assembling
<1>12. UNION {pageTasks'[i].pages : i \in DOMAIN pageTasks'} =
         (UNION {pageTasks[i].pages : i \in DOMAIN pageTasks}) \cup pages
  BY <1>6, <1>8
<1>13. SplitStage'
  <2>1. \/ duePages \subseteq (UNION {pageTasks[i].pages : i \in DOMAIN pageTasks})
                              \cup (UNION assemblyTask.todo)
        \/ splitCut
    <3>1. CASE pageTasks = <<>>
      BY <1>1, <3>1 DEF SplitStage, SplitBegun, GroupsMade
    <3>2. CASE pageTasks # <<>>
      BY <1>1, <3>2 DEF SplitStage, SplitMade, GroupsMade
    <3> QED BY <3>1, <3>2
  <2>2. UNION assemblyTask.todo = (UNION (assemblyTask.todo \ {pages})) \cup pages
    BY <1>2
  <2>3. SplitMade'
    BY <1>1, <1>4, <1>12, <2>1, <2>2 DEF SplitMade, GroupsMade, Assembling
  <2>4. duePages # {}
    <3>1. CASE pageTasks = <<>>
      <4>1. SplitBegun
        BY <1>1, <3>1 DEF SplitStage, GroupsMade
      <4> QED BY <4>1, SplitsSome DEF SplitBegun
    <3>2. CASE pageTasks # <<>>
      BY <3>2 DEF SplitStage
    <3> QED BY <3>1, <3>2
  <2>5. BuildsAll(pageTasks[Len(pageTasks)])'
    BY <1>6, <1>8
  <2> QED BY <1>1, <1>4, <1>8, <2>3, <2>4, <2>5 DEF SplitStage, Assembling
<1>14. (\A i \in DOMAIN pageTasks : GroupBuilds(pageTasks[i]))'
  <2>1. pages \subseteq MadePages
    BY <1>1, <1>2 DEF Settled, GroupsMade
  <2> QED BY <1>1, <1>3, <1>6, <1>7, <1>8, <2>1 DEF GroupBuilds
<1> QED BY <1>9, <1>10, <1>11, <1>13, <1>14

\* A group has its edge, and is told its pages.
LEMMA DescribeSteps ==
  ASSUME PipelineAssumption, PagesInv, ConnectGroup \/ DescribeGroup
  PROVE  PagesInv'
<1> USE DEF PagesInv
<1>1. /\ UNCHANGED <<screenList, slugLabel, recipeRows, recipeTask, componentRows, duePages,
                     frontendTask, infraDone, splitCut, listEdits, pipelineStops>>
      /\ assemblyTask \in AssemblyTask /\ pageTasks \in Seq(PageTask)
      /\ GroupsMade /\ pageTasks # <<>>
      /\ duePages # {}
  BY DEF ConnectGroup, DescribeGroup, AssemblyOnly, PipelineTypes, SplitStage, GroupsMade
<1> DEFINE l == Len(pageTasks)
           t == pageTasks[l]
<1>2. l \in DOMAIN pageTasks /\ DOMAIN pageTasks = 1..l /\ l \in Nat /\ t \in PageTask
  BY <1>1
<1>3. \/ pageTasks' = [pageTasks EXCEPT ![l] = [t EXCEPT !.edge = TRUE]]
      \/ pageTasks' = [pageTasks EXCEPT ![l] = [t EXCEPT !.told = TRUE]]
  BY <1>2 DEF ConnectGroup, DescribeGroup, PageTask
<1>4. /\ pageTasks'[l] \in PageTask
      /\ \A field \in {"state", "pages", "reads", "built"} : pageTasks'[l][field] = t[field]
  <2>1. ASSUME NEW u \in PageTask, pageTasks' = [pageTasks EXCEPT ![l] = u]
        PROVE  pageTasks'[l] = u
    BY <1>1, <1>2, <2>1
  <2> DEFINE u == [t EXCEPT !.edge = TRUE]
             v == [t EXCEPT !.told = TRUE]
  <2>2. /\ u \in PageTask /\ u.state = t.state /\ u.pages = t.pages /\ u.reads = t.reads
        /\ u.built = t.built
    BY <1>2 DEF PageTask
  <2>3. /\ v \in PageTask /\ v.state = t.state /\ v.pages = t.pages /\ v.reads = t.reads
        /\ v.built = t.built
    BY <1>2 DEF PageTask
  <2> HIDE DEF u, v, t
  <2>4. pageTasks'[l] \in {u, v}
    BY <1>3, <2>1, <2>2, <2>3 DEF u, v
  <2> QED BY <2>2, <2>3, <2>4
<1>5. /\ DOMAIN pageTasks' = DOMAIN pageTasks /\ Len(pageTasks') = l /\ pageTasks' # <<>>
      /\ \A i \in DOMAIN pageTasks : i # l => pageTasks'[i] = pageTasks[i]
  BY <1>1, <1>2, <1>3
<1>6. pageTasks' \in Seq(PageTask)
  BY <1>1, <1>2, <1>4, <1>5, <1>3
<1>7. MadePages' = MadePages
  BY <1>1 DEF MadePages
<1>8. /\ assemblyTask' \in AssemblyTask /\ assemblyTask'.state = "IN_PROGRESS"
      /\ assemblyTask'.todo = assemblyTask.todo /\ assemblyTask'.pages = assemblyTask.pages
      /\ ConnectGroup => assemblyTask'.at = "describe"
      /\ DescribeGroup => assemblyTask'.at = "insert"
  BY <1>1 DEF AssemblyTask, Assembling, ConnectGroup, DescribeGroup
<1>9. PipelineTypes'
  BY <1>1, <1>6, <1>7, <1>8 DEF PipelineTypes
<1>10. Settled'
  BY <1>1, <1>7, <1>8 DEF Settled, Assembling, GroupsMade
<1>11. WholeFrontend'
  BY <1>1, <1>8 DEF WholeFrontend, Assembling, GroupsMade
<1>12. SplitStage'
  <2>1. GroupsMade' /\ ~Assembling("skip")' /\ ~Assembling("edge")'
    BY <1>8 DEF GroupsMade, Assembling, ConnectGroup, DescribeGroup
  <2>2. {pageTasks'[i].pages : i \in DOMAIN pageTasks'} =
          {pageTasks[i].pages : i \in DOMAIN pageTasks}
    BY <1>4, <1>5
  <2>3. SplitMade
    BY <1>1 DEF SplitStage
  <2>4. SplitMade'
    BY <1>1, <1>8, <2>1, <2>2, <2>3 DEF SplitMade
  <2>5. Assembling("describe")' => BuildsAll(pageTasks[Len(pageTasks)])'
    <3>1. SUFFICES ASSUME Assembling("describe")' PROVE BuildsAll(pageTasks[Len(pageTasks)])'
      OBVIOUS
    <3>2. ConnectGroup
      BY <1>8, <3>1 DEF Assembling
    <3>3. BuildsAll(t)
      BY <3>2 DEF ConnectGroup, SplitStage
    <3>4. pageTasks'[l] = [t EXCEPT !.edge = TRUE]
      BY <1>2, <3>2 DEF ConnectGroup, PageTask
    <3>5. pageTasks'[l].told = t.told
      BY <1>2, <3>4 DEF PageTask
    <3> QED BY <1>1, <1>4, <1>5, <3>3, <3>5 DEF BuildsAll
  <2> QED BY <1>1, <1>5, <2>1, <2>4, <2>5 DEF SplitStage
<1>13. (\A i \in DOMAIN pageTasks : GroupBuilds(pageTasks[i]))'
  BY <1>4, <1>5, <1>7 DEF GroupBuilds
<1> QED BY <1>9, <1>10, <1>11, <1>12, <1>13

\* The infrastructure, and the frontend TASK as a whole.
LEMMA FrontendSteps ==
  ASSUME PipelineAssumption, PagesInv, InfraDone \/ StartFrontend \/ EndFrontend
  PROVE  PagesInv'
<1> USE DEF PagesInv
<1>1. /\ UNCHANGED <<screenList, slugLabel, recipeRows, recipeTask, componentRows, duePages,
                     assemblyTask, pageTasks, splitCut, listEdits, pipelineStops>>
      /\ frontendTask \in PageTask
      /\ infraDone' \in BOOLEAN
  BY DEF InfraDone, StartFrontend, EndFrontend, FrontendOnly, PipelineTypes
<1>2. MadePages' = MadePages /\ Splits(MadePages)' = Splits(MadePages)
      /\ MadePages \subseteq SlugPage /\ duePages \subseteq MadePages
  BY <1>1 DEF MadePages, Splits, PageGroups, PageGroup, UncutGroup, ChunkNo, OwnGroup, Alike,
              Precedes, PlaceOf, PipelineTypes
<1>3. /\ frontendTask' \in PageTask /\ WholeFrontend'
      /\ duePages \subseteq Promised(frontendTask) =>
           duePages \subseteq Promised(frontendTask')
      /\ frontendTask'.state = "SKIPPED" => frontendTask.state = "SKIPPED"
  <2>1. CASE InfraDone
    BY <1>1, <2>1 DEF InfraDone, WholeFrontend
  <2>2. CASE StartFrontend
    <3>1. frontendTask' = [frontendTask EXCEPT !.state = "IN_PROGRESS", !.reads = SlugPage]
      BY <2>2 DEF StartFrontend, PagesStarted, WholeFrontend
    <3>2. infraDone /\ infraDone'
      BY <2>2 DEF StartFrontend, PagesStart, WholeFrontend
    <3>3. frontendTask' \in PageTask
      BY <1>1, <3>1 DEF PageTask
    <3>4. WholeFrontend'
      BY <1>1, <3>1, <3>2 DEF WholeFrontend, PageTask
    <3>5. frontendTask'.state = "IN_PROGRESS" /\ frontendTask'.reads = SlugPage
      BY <1>1, <3>1 DEF PageTask
    <3> QED BY <1>2, <3>3, <3>4, <3>5 DEF Promised
  <2>3. CASE EndFrontend
    <3>1. frontendTask.reads = SlugPage /\ infraDone /\ infraDone'
      BY <2>3 DEF EndFrontend, WholeFrontend, NoPages
    <3>2. frontendTask' = [frontendTask EXCEPT !.state = "COMPLETED",
                             !.built = SlugPage \cap MadePages, !.told = FALSE]
      BY <2>3, <3>1 DEF EndFrontend, PagesEnded
    <3>3. frontendTask' \in PageTask
      BY <1>1, <3>2 DEF PageTask
    <3>4. WholeFrontend'
      BY <1>1, <3>1, <3>2 DEF WholeFrontend, PageTask
    <3>5. frontendTask'.state = "COMPLETED" /\ frontendTask'.built = SlugPage \cap MadePages
      BY <1>1, <3>2 DEF PageTask
    <3> QED BY <1>2, <3>3, <3>4, <3>5 DEF Promised
  <2> QED BY <2>1, <2>2, <2>3
<1>4. PipelineTypes'
  BY <1>1, <1>2, <1>3 DEF PipelineTypes
<1>5. Settled'
  BY <1>1, <1>2 DEF Settled, Assembling, GroupsMade
<1>6. SplitStage'
  <2>1. SplitBegun => SplitBegun'
    BY <1>1, <1>2 DEF SplitBegun, Assembling
  <2>2. SplitMade => SplitMade'
    BY <1>1 DEF SplitMade, BuildsAll, GroupsMade, Assembling
  <2>3. BuildsAll(pageTasks[Len(pageTasks)])' <=> BuildsAll(pageTasks[Len(pageTasks)])
    BY <1>1 DEF BuildsAll
  <2>4. Promised(frontendTask)' = Promised(frontendTask')
    BY DEF Promised
  <2> QED BY <1>1, <1>3, <2>1, <2>2, <2>3, <2>4 DEF SplitStage, Assembling, GroupsMade
<1>7. (\A i \in DOMAIN pageTasks : GroupBuilds(pageTasks[i]))'
  BY <1>1, <1>2 DEF GroupBuilds
<1> QED BY <1>3, <1>4, <1>5, <1>6, <1>7

\* A group starts or ends.
LEMMA PageGroupSteps ==
  ASSUME PipelineAssumption, PagesInv,
         NEW i \in DOMAIN pageTasks, StartGroup(i) \/ EndGroup(i)
  PROVE  PagesInv'
<1> USE DEF PagesInv
<1>1. /\ UNCHANGED <<screenList, slugLabel, recipeRows, recipeTask, componentRows, duePages,
                     assemblyTask, frontendTask, infraDone, splitCut, listEdits, pipelineStops>>
      /\ pageTasks \in Seq(PageTask) /\ pageTasks[i] \in PageTask
      /\ duePages \subseteq MadePages
  BY DEF StartGroup, EndGroup, FrontendOnly, PipelineTypes
<1>2. MadePages' = MadePages
  BY <1>1 DEF MadePages
<1>3. PICK t \in PageTask : /\ pageTasks' = [pageTasks EXCEPT ![i] = t]
                            /\ t.pages = pageTasks[i].pages /\ GroupBuilds(t)
                            /\ BuildsAll(pageTasks[i]) => BuildsAll(t)
  <2>1. GroupBuilds(pageTasks[i])
    OBVIOUS
  <2>2. CASE StartGroup(i)
    BY <1>1, <2>1, <2>2, PageTaskSteps, GroupSteps DEF StartGroup
  <2>3. CASE EndGroup(i)
    BY <1>1, <2>1, <2>3, PageTaskSteps, GroupSteps DEF EndGroup
  <2> QED BY <2>2, <2>3
<1>4. /\ pageTasks' \in Seq(PageTask) /\ DOMAIN pageTasks' = DOMAIN pageTasks
      /\ Len(pageTasks') = Len(pageTasks) /\ pageTasks' # <<>> /\ pageTasks # <<>>
      /\ pageTasks'[i] = t
      /\ \A j \in DOMAIN pageTasks : j # i => pageTasks'[j] = pageTasks[j]
  BY <1>1, <1>3
<1>5. /\ \A j \in DOMAIN pageTasks : GroupBuilds(pageTasks'[j])
      /\ \A j \in DOMAIN pageTasks : BuildsAll(pageTasks[j]) => BuildsAll(pageTasks'[j])
  BY <1>3, <1>4
<1>6. {pageTasks'[j].pages : j \in DOMAIN pageTasks'} =
        {pageTasks[j].pages : j \in DOMAIN pageTasks}
  BY <1>3, <1>4
<1>7. PipelineTypes'
  BY <1>1, <1>2, <1>4 DEF PipelineTypes
<1>8. Settled'
  BY <1>1, <1>2 DEF Settled, Assembling, GroupsMade
<1>9. WholeFrontend'
  BY <1>1 DEF WholeFrontend
<1>10. (\A j \in DOMAIN pageTasks : GroupBuilds(pageTasks[j]))'
  BY <1>2, <1>4, <1>5 DEF GroupBuilds
<1>11. \A j \in DOMAIN pageTasks : BuildsAll(pageTasks[j]) => BuildsAll(pageTasks[j])'
  BY <1>1, <1>5 DEF BuildsAll
<1>12. SplitStage'
  <2>1. GroupsMade' = GroupsMade
    BY <1>1 DEF GroupsMade, Assembling
  <2>2. SplitMade
    BY <1>4 DEF SplitStage
  <2>3. SplitMade'
    <3>1. CASE splitCut
      BY <1>1, <3>1 DEF SplitMade
    <3>2. CASE ~GroupsMade /\ \E j \in DOMAIN pageTasks : BuildsAll(pageTasks[j])
      BY <1>4, <1>11, <2>1, <3>2 DEF SplitMade
    <3>3. CASE duePages \subseteq (UNION {pageTasks[j].pages : j \in DOMAIN pageTasks})
                          \cup (IF GroupsMade THEN UNION assemblyTask.todo ELSE {})
      BY <1>1, <1>6, <2>1, <3>3 DEF SplitMade
    <3> QED BY <2>2, <3>1, <3>2, <3>3 DEF SplitMade
  <2>4. Len(pageTasks) \in DOMAIN pageTasks
    BY <1>1, <1>4
  <2>5. BuildsAll(pageTasks[Len(pageTasks)]) => BuildsAll(pageTasks[Len(pageTasks)])'
    BY <1>4, <1>11, <2>4
  <2>6. /\ Assembling("edge")' = Assembling("edge") /\ Assembling("skip")' = Assembling("skip")
        /\ Assembling("describe")' = Assembling("describe")
    BY <1>1 DEF Assembling
  <2>7. ~Assembling("skip") /\ duePages # {}
    BY <1>4 DEF SplitStage
  <2>8. (Assembling("edge") \/ Assembling("describe"))' =>
          pageTasks' # <<>> /\ BuildsAll(pageTasks[Len(pageTasks)])'
    BY <1>4, <2>5, <2>6 DEF SplitStage
  <2> QED BY <1>1, <1>4, <2>3, <2>6, <2>7, <2>8 DEF SplitStage
<1> QED BY <1>7, <1>8, <1>9, <1>10, <1>12

\* The list of screens is edited.
LEMMA EditSteps ==
  ASSUME PipelineAssumption, PagesInv, EditList
  PROVE  PagesInv'
<1> USE DEF PagesInv
<1>1. /\ UNCHANGED <<slugLabel, recipeRows, componentRows, frontendTask, pageTasks, infraDone,
                     duePages, splitCut, pipelineStops>>
      /\ assemblyTask \in AssemblyTask /\ assemblyTask.state = "COMPLETED"
      /\ assemblyTask' = [assemblyTask EXCEPT !.state = "READY"]
      /\ recipeTask \in [state : TaskState, todo : Seq(Screen)]
      /\ recipeTask' = [recipeTask EXCEPT !.state = "READY"]
      /\ screenList' \in Seq(Screen)
      /\ listEdits \in Nat /\ listEdits' = listEdits + 1
  BY DEF EditList, PipelineTypes, PipelineAssumption
<1>2. MadePages' = MadePages
  BY <1>1 DEF MadePages
<1>3. assemblyTask' \in AssemblyTask /\ assemblyTask'.state = "READY"
  BY <1>1 DEF AssemblyTask, TaskState
<1>4. recipeTask' \in [state : TaskState, todo : Seq(Screen)]
  BY <1>1 DEF TaskState
<1>5. PipelineTypes'
  BY <1>1, <1>2, <1>3, <1>4 DEF PipelineTypes
<1>6. Settled'
  BY <1>3 DEF Settled, Assembling, GroupsMade
<1>7. WholeFrontend'
  <2>1. listEdits' # 0
    BY <1>1
  <2> QED BY <1>1, <2>1 DEF WholeFrontend
<1>8. SplitStage'
  <2>1. ~SplitBegun /\ ~GroupsMade /\ ~GroupsMade'
    BY <1>1, <1>3 DEF SplitBegun, GroupsMade, Assembling
  <2>2. /\ ~Assembling("edge")' /\ ~Assembling("describe")' /\ ~Assembling("skip")'
        /\ ~Assembling("skip")
    BY <1>1, <1>3 DEF Assembling
  <2>3. SplitMade => SplitMade'
    BY <1>1, <2>1 DEF SplitMade, BuildsAll
  <2> QED BY <1>1, <2>1, <2>2, <2>3 DEF SplitStage, Promised
<1>9. (\A i \in DOMAIN pageTasks : GroupBuilds(pageTasks[i]))'
  BY <1>1, <1>2 DEF GroupBuilds
<1> QED BY <1>5, <1>6, <1>7, <1>8, <1>9

\* A crash.
LEMMA StopSteps ==
  ASSUME PipelineAssumption, PagesInv, PipelineStops
  PROVE  PagesInv'
<1> USE DEF PagesInv
<1>1. /\ UNCHANGED <<screenList, slugLabel, recipeRows, componentRows, infraDone, duePages,
                     listEdits>>
      /\ splitCut' = (splitCut \/ (Assembling("insert") /\ pageTasks # <<>>
                                   /\ assemblyTask.todo # {}))
      /\ recipeTask' = RunsAgain(recipeTask) /\ assemblyTask' = RunsAgain(assemblyTask)
      /\ frontendTask' = BuildsAgain(frontendTask)
      /\ pageTasks' = [i \in DOMAIN pageTasks |-> BuildsAgain(pageTasks[i])]
      /\ assemblyTask \in AssemblyTask /\ frontendTask \in PageTask
      /\ recipeTask \in [state : TaskState, todo : Seq(Screen)]
      /\ pageTasks \in Seq(PageTask) /\ duePages \subseteq MadePages
      /\ MadePages \subseteq SlugPage
  BY DEF PipelineStops, PipelineTypes, MadePages
<1>2. MadePages' = MadePages
  BY <1>1 DEF MadePages
<1>3. /\ assemblyTask' \in AssemblyTask /\ assemblyTask'.state # "IN_PROGRESS"
      /\ (assemblyTask'.state = "COMPLETED") = (assemblyTask.state = "COMPLETED")
  BY <1>1 DEF RunsAgain, AssemblyTask, TaskState
<1>4. /\ recipeTask' \in [state : TaskState, todo : Seq(Screen)]
      /\ (recipeTask'.state = "COMPLETED") = (recipeTask.state = "COMPLETED")
  BY <1>1 DEF RunsAgain, TaskState
<1>5. /\ pageTasks' \in Seq(PageTask) /\ DOMAIN pageTasks' = DOMAIN pageTasks
      /\ Len(pageTasks') = Len(pageTasks)
      /\ \A i \in DOMAIN pageTasks : /\ pageTasks[i] \in PageTask
                                     /\ pageTasks'[i] = BuildsAgain(pageTasks[i])
                                     /\ pageTasks'[i].pages = pageTasks[i].pages
  <2>1. \A i \in DOMAIN pageTasks : /\ pageTasks[i] \in PageTask
                                    /\ BuildsAgain(pageTasks[i]) \in PageTask
                                    /\ BuildsAgain(pageTasks[i]).pages = pageTasks[i].pages
    BY <1>1, PageTaskSteps
  <2> HIDE DEF PagesInv
  <2> QED BY <1>1, <2>1
<1>6. frontendTask' \in PageTask
  BY <1>1, PageTaskSteps
<1>7. PipelineTypes'
  BY <1>1, <1>2, <1>3, <1>4, <1>5, <1>6 DEF PipelineTypes
<1>8. Settled'
  BY <1>3 DEF Settled, Assembling, GroupsMade
<1>9. WholeFrontend'
  BY <1>1, <1>3 DEF WholeFrontend, BuildsAgain, PageTask
<1>10. /\ duePages \subseteq Promised(frontendTask) => duePages \subseteq Promised(frontendTask')
       /\ frontendTask'.state = "SKIPPED" => frontendTask.state = "SKIPPED"
  BY <1>1 DEF WholeFrontend, BuildsAgain, PageTask, Promised
<1>11. \A i \in DOMAIN pageTasks :
         /\ GroupBuilds(pageTasks'[i])
         /\ BuildsAll(pageTasks[i]) => BuildsAll(pageTasks'[i])
  <2>1. ASSUME NEW i \in DOMAIN pageTasks PROVE GroupBuilds(pageTasks[i])
    OBVIOUS
  <2> HIDE DEF PagesInv
  <2> QED BY <1>1, <1>5, <2>1, GroupSteps
<1>12. (\A i \in DOMAIN pageTasks : GroupBuilds(pageTasks[i]))'
  BY <1>2, <1>5, <1>11 DEF GroupBuilds
<1>13. \A i \in DOMAIN pageTasks : BuildsAll(pageTasks[i]) => BuildsAll(pageTasks[i])'
  BY <1>1, <1>11 DEF BuildsAll
<1>14. {pageTasks'[i].pages : i \in DOMAIN pageTasks'} =
         {pageTasks[i].pages : i \in DOMAIN pageTasks}
  BY <1>5
<1>15. (pageTasks' = <<>>) = (pageTasks = <<>>)
  BY <1>1, <1>5
<1>16. SplitStage'
  <2>1. /\ ~Assembling("edge")' /\ ~Assembling("describe")' /\ ~Assembling("skip")'
        /\ ~Assembling("insert")' /\ ~Assembling("complete")' /\ ~GroupsMade'
    BY <1>3 DEF Assembling, GroupsMade
  <2>2. SplitBegun /\ pageTasks = <<>> => SplitBegun'
    <3>1. Splits(MadePages) /\ pageTasks = <<>> => Splits(MadePages)'
      <4>1. UNCHANGED <<recipeRows, slugLabel, MadePages>>
        BY <1>1, <1>2
      <4>2. PageGroups(MadePages)' = PageGroups(MadePages)
        BY <4>1 DEF PageGroups, PageGroup, UncutGroup, ChunkNo, OwnGroup, Alike, Precedes,
                    PlaceOf
      <4> QED BY <1>2, <1>15, <4>2 DEF Splits
    <3> QED BY <1>1, <1>2, <1>3, <1>4, <2>1, <3>1 DEF SplitBegun
  <2>3. CASE pageTasks = <<>>
    <3>1. SplitBegun \/ duePages \subseteq Promised(frontendTask)
      BY <2>3 DEF SplitStage
    <3>2. SplitBegun' \/ duePages' \subseteq Promised(frontendTask')
      BY <1>1, <1>10, <2>2, <2>3, <3>1
    <3>3. Promised(frontendTask)' = Promised(frontendTask')
      BY DEF Promised
    <3> QED BY <1>1, <1>10, <1>15, <2>1, <2>3, <3>2, <3>3 DEF SplitStage
  <2>4. CASE pageTasks # <<>>
    <3>1. SplitMade /\ duePages # {}
      BY <2>4 DEF SplitStage
    <3>2. SplitMade'
      <4> DEFINE covered == UNION {pageTasks[i].pages : i \in DOMAIN pageTasks}
      <4>1. covered' = covered
        BY <1>14
      <4>2. splitCut \/ duePages \subseteq covered => SplitMade'
        BY <1>1, <4>1 DEF SplitMade
      <4>3. CASE \E i \in DOMAIN pageTasks : BuildsAll(pageTasks[i])
        BY <1>5, <1>13, <2>1, <4>3 DEF SplitMade
      <4>4. CASE GroupsMade /\ duePages \subseteq covered \cup (UNION assemblyTask.todo)
        <5>1. CASE Assembling("insert") /\ assemblyTask.todo # {}
          BY <1>1, <2>4, <5>1 DEF SplitMade
        <5>2. CASE assemblyTask.todo = {}
          BY <4>2, <4>4, <5>2
        <5>3. CASE Assembling("edge") \/ Assembling("describe")
          <6>1. BuildsAll(pageTasks[Len(pageTasks)])
            BY <5>3 DEF SplitStage
          <6>2. Len(pageTasks) \in DOMAIN pageTasks
            BY <1>1, <2>4
          <6> QED BY <4>3, <6>1, <6>2
        <5> QED BY <4>4, <5>1, <5>2, <5>3 DEF GroupsMade
      <4> HIDE DEF covered
      <4> QED BY <3>1, <4>2, <4>3, <4>4 DEF SplitMade, covered
    <3> QED BY <1>1, <1>10, <1>15, <2>1, <2>4, <3>1, <3>2 DEF SplitStage
  <2> QED BY <2>3, <2>4
<1> QED BY <1>7, <1>8, <1>9, <1>12, <1>16

LEMMA PagesStep ==
  ASSUME PipelineAssumption, PagesInv, [PipelineNext]_pipelineVars
  PROVE  PagesInv'
<1>1. CASE MakeRecipes \/ SaveRecipe \/ RecipesMade
  BY <1>1, RecipeSteps
<1>2. CASE AssemblePages \/ Render \/ RegisterParts \/ PagesAssembled
  BY <1>2, RenderSteps
<1>3. CASE SavePages
  BY <1>3, SaveSteps
<1>4. CASE SkipFrontend
  BY <1>4, SkipSteps
<1>5. CASE InsertGroup
  BY <1>5, InsertSteps
<1>6. CASE ConnectGroup \/ DescribeGroup
  BY <1>6, DescribeSteps
<1>7. CASE InfraDone \/ StartFrontend \/ EndFrontend
  BY <1>7, FrontendSteps
<1>8. CASE EditList
  BY <1>8, EditSteps
<1>9. CASE PipelineStops
  BY <1>9, StopSteps
<1>10. CASE \E i \in DOMAIN pageTasks : StartGroup(i) \/ EndGroup(i)
  BY <1>10, PageGroupSteps
<1>11. CASE UNCHANGED pipelineVars
  <2>1. MadePages' = MadePages /\ Splits(MadePages)' = Splits(MadePages)
    BY <1>11 DEF pipelineVars, MadePages, Splits, PageGroups, PageGroup, UncutGroup, ChunkNo,
                 OwnGroup, Alike, Precedes, PlaceOf
  <2>2. PipelineTypes'
    BY <1>11, <2>1 DEF pipelineVars, PagesInv, PipelineTypes
  <2>3. Settled' /\ WholeFrontend'
    BY <1>11, <2>1 DEF pipelineVars, PagesInv, Settled, WholeFrontend, Assembling, GroupsMade
  <2>4. SplitStage'
    BY <1>11, <2>1 DEF pipelineVars, PagesInv, SplitStage, SplitBegun, SplitMade, BuildsAll,
                       Promised, Assembling, GroupsMade
  <2>5. (\A i \in DOMAIN pageTasks : GroupBuilds(pageTasks[i]))'
    BY <1>11, <2>1 DEF pipelineVars, PagesInv, GroupBuilds
  <2> QED BY <2>2, <2>3, <2>4, <2>5 DEF PagesInv
<1> QED BY <1>1, <1>2, <1>3, <1>4, <1>5, <1>6, <1>7, <1>8, <1>9, <1>10, <1>11 DEF PipelineNext

LEMMA PagesInvBuilt ==
  ASSUME PagesInv
  PROVE  PagesBuilt
<1> USE DEF PagesInv
<1>1. SUFFICES ASSUME GroupsMade \/ assemblyTask.state = "COMPLETED", ~splitCut
               PROVE  duePages \subseteq Promised(frontendTask)
                        \cup (UNION {Promised(pageTasks[i]) : i \in DOMAIN pageTasks})
                        \cup (UNION assemblyTask.todo)
  BY DEF PagesBuilt
<1>2. duePages \subseteq SlugPage
  BY DEF PipelineTypes, MadePages
<1>3. ASSUME NEW i \in DOMAIN pageTasks
      PROVE  /\ pageTasks[i].pages \subseteq Promised(pageTasks[i])
             /\ BuildsAll(pageTasks[i]) => duePages \subseteq Promised(pageTasks[i])
  <2>1. pageTasks[i] \in PageTask /\ GroupBuilds(pageTasks[i])
    BY DEF PipelineTypes
  <2> HIDE DEF PagesInv
  <2> QED BY <1>2, <2>1 DEF PageTask, GroupBuilds, BuildsAll, Promised
<1>4. CASE pageTasks = <<>>
  <2>1. CASE SplitBegun
    BY <1>1, <1>4, <2>1 DEF SplitBegun, SplitStage, GroupsMade
  <2>2. CASE ~SplitBegun
    BY <1>4, <2>2 DEF SplitStage
  <2> QED BY <2>1, <2>2
<1>5. CASE pageTasks # <<>>
  <2>1. SplitMade
    BY <1>5 DEF SplitStage
  <2>2. CASE \E i \in DOMAIN pageTasks : BuildsAll(pageTasks[i])
    BY <1>3, <2>2
  <2>3. CASE duePages \subseteq (UNION {pageTasks[i].pages : i \in DOMAIN pageTasks})
                        \cup (IF GroupsMade THEN UNION assemblyTask.todo ELSE {})
    BY <1>3, <2>3
  <2> QED BY <1>1, <2>1, <2>2, <2>3 DEF SplitMade
<1> QED BY <1>4, <1>5

\* No page is left out: every page of the first assembly, or of the one that
\* was split, is built or due to be built by a TASK, unless a crash came
\* between two groups (src/engine/skills/splitting.py, assembly.py).
THEOREM PagesAllBuilt == PipelineSpec => []PagesBuilt
<1> USE PipelineAssumption
<1>1. PipelineInit => PagesInv
  BY PagesStart0
<1>2. PagesInv /\ [PipelineNext]_pipelineVars => PagesInv'
  BY PagesStep
<1>3. PagesInv => PagesBuilt
  BY PagesInvBuilt
<1> QED BY <1>1, <1>2, <1>3, PTL DEF PipelineSpec
=============================================================================
