---------------------------- MODULE ChunkedHtml ----------------------------
(***************************************************************************)
(* engine/skills/executor.py, _chunked_html_items_generate, with the       *)
(* stores it works on: atomic_state (engine/core/state_store.py), the      *)
(* task_snapshot column of the node and coverage_report                    *)
(* (engine/core/coverage.py).  A generation walks the items in order; what *)
(* an earlier one saved in the snapshot is reused, anything else is        *)
(* reserved, generated and recorded, one database statement at a time.     *)
(***************************************************************************)
EXTENDS Integers, FiniteSets

CONSTANTS
  N,              \* the number of chunk_items
  Worker,         \* executor tasks that may be at work on the node
  Fault,          \* the swallowed exceptions: "reserve", "record", "snapshot"
  MaxGenerations  \* bound: generations started, the reworks included

Item == 1 .. N

ASSUME ChunkAssumption ==
  /\ N \in Nat \ {0}
  /\ Fault \subseteq {"reserve", "record", "snapshot"}
  /\ MaxGenerations \in Nat \ {0}

VARIABLES
  status,    \* atomic_state.status of an item, "none" when it has no row
  retries,   \* atomic_state.retry_count
  snapshot,  \* nodes.task_snapshot: completed_items, {} when it is NULL
  report,    \* coverage_report.missing_items, the last saved
  artifact,  \* the sections of the last document returned
  worker,    \* the local variables of the generations
  begun      \* generations started so far

vars == <<status, retries, snapshot, report, artifact, worker, begun>>

Status  == {"none", "RESERVED", "COMPLETE", "FAILED"}
Section == {"absent", "good", "placeholder"}
Blank   == [x \in Item |-> "absent"]

Pc == {"idle", "item", "sync", "write", "call", "complete", "fail", "save",
       "clear", "verify", "report", "return"}

Idle == [pc |-> "idle", i |-> 1, done |-> {}, doc |-> Blank,
         seen |-> "none", reserved |-> FALSE, missing |-> {}]

Init ==
  /\ status = [x \in Item |-> "none"]
  /\ retries = [x \in Item |-> 0]
  /\ snapshot = {}
  /\ report = Item
  /\ artifact = Blank
  /\ worker = [w \in Worker |-> Idle]
  /\ begun = 0

At(w, pc)   == worker[w].pc = pc
Goto(w, pc) == worker' = [worker EXCEPT ![w].pc = pc]
Current(w)  == worker[w].i

\* The next item of the loop.
Advance(w, doc) ==
  worker' = [worker EXCEPT ![w].pc = "item", ![w].i = @ + 1, ![w].doc = doc,
                           ![w].reserved = FALSE]

\* reserve has returned TRUE.
Reserved(w) ==
  worker' = [worker EXCEPT ![w].pc = "call", ![w].reserved = TRUE]

stores == <<status, retries, snapshot, report, artifact, begun>>
-----------------------------------------------------------------------------
(* The generation *)

\* The snapshot is read once, at the start; an unreadable one counts as empty.
Begin(w) ==
  /\ At(w, "idle")
  /\ begun < MaxGenerations
  /\ begun' = begun + 1
  /\ \E done \in {snapshot} \union (IF "snapshot" \in Fault THEN {{}} ELSE {}) :
       worker' = [worker EXCEPT ![w] = [Idle EXCEPT !.pc = "item", !.done = done]]
  /\ UNCHANGED <<status, retries, snapshot, report, artifact>>

\* An item of the snapshot is reused, and its row looked at.
Reuse(w) ==
  LET x == Current(w)
  IN  /\ At(w, "item")
      /\ x \in worker[w].done
      /\ IF status[x] = "COMPLETE"
         THEN Advance(w, [worker[w].doc EXCEPT ![x] = "good"])
         ELSE Goto(w, "sync")
      /\ UNCHANGED stores

\* reserve and complete: whatever the row was, it becomes COMPLETE, unless
\* one of the two raises.
Sync(w) ==
  LET x == Current(w)
  IN  /\ At(w, "sync")
      /\ \/ status' = [status EXCEPT ![x] = "COMPLETE"]
         \/ Fault \intersect {"reserve", "record"} # {} /\ UNCHANGED status
         \/ /\ "record" \in Fault /\ status[x] \in {"none", "FAILED"}
            /\ status' = [status EXCEPT ![x] = "RESERVED"]
      /\ Advance(w, [worker[w].doc EXCEPT ![x] = "good"])
      /\ UNCHANGED <<retries, snapshot, report, artifact, begun>>

\* reserve reads the row; an item RESERVED or COMPLETE is passed over.  An
\* exception is swallowed, and the item generated without a reservation.
ReserveRead(w) ==
  LET x == Current(w)
  IN  /\ At(w, "item")
      /\ x \in Item \ worker[w].done
      /\ \/ status[x] \in {"none", "FAILED"}
            /\ worker' = [worker EXCEPT ![w].pc = "write", ![w].seen = status[x]]
         \/ status[x] \in {"RESERVED", "COMPLETE"} /\ Advance(w, worker[w].doc)
         \/ "reserve" \in Fault /\ Goto(w, "call")
      /\ UNCHANGED stores

\* Mutant: INSERT OR REPLACE.
ReserveInsertReplace(w) ==
  LET x == Current(w)
  IN  /\ At(w, "write")
      /\ worker[w].seen = "none"
      /\ status' = [status EXCEPT ![x] = "RESERVED"] /\ Reserved(w)
      /\ UNCHANGED <<retries, snapshot, report, artifact, begun>>

\* The INSERT of a new row: the primary key lets one worker through, and any
\* exception counts as a lost race.
ReserveInsert(w) ==
  LET x == Current(w)
  IN  /\ At(w, "write")
      /\ worker[w].seen = "none"
      /\ \/ /\ status[x] = "none"
            /\ status' = [status EXCEPT ![x] = "RESERVED"] /\ Reserved(w)
         \/ /\ status[x] # "none" \/ "reserve" \in Fault
            /\ Advance(w, worker[w].doc) /\ UNCHANGED status
      /\ UNCHANGED <<retries, snapshot, report, artifact, begun>>

\* The UPDATE of a FAILED row does not look at the status again.
ReserveUpdate(w) ==
  LET x == Current(w)
  IN  /\ At(w, "write")
      /\ worker[w].seen = "FAILED"
      /\ \/ status' = [status EXCEPT ![x] = "RESERVED"] /\ Reserved(w)
         \/ "reserve" \in Fault /\ Goto(w, "call") /\ UNCHANGED status
      /\ UNCHANGED <<retries, snapshot, report, artifact, begun>>

\* The model call: a section, or a placeholder that is never cached.
Call(w) ==
  LET x == Current(w)
  IN  /\ At(w, "call")
      /\ \/ worker' = [worker EXCEPT ![w].pc = "complete", ![w].doc[x] = "good",
                                     ![w].done = @ \union {x}]
         \/ worker' = [worker EXCEPT ![w].pc = "fail", ![w].doc[x] = "placeholder"]
      /\ UNCHANGED stores

Complete(w) ==
  LET x == Current(w)
  IN  /\ At(w, "complete")
      /\ \/ status' = [status EXCEPT ![x] = IF @ = "none" THEN @ ELSE "COMPLETE"]
         \/ "record" \in Fault /\ UNCHANGED status
      /\ Goto(w, "save")
      /\ UNCHANGED <<retries, snapshot, report, artifact, begun>>

\* Mutant: a failed item is recorded as done.
FailCompletes(w) ==
  LET x == Current(w)
  IN  /\ At(w, "fail")
      /\ status' = [status EXCEPT ![x] = "COMPLETE"]
      /\ Goto(w, "save")
      /\ UNCHANGED <<retries, snapshot, report, artifact, begun>>

\* FAILED is written over whatever the row holds by now.
Fail(w) ==
  LET x == Current(w)
  IN  /\ At(w, "fail")
      /\ \/ /\ status[x] # "none"
            /\ status' = [status EXCEPT ![x] = "FAILED"]
            /\ retries' = [retries EXCEPT ![x] = @ + 1]
         \/ /\ status[x] = "none" \/ "record" \in Fault
            /\ UNCHANGED <<status, retries>>
      /\ Goto(w, "save")
      /\ UNCHANGED <<snapshot, report, artifact, begun>>

\* The snapshot after each item is this worker's own view.
Save(w) ==
  /\ At(w, "save")
  /\ \/ snapshot' = worker[w].done
     \/ "snapshot" \in Fault /\ UNCHANGED snapshot
  /\ Advance(w, worker[w].doc)
  /\ UNCHANGED <<status, retries, report, artifact, begun>>

\* Mutant: the loop ends one item early.
ClearEarly(w) ==
  /\ At(w, "item")
  /\ Current(w) = N
  /\ snapshot' = {}
  /\ Goto(w, "verify")
  /\ UNCHANGED <<status, retries, report, artifact, begun>>

\* The loop is over: the snapshot goes, good or not.
Clear(w) ==
  /\ At(w, "item")
  /\ Current(w) = N + 1
  /\ \/ snapshot' = {}
     \/ "snapshot" \in Fault /\ UNCHANGED snapshot
  /\ Goto(w, "verify")
  /\ UNCHANGED <<status, retries, report, artifact, begun>>

\* CoverageVerifier.verify reads the rows, not the document.
Verify(w) ==
  /\ At(w, "verify")
  /\ worker' = [worker EXCEPT ![w].pc = "report",
                  ![w].missing = {x \in Item : status[x] # "COMPLETE"}]
  /\ UNCHANGED stores

SaveReport(w) ==
  /\ At(w, "report")
  /\ report' = worker[w].missing
  /\ Goto(w, "return")
  /\ UNCHANGED <<status, retries, snapshot, artifact, begun>>

Return(w) ==
  /\ At(w, "return")
  /\ artifact' = worker[w].doc
  /\ worker' = [worker EXCEPT ![w] = Idle]
  /\ UNCHANGED <<status, retries, snapshot, report, begun>>

Generate(w) ==
  \/ Reuse(w) \/ Sync(w)
  \/ ReserveRead(w) \/ ReserveInsert(w) \/ ReserveUpdate(w)
  \/ Call(w) \/ Complete(w) \/ Fail(w) \/ Save(w)
  \/ Clear(w) \/ Verify(w) \/ SaveReport(w) \/ Return(w)

\* The process dies: the generations are gone, the tables stay.
Crash ==
  /\ \E w \in Worker : ~At(w, "idle")
  /\ worker' = [w \in Worker |-> Idle]
  /\ UNCHANGED stores

Next == Crash \/ \E w \in Worker : Begin(w) \/ Generate(w)

Spec == Init /\ [][Next]_vars
-----------------------------------------------------------------------------
(* Properties *)

Generation == [pc : Pc, i : 1 .. N + 1, done : SUBSET Item,
               doc : [Item -> Section], seen : Status, reserved : BOOLEAN,
               missing : SUBSET Item]

\* The rows, the snapshot and the local variables keep their types; a worker
\* past the head of the loop is at an item.
TypeOK ==
  /\ status \in [Item -> Status]
  /\ retries \in [Item -> Nat]
  /\ snapshot \subseteq Item
  /\ report \subseteq Item
  /\ artifact \in [Item -> Section]
  /\ worker \in [Worker -> Generation]
  /\ begun \in Nat
  /\ \A w \in Worker :
       worker[w].pc \in {"sync", "write", "call", "complete", "fail", "save"}
         => Current(w) \in Item

\* A worker that has reserved item x and not recorded its result yet.
Holds(w, x) ==
  /\ worker[w].pc \in {"call", "complete", "fail"}
  /\ worker[w].reserved
  /\ Current(w) = x

\* The primary key gives a new item to one worker: as long as no failure of
\* it has been recorded, no two workers hold a reservation of it, whatever
\* statements have raised.  (A FAILED row can be reserved twice.)
FirstReserveExclusive ==
  \A x \in Item : retries[x] = 0 =>
    \A v, w \in Worker : Holds(v, x) /\ Holds(w, x) => v = w

\* The report of the first generation hides no section that is missing or a
\* placeholder, whatever statements have raised.
FirstReportHonest ==
  \A w \in Worker :
    worker[w].pc = "return" /\ begun = 1
      => {x \in Item : worker[w].doc[x] # "good"} \subseteq worker[w].missing

\* A document whose coverage is complete holds every section.
CoverageHonest ==
  \A w \in Worker : worker[w].pc = "return" /\ worker[w].missing = {}
                      => \A x \in Item : worker[w].doc[x] = "good"
=============================================================================
