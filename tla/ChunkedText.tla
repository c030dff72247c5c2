---------------------------- MODULE ChunkedText ----------------------------
(***************************************************************************)
(* The generation of a large document by sections, of a JSON array by      *)
(* categories and of a JSON array by items (src/engine/skills/             *)
(* executor.py): one model call per part, a snapshot in nodes.task_snapshot *)
(* from which a later attempt continues, and a crash at any point.         *)
(*                                                                         *)
(* An entry of the result is the pair of its part and what it is: "good",  *)
(* "cut" (ended by max_tokens), "recut" (the second call for a thin section *)
(* ended by max_tokens), "failed" (the placeholder) or "loose" (an object   *)
(* outside an array).                                                      *)
(***************************************************************************)
EXTENDS Integers, Sequences, FiniteSets

CONSTANTS Pieces,    \* the parts
          MaxTries   \* bound: the attempts

ASSUME TextAssumption == Pieces \in Nat

VARIABLES shape,     \* "document", "categories" or "items"
          running,   \* an attempt is under way
          part,      \* the part it is at
          results,   \* its entries so far
          marked,    \* categories: cached_categories; items: completed_items
          anyCut,    \* document: any_truncated
          snap,      \* nodes.task_snapshot
          tries,     \* the attempts started
          returned,  \* what the last attempt returned
          fresh,     \* it began without a snapshot
          paused     \* the engagement was found paused during it

textVars == <<shape, running, part, results, marked, anyCut, snap, tries,
              returned, fresh, paused>>

Part == 1..Pieces
NoSnap == [list |-> <<>>, marked |-> {}]
NoAnswer == [list |-> <<>>, stop |-> "none"]

TextInit == /\ shape \in {"document", "categories", "items"}
            /\ running = FALSE /\ part = 0 /\ results = <<>> /\ marked = {}
            /\ anyCut = FALSE /\ snap = NoSnap /\ tries = 0
            /\ returned = NoAnswer /\ fresh = TRUE /\ paused = FALSE

Entries(list, p) == {k \in 1..Len(list) : list[k][1] = p}
First(list, p) == list[CHOOSE k \in Entries(list, p) :
                         \A j \in Entries(list, p) : k <= j]

\* The attempt loads the snapshot: sections and items are looked up part by
\* part, the items of the cached categories are taken over at once.
StartText == /\ ~running /\ tries < MaxTries
             /\ running' = TRUE /\ part' = 1 /\ tries' = tries + 1
             /\ results' = IF shape = "categories" THEN snap.list ELSE <<>>
             /\ marked' = snap.marked
             /\ anyCut' = FALSE /\ paused' = FALSE /\ returned' = NoAnswer
             /\ fresh' = (snap = NoSnap)
             /\ UNCHANGED <<shape, snap>>

Move == /\ part' = part + 1
        /\ UNCHANGED <<shape, running, anyCut, tries, returned, fresh, paused>>

\* The snapshot is written, or its exception is passed over.
SaveSnap(list, known) == snap' \in {snap, [list |-> list, marked |-> known]}

(***************************************************************************)
(* Documents.                                                              *)
(***************************************************************************)
Cached(p) == CASE shape = "document" -> Entries(snap.list, p) # {}
               [] shape = "items" -> p \in marked
               [] shape = "categories" -> p \in marked

\* A cached section is taken as it is, whatever it is.
SectionCached == /\ running /\ shape = "document" /\ part \in Part /\ Cached(part)
                 /\ results' = Append(results, First(snap.list, part))
                 /\ UNCHANGED <<marked, snap>> /\ Move

\* A call that raises leaves a placeholder, and nothing is saved.
SectionFails == /\ running /\ shape = "document" /\ part \in Part /\ ~Cached(part)
                /\ results' = Append(results, <<part, "failed">>)
                /\ UNCHANGED <<marked, snap>> /\ Move

\* The first call may be cut.  A section too thin is called a second time,
\* and whether that answer is cut is not looked at.
SectionMade(firstCut, what) ==
  /\ running /\ shape = "document" /\ part \in Part /\ ~Cached(part)
  /\ what = "cut" => firstCut
  /\ results' = Append(results, <<part, what>>)
  /\ anyCut' = (anyCut \/ firstCut)
  /\ SaveSnap(results', {})
  /\ part' = part + 1
  /\ UNCHANGED <<shape, running, marked, tries, returned, fresh, paused>>

\* From the second section on a paused engagement ends the loop.
PauseSeen == /\ running /\ shape = "document" /\ part \in Part /\ part > 1
             /\ part' = Pieces + 1 /\ paused' = TRUE
             /\ UNCHANGED <<shape, running, results, marked, anyCut, snap, tries,
                            returned, fresh>>

(***************************************************************************)
(* JSON by categories.                                                     *)
(***************************************************************************)
CategoryCached == /\ running /\ shape = "categories" /\ part \in Part /\ Cached(part)
                  /\ UNCHANGED <<results, marked, snap>> /\ Move

\* Mutant: the category is noted after the snapshot was written.
CategoryListLate ==
  /\ running /\ shape = "categories" /\ part \in Part /\ ~Cached(part)
  /\ results' = Append(results, <<part, "good">>)
  /\ marked' = marked \cup {part}
  /\ SaveSnap(results', marked)
  /\ Move

\* An array, as it came or with its brackets closed; it may be empty.
CategoryList == /\ running /\ shape = "categories" /\ part \in Part /\ ~Cached(part)
                /\ results' \in {results, Append(results, <<part, "good">>)}
                /\ marked' = marked \cup {part}
                /\ SaveSnap(results', marked')
                /\ Move

\* A single object is added and the category stays open; anything else is
\* passed over.
CategoryLoose == /\ running /\ shape = "categories" /\ part \in Part /\ ~Cached(part)
                 /\ results' \in {results, Append(results, <<part, "loose">>)}
                 /\ UNCHANGED <<marked, snap>> /\ Move

(***************************************************************************)
(* JSON by items.                                                          *)
(***************************************************************************)
ItemCached == /\ running /\ shape = "items" /\ part \in Part /\ Cached(part)
              /\ results' = Append(results, <<part, "good">>)
              /\ UNCHANGED <<marked, snap>> /\ Move

\* One object, or the objects of an array, of which the first is cached.
ItemMade(objects) ==
  /\ running /\ shape = "items" /\ part \in Part /\ ~Cached(part)
  /\ results' = results \o [k \in 1..objects |-> <<part, "good">>]
  /\ marked' = marked \cup {part}
  /\ SaveSnap(<<>>, marked') /\ Move

ItemFails == /\ running /\ shape = "items" /\ part \in Part /\ ~Cached(part)
             /\ results' = Append(results, <<part, "failed">>)
             /\ SaveSnap(<<>>, marked)
             /\ UNCHANGED marked /\ Move

(***************************************************************************)
(* The end of an attempt.                                                  *)
(***************************************************************************)
ReturnText(stop) == /\ running' = FALSE
                    /\ returned' = [list |-> results, stop |-> stop]
                    /\ UNCHANGED <<shape, part, results, marked, anyCut, tries, fresh,
                                   paused>>

\* Nothing was cut: the snapshot is removed (or the exception passed over).
Finish == /\ running /\ part = Pieces + 1
          /\ ~(shape = "categories" /\ results = <<>>)
          /\ IF anyCut THEN UNCHANGED snap ELSE snap' \in {snap, NoSnap}
          /\ ReturnText(IF anyCut THEN "max_tokens" ELSE "end_turn")

\* Every category failed: one call for all of it.
SingleCall == /\ running /\ part = Pieces + 1 /\ shape = "categories" /\ results = <<>>
              /\ UNCHANGED snap /\ ReturnText("single")

TextStops == /\ running /\ running' = FALSE
             /\ part' = 0 /\ results' = <<>> /\ marked' = {} /\ anyCut' = FALSE
             /\ paused' = FALSE
             /\ UNCHANGED <<shape, snap, tries, returned, fresh>>

TextNext == \/ StartText \/ TextStops \/ Finish \/ SingleCall
            \/ SectionCached \/ SectionFails \/ PauseSeen
            \/ \E c \in BOOLEAN, what \in {"good", "cut", "recut"} : SectionMade(c, what)
            \/ CategoryCached \/ CategoryList \/ CategoryLoose
            \/ ItemCached \/ ItemFails \/ \E objects \in {1, 2} : ItemMade(objects)

TextSpec == TextInit /\ [][TextNext]_textVars

(***************************************************************************)
(* Properties.                                                             *)
(***************************************************************************)
Ended == ~running /\ returned.stop \in {"end_turn", "max_tokens"}

\* However often an attempt was cut off and continued from its snapshot, the
\* answer has each section of a document once and in order, no category
\* that was completed twice, and an entry for each item.
EachOnce ==
  /\ (Ended /\ shape = "document" /\ ~paused) =>
        [k \in 1..Len(returned.list) |-> returned.list[k][1]] = [k \in Part |-> k]
  /\ (shape = "categories") =>
        \A p \in Part :
          Cardinality({k \in Entries(results, p) : results[k][2] = "good"})
                          <= (IF p \in marked THEN 1 ELSE 0)
  /\ (Ended /\ shape = "items") => \A p \in Part : Entries(returned.list, p) # {}

\* A document that an attempt made from the beginning and returned as
\* complete holds no section that its first call left cut.
CutsReported ==
  (shape = "document" /\ Ended /\ returned.stop = "end_turn" /\ fresh) =>
     \A k \in 1..Len(returned.list) : returned.list[k][2] # "cut"

\* Both.
AnswerHonest == EachOnce /\ CutsReported
=============================================================================
