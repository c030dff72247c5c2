-------------------------- MODULE BatchedFrontend --------------------------
(***************************************************************************)
(* The generation of a frontend by batches of pages (src/engine/skills/    *)
(* batch.py): the grouping of the pages, the pattern batch 0 with its two  *)
(* tries, the recipe batches whose failure is noted and passed over, the   *)
(* batches of earlier attempts found in the versions of the artifact, and  *)
(* a crash at any point.                                                   *)
(***************************************************************************)
EXTENDS Integers, Sequences, FiniteSets, SequencesExt

CONSTANTS Pages,          \* the number of pages, in the order of their slugs
          Layouts,
          MaxPattern,     \* max_pattern_pages
          MaxBatch,       \* max_recipe_batch
          MaxAttempts     \* bound

ASSUME BatchAssumption ==
  Pages \in Nat /\ MaxPattern \in Nat \ {0, 1} /\ MaxBatch \in Nat \ {0}

VARIABLES layout,        \* [page -> its layout]
          home,          \* the pages whose slug is a priority slug
          savedBatches,  \* the versions saved: <<batch, OK or FAIL>>
          batchCache,    \* batch_cache
          output,        \* the outputs of this attempt, by batch
          batchStage,    \* "idle", "pattern", "recipes", "merge", "completed"
          attempts

batchVars == <<layout, home, savedBatches, batchCache, output, batchStage,
               attempts>>

Page == 1..Pages

(***************************************************************************)
(* _group_pages_for_batching.                                              *)
(***************************************************************************)
\* The pages of a set in the order of their slugs.
InOrder(set) ==
  [i \in 1..Cardinality(set) |->
     CHOOSE p \in set : Cardinality({q \in set : q <= p}) = i]

\* The first priority page, then the first page of each layout in order, as
\* many as the limit lets in.
Priority == {p \in home : \A q \in home : p <= q}
Picks == {p \in Page : \A q \in Page : layout[q] = layout[p] => p <= q}
PatternOrder == InOrder(Priority) \o InOrder(Picks \ Priority)
PatternPages == SubSeq(PatternOrder, 1,
                  IF Len(PatternOrder) < MaxPattern THEN Len(PatternOrder)
                  ELSE MaxPattern)

RecipePages == InOrder(Page \ ToSet(PatternPages))
RecipeBatches == (Len(RecipePages) + MaxBatch - 1) \div MaxBatch
Batches == 0..RecipeBatches

\* Mutant: the batches are cut one page short.
PagesOfShort(b) ==
  IF b = 0 THEN PatternPages
  ELSE SubSeq(RecipePages, (b - 1) * MaxBatch + 1,
              IF b * MaxBatch < Len(RecipePages) THEN b * MaxBatch - 1
              ELSE Len(RecipePages))

PagesOf(b) ==
  IF b = 0 THEN PatternPages
  ELSE SubSeq(RecipePages, (b - 1) * MaxBatch + 1,
              IF b * MaxBatch < Len(RecipePages) THEN b * MaxBatch
              ELSE Len(RecipePages))

(***************************************************************************)
(* The attempts.                                                           *)
(***************************************************************************)
BatchInit == /\ layout \in [Page -> Layouts]
             /\ home \in {{}} \cup {{p} : p \in Page}
             /\ savedBatches = <<>> /\ batchCache = {} /\ output = <<>>
             /\ batchStage = "idle" /\ attempts = 0

SavedOk == {b \in Batches : \E i \in DOMAIN savedBatches : savedBatches[i] = <<b, "OK">>}

\* A retry reads the versions marked OK and drops those that no longer pass
\* the check; a first attempt and one after a restart read none.
Load(reread) == IF reread THEN SUBSET SavedOk ELSE {{}}

BeginBatches(reread) ==
  /\ batchStage = "idle" /\ attempts < MaxAttempts
  /\ reread => attempts > 0
  /\ \E c \in Load(reread) : batchCache' = c
  /\ output' = <<>> /\ batchStage' = "pattern" /\ attempts' = attempts + 1
  /\ UNCHANGED <<layout, home, savedBatches>>

Keep == UNCHANGED <<layout, home, batchCache, attempts>>

\* Batch 0 from the cache, or from one of two calls that passes the check.
Pattern == /\ batchStage = "pattern" /\ batchStage' = "recipes"
           /\ output' = <<"ok">>
           /\ IF 0 \in batchCache THEN UNCHANGED savedBatches
                                  ELSE savedBatches' = Append(savedBatches, <<0, "OK">>)
           /\ Keep

\* Both calls fail the check: the attempt ends with an error.
PatternFails == /\ batchStage = "pattern" /\ 0 \notin batchCache
                /\ batchStage' = "idle" /\ output' = <<>>
                /\ UNCHANGED savedBatches /\ Keep

Recipe(good) ==
  LET b == Len(output) IN
    /\ batchStage = "recipes" /\ b <= RecipeBatches
    /\ b \in batchCache => good
    /\ output' = Append(output, IF good THEN "ok" ELSE "failed")
    /\ savedBatches' = IF b \in batchCache THEN savedBatches
                       ELSE Append(savedBatches, <<b, IF good THEN "OK" ELSE "FAIL">>)
    /\ UNCHANGED batchStage /\ Keep

\* _finalize_batch_results: the attempt fails only when nothing was made,
\* which a pattern batch excludes.
Merge == /\ batchStage = "recipes" /\ Len(output) > RecipeBatches
         /\ batchStage' = "completed"
         /\ UNCHANGED <<output, savedBatches>> /\ Keep

\* A crash, or the rework of a completed node.
Restart == /\ batchStage # "idle" /\ batchStage' = "idle" /\ output' = <<>>
           /\ UNCHANGED savedBatches /\ Keep

BatchNext == \/ \E reread \in BOOLEAN : BeginBatches(reread)
             \/ Pattern \/ PatternFails \/ Merge \/ Restart
             \/ \E good \in BOOLEAN : Recipe(good)

BatchSpec == BatchInit /\ [][BatchNext]_batchVars

(***************************************************************************)
(* Properties.                                                             *)
(***************************************************************************)
\* Whatever the layouts, each page is in exactly one batch, and what a completed
\* node shows of a batch was saved as OK, now or by an earlier attempt.
PagesCovered ==
  batchStage = "completed" =>
    /\ \A p \in Page : \E b \in Batches : Contains(PagesOf(b), p)
    /\ \A b, c \in Batches : b # c =>
         ToSet(PagesOf(b)) \cap ToSet(PagesOf(c)) = {}
    /\ \A b \in Batches : output[b + 1] = "ok" => b \in SavedOk
=============================================================================
