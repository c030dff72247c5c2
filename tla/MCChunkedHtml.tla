--------------------------- MODULE MCChunkedHtml ---------------------------
(* Two executor tasks on one node, for model checking ChunkedHtml. *)
EXTENDS ChunkedHtml, TLC

CONSTANTS w1, w2

Symmetry == Permutations(Worker)
=============================================================================
