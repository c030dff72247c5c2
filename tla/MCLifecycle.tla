----------------------------- MODULE MCLifecycle -----------------------------
(* Stops, restarts and operators at work on the graphs of MCExecutor. *)
EXTENDS Lifecycle, MCExecutor

CONSTANTS c1
==============================================================================
