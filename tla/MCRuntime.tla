----------------------------- MODULE MCRuntime -----------------------------
(* Runtime on small instances for TLC; the values are in the .cfg files. *)
EXTENDS RuntimeRefinement, TLC
=============================================================================
