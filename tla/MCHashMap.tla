----------------------------- MODULE MCHashMap -----------------------------
(***************************************************************************)
(* HashMap for TLC: of six keys three collide in a table of eight slots,   *)
(* at its end, two of them in one of sixteen too, and the fourth is in     *)
(* their way.  A used slot stays used until the table is filled again and  *)
(* is one that some key would take in a table with all of them, so it      *)
(* takes six keys to crowd eight slots.                                    *)
(***************************************************************************)
EXTENDS HashMap, TLC

Hashes == [a |-> 7, b |-> 15, c |-> 23, d |-> 0, e |-> 3, f |-> 4]

\* Values are stored and found, never looked at.
Interchangeable == Permutations(Values)
=============================================================================
