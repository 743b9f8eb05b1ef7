----------------------------- MODULE MCAllocator -----------------------------
(* Allocator on a pool of 18 units for TLC. *)
EXTENDS Allocator, TLC

ClassSizes == <<2, 4>>
Alike == Permutations(Objects) \cup Permutations(Tables)
=============================================================================
