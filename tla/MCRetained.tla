----------------------------- MODULE MCRetained -----------------------------
(* Small instances of RetainedStore.                                       *)
EXTENDS RetainedStore, TLC

Symmetry == Permutations(Owners) \cup Permutations(Stores) \cup Permutations(Calls)
=============================================================================
