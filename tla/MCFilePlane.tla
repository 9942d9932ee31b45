---------------------------- MODULE MCFilePlane ----------------------------
(* Small instances of FilePlane.                                           *)
EXTENDS FilePlane, TLC

Symmetry == Permutations(Uploads) \cup Permutations(Transfers) \cup Permutations(Authorizers)
=============================================================================
