----------------------------- MODULE MCKeyCache -----------------------------
(* Small instances of KeyCache.                                            *)
EXTENDS KeyCache, TLC

Symmetry == Permutations(Keys) \cup Permutations(Calls)
=============================================================================
