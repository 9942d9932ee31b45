----------------------------- MODULE MCDownloads -----------------------------
(* A small instance of Downloads.                                          *)
EXTENDS Downloads, TLC

Symmetry == Permutations(Owners) \cup Permutations(Stores) \cup Permutations(Payloads)
            \cup Permutations(Grants) \cup Permutations(Downloads)
            \cup Permutations(Calls)

Lengths == {2}
=============================================================================
