------------------------------ MODULE Recency ------------------------------
(***************************************************************************)
(* Lists that are read newest first, a page at a time: sets of entries     *)
(* whose identifiers grow with every entry made.                           *)
(***************************************************************************)
EXTENDS Integers, FiniteSets

Newer(entry, entries) == {f \in entries : f.id > entry.id}

(* The entries with the places from, .., to - 1, the newest has place 0.   *)
Slice(entries, from, to) == {e \in entries : Cardinality(Newer(e, entries)) \in from .. to - 1}
=============================================================================
