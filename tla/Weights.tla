------------------------------ MODULE Weights ------------------------------
(***************************************************************************)
(* Byte accounting over finite sets.  The total weight of a set of         *)
(* payloads is the number of byte units they occupy: one pair <<i, b>> for *)
(* each byte b charged to payload i.  Counting a set instead of folding a  *)
(* sum keeps every fact about totals provable from the library's theorems  *)
(* about cardinality.                                                      *)
(***************************************************************************)
EXTENDS Integers, FiniteSets

CONSTANT MaxCharge  \* largest weight one item can have

ASSUME MaxChargeAssumption == MaxCharge \in Nat

(* The byte units the items of S occupy under the weights w.               *)
Units(S, w) == {u \in S \X (1 .. MaxCharge) : u[2] <= w[u[1]]}

(* The sum of w[i] for i in S.                                             *)
Total(S, w) == Cardinality(Units(S, w))
=============================================================================
