------------------------------ MODULE MCCalls ------------------------------
(* Small instances of Calls.                                               *)
EXTENDS Calls
=============================================================================
