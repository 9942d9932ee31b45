------------------------------ MODULE MCClient ------------------------------
(* A small instance of Client.                                             *)
EXTENDS Client, MCSurface, TLC

Symmetry == Permutations(Walks)

MCNumber == [text \in {"1", "2", "3", "+2"} |->
  [value |-> CASE text = "1" -> 1 [] text \in {"2", "+2"} -> 2 [] text = "3" -> 3, signed |-> text = "+2"]]

(* Secrets that hold one another, share characters or need escaping.       *)
ab == <<"a", "b">>
aba == <<"a", "b", "a">>
aq == <<"a", "quote">>
bs == <<"b", "backslash">>
Written(text) == Scalar("string", text)

MCConfigured == {ab, aq, bs}
MCLogins ==
  {[username |-> <<"a">>, password |-> ab, basic |-> <<"c", "a">>, path |-> <<"a">>],
   [username |-> bs, password |-> <<"b">>, basic |-> aba, path |-> <<"b", "c">>]}
MCGiven ==
  {Object(<<>>), Object([title |-> Written(aba)]), Object([password |-> Written(aba)]),
   Object([secrets |-> Array(<<Written(<<"b">>), Written(aba)>>)]),
   Object([body |-> Object([token |-> Written(<<"b", "a">>), title |-> Written(ab), data |-> Written(<<"backslash">>)])])}

Pieces == {<<"b">>, <<"c">>, aba, <<"a", "backslash", "quote">>, <<"backslash", "backslash">>}
MCReasons == {<<>>} \cup Pieces \cup {p \o q : p, q \in Pieces} \cup {p \o q \o r : p, q, r \in Pieces}
=============================================================================
