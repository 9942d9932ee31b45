------------------------------ MODULE MCResults ------------------------------
(* Small instances of RetainedResults.                                     *)
EXTENDS RetainedResults

Characters == {<<"a">>, <<"nl">>, <<"w1", "w2", "w3">>}
TextsUpTo(n) == {FlattenSeq(c) : c \in UNION {[1 .. m -> Characters] : m \in 0 .. n}}

Answered(bodies, header, declared, headers) ==
  [body : bodies, header : header, declared : declared, headers : headers]
Bytes(set) == {[is |-> "bytes", bytes |-> s] : s \in set}

(* Documents: rows of several widths, objects, a string, what looks like   *)
(* wrapped bytes.                                                          *)
Scalar(n) == [is |-> "scalar", cost |-> n]
Object(fields) == [is |-> "object", fields |-> fields]
Rows == {Scalar(9), Object([f |-> Scalar(2)]), Object([f |-> Scalar(1), g |-> Scalar(5)])}
Lists == {[is |-> "array", rows |-> r] : r \in UNION {[1 .. n -> Rows] : n \in 0 .. 4}}
Documents ==
  Lists \cup {Object([list |-> l, f |-> Scalar(7)]) : l \in {x \in Lists : Len(x.rows) < 3}}
        \cup {Text(<<"a", "a", "nl", "a", "nl", "a", "nl", "a", "nl", "a">>), Wrapped(<<"x", "a", "a">>),
              Wrapped(<<"a", "a", "a", "a", "a", "a">>), Scalar(20)}

(* Bytes that are text and bytes that are not, small and large.            *)
Blobs == {<<>>, <<"x">>, <<"a", "w1", "w2", "w3">>,
          <<"a", "a", "a", "nl", "a", "x", "nl", "a", "a", "a">>,
          <<"nl", "w1", "w2", "w3", "nl", "a", "a", "w1", "w2", "w3", "a", "a">>}

Headers == {0, 3, 9}
JsonOrNone == {"application/json", "application/problem+json", Absent}
Types == {"text/plain", "text/html", "application/xml", "application/octet-stream", "image/png", Absent}

AnswersOfAllKinds ==
  Answered(Bytes(TextsUpTo(5)), {"text/plain"}, {Absent}, {0})
    \cup Answered(Bytes(Blobs), Types, Types, Headers)
    \cup {a \in Answered(Documents, JsonOrNone, JsonOrNone, {0, 3}) : Effective(a.header, a.declared) \in Json}

LogsOfAllKinds == Answered(Bytes(Blobs), {"text/plain", "application/octet-stream"}, {Absent}, Headers)

FirstSelection(mode, limits, texts, contexts, pointers, fields) ==
  [mode : {mode}, offset : {0}, limit : limits, text : texts, context : contexts,
   pointer : pointers, fields : fields]

SelectionsOfAllKinds ==
  FirstSelection("text", {Absent, 1, 4}, {Absent}, {Absent}, {Absent}, {Absent})
    \cup FirstSelection("search", {Absent, 2, 5}, {<<"a">>, <<"a", "a">>, <<"w1", "w2", "w3">>},
                        {Absent, 0}, {Absent}, {Absent})
    \cup FirstSelection("json", {Absent, 2}, {Absent}, {Absent}, {Absent, <<"list">>, <<"none">>},
                        {Absent, <<"f">>, <<"f", "g">>})
    \cup FirstSelection("text", {0}, {<<"a">>}, {Absent}, {Absent}, {Absent})
=============================================================================
