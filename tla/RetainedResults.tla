--------------------------- MODULE RetainedResults ---------------------------
(***************************************************************************)
(* What becomes of one successful answer of Gitea: the reply to the call,  *)
(* the payload that a displaced reply leaves in the caller's store, and    *)
(* the selections with which the caller reads it piece by piece            *)
(* (bound_response of lib.rs, result.select of selection.rs).              *)
(***************************************************************************)
EXTENDS Replies

CONSTANTS
  Answers,    \* answers of Gitea: body, header and declared type, headers' cost
  Ceilings,   \* context ceilings, at least the smallest that can be honoured
  Selections  \* arguments of the first selection of a walk

(* A body is bytes, or the document that bytes are under a JSON type.      *)
WellFormed(body, type) ==
  /\ body.is \in {"bytes", "string", "scalar", "object", "array"}
  /\ body.is # "bytes" => type \in Json
  /\ body.is = "bytes" => body = [is |-> "bytes", bytes |-> body.bytes]
  /\ body.is \in {"bytes", "string"} => body.bytes \in Seq(STRING)
  /\ body.is = "string" => IsUtf8(body.bytes)
  /\ body.is # "bytes" => ValueCost(body) \in Nat
  /\ \A pointer \in {<<>>} \cup {<<f>> : f \in IF body.is = "object" THEN DOMAIN body.fields ELSE {}} :
       LET target == Target(body, pointer)
       IN target.is = "array" => target.rows \in Seq(Range(target.rows))

(* Arguments as they are deserialised; a text is a string of UTF-8.        *)
Arguments ==
  [mode : {"text", "search", "json"}, offset : Nat, limit : Nat \cup {Absent},
   text : Seq(STRING) \cup {Absent}, context : Nat \cup {Absent},
   pointer : Seq(STRING) \cup {Absent}, fields : Seq(STRING) \cup {Absent}]

ASSUME RetainedResultsAssumption ==
  /\ \A a \in Answers : LET type == Effective(a.header, a.declared)
                       IN WellFormed(a.body, type) /\ Decodes(type, a.body) /\ a.headers \in Nat
  /\ Ceilings \cup {MaxPreview, SummaryOverhead, LinkCost, MaxReply, ReplyOverhead,
                     MaxNeedle, DefaultContext} \subseteq Nat
  /\ \A s \in Selections : s \in Arguments /\ s.offset = 0 /\ (s.text # Absent => IsUtf8(s.text))
  (* halving a limit that does not fit goes neither below one character    *)
  (* nor below the longest text that may be searched for                   *)
  /\ \A c \in Ceilings : Smaller(MaxReply, c) - ReplyOverhead >= Larger(16, 8 * MaxNeedle - 4)
  /\ DefaultWindow \in Nat /\ DefaultWindow >= Larger(3, MaxNeedle)
  /\ DefaultRows \in Nat \ {0}
  /\ Absent \notin Nat \cup Seq(STRING)
  /\ Absent \notin Json \cup Xml \cup PlainText \cup {"application/x-ndjson", "application/octet-stream"}

VARIABLES
  answer,    \* the answer, and the ceiling and outcome of the store it meets
  reply,     \* the reply to the call, Absent before it
  retained,  \* the payload the caller's store holds, or Absent
  walk       \* the caller's selections

vars == <<answer, reply, retained, walk>>

NoWalk == [at |-> "none", args |-> Absent, shown |-> <<>>]

Init ==
  /\ answer \in [upstream : Answers, ceiling : Ceilings, kept : BOOLEAN]
  /\ reply = Absent /\ retained = Absent /\ walk = NoWalk

Data == Decoded(Effective(answer.upstream.header, answer.upstream.declared), answer.upstream.body)

(* operation_result *)
Respond ==
  /\ reply = Absent
  /\ reply' = Reply(Data, answer.upstream.headers, answer.ceiling, answer.kept)
  /\ retained' = IF reply'.inline \/ ~answer.kept THEN Absent
                 ELSE Payload(Data, answer.upstream.header, answer.upstream.declared)
  /\ UNCHANGED <<answer, walk>>

(* A walk through the payload.  The text of a document is left out.        *)
Begin(args) ==
  /\ retained # Absent /\ walk = NoWalk
  /\ retained.body.is # "bytes" => args.mode = "json"
  /\ walk' = [at |-> "walking", args |-> args, shown |-> <<>>]
  /\ UNCHANGED <<answer, reply, retained>>

(* selection_result: the payload as the store has it, or a missing handle  *)
SelectNext ==
  /\ walk.at = "walking"
  /\ IF retained = Absent THEN walk' = [walk EXCEPT !.at = "missing"]
     ELSE LET selection == Select(retained.body, DeclaresJson(retained.type), walk.args, answer.ceiling)
          IN IF ~selection.ok THEN walk' = [walk EXCEPT !.at = "refused"]
             ELSE walk' = [at |-> IF selection.next = Absent THEN "done" ELSE "walking",
                           args |-> [walk.args EXCEPT !.offset = IF selection.next = Absent THEN @
                                                                 ELSE selection.next],
                           shown |-> Append(walk.shown, selection)]
  /\ UNCHANGED <<answer, reply, retained>>

(* The payload expires, or is evicted: RetainedStore says when.            *)
Lose ==
  /\ retained # Absent
  /\ retained' = Absent
  /\ UNCHANGED <<answer, reply, walk>>

Next == Respond \/ (\E args \in Selections : Begin(args)) \/ SelectNext \/ Lose

Spec == Init /\ [][Next]_vars

-----------------------------------------------------------------------------
(* Properties *)

Upstream == answer.upstream
EffectiveType == Effective(Upstream.header, Upstream.declared)

(* The bytes and documents whose decoding payload_bytes undoes: all but    *)
(* bytes under a textual type that are no text.                            *)
Restorable ==
  Upstream.body.is = "bytes" =>
    Upstream.body.bytes # <<>> /\ (IsTextual(EffectiveType) => Data.is = "string")

(* Reading the handle yields what Gitea sent, in the form its type says:   *)
(* the log or the file itself and not its encoding, a document and not the *)
(* bytes it seems to wrap, whether the type came with the answer or from   *)
(* the catalogue.                                                          *)
ReadsBack ==
  retained # Absent /\ Restorable =>
    LET contents == Contents(retained)
    IN /\ contents.of = Upstream.body
       /\ contents.form = IF Data.is = "string" \/ Upstream.body.is # "bytes" THEN "text" ELSE "blob"

(* Contrary to the code: whatever bytes Gitea sent, a retained payload is  *)
(* made of them and not of the wrapper that decoding put around them.      *)
FileRestored ==
  retained # Absent /\ Upstream.body.is = "bytes" /\ Upstream.body.bytes # <<>> =>
    retained.body = Upstream.body

(* A displaced reply keeps to the ceiling with the longest excerpt that    *)
(* allows it, cut between characters, and gives up headers only when the   *)
(* reply fits without any excerpt or not at all; only a payload that was   *)
(* kept has an excerpt.                                                    *)
ExcerptLongest ==
  reply # Absent /\ ~reply.inline =>
    LET whole == TextPreview(Data)
        fitting == {i \in 0 .. Len(whole) :
                      IsBoundary(whole, i) /\ DisplacedSize(reply.retained, Upstream.headers, Slice(whole, 0, i))
                                              <= answer.ceiling}
    IN /\ reply.retained /\ fitting # {} => Len(reply.preview) = CHOOSE i \in fitting : \A j \in fitting : j <= i
       /\ reply.preview = Slice(whole, 0, Len(reply.preview))
       /\ ~reply.retained \/ fitting = {} => reply.preview = <<>>
       /\ reply.headersOmitted <=> DisplacedSize(reply.retained, Upstream.headers, <<>>) > answer.ceiling

Shown == FlattenSeq([i \in DOMAIN walk.shown |-> walk.shown[i].data])

(* Following next_offset through a text shows all of it once, in order,    *)
(* however the byte limits fall on its characters, and ends; only a limit  *)
(* that the caller chose below one character stops it.                     *)
TextRecovered ==
  walk.at # "none" /\ walk.args.mode = "text" /\ retained # Absent =>
    LET s == retained.body.bytes
    IN /\ walk.at = "walking" => Shown = Slice(s, 0, walk.args.offset)
       /\ walk.at = "done" => Shown = s
       /\ walk.at = "refused" /\ IsUtf8(s) /\ ValidArguments(walk.args) =>
            walk.args.limit # Absent /\ walk.args.limit < BoundaryAfter(s, walk.args.offset + 1) - walk.args.offset

(* The matches a search ought to visit: each one begins at or after the    *)
(* end of the one before.                                                  *)
Matches(s, needle) ==
  LET f[from \in 0 .. Len(s)] ==
        LET later == {i \in Occurrences(s, needle) : i >= from}
        IN IF later = {} THEN <<>>
           ELSE LET first == FirstFrom(later, from)
                IN <<first>> \o f[first + Len(needle)]
  IN f[0]

(* A search that follows next_offset visits every match once, in order,    *)
(* with windows that overlap or not, and each reply shows its match whole, *)
(* however narrow the window and wherever it is cut; a reply without a     *)
(* match only ends it.                                                     *)
EveryMatchShown ==
  walk.at # "none" /\ walk.args.mode = "search" /\ retained # Absent /\ ValidArguments(walk.args) =>
    LET s == retained.body.bytes
        needle == walk.args.text
        matches == Matches(s, needle)
        ended == walk.shown # <<>> /\ ~ Last(walk.shown).matched
        hits == IF ended THEN Front(walk.shown) ELSE walk.shown
    IN /\ Len(hits) <= Len(matches)
       /\ \A i \in DOMAIN hits :
            /\ hits[i].matched
            /\ hits[i].start <= matches[i] /\ matches[i] + Len(needle) <= hits[i].end
            /\ hits[i].data = Slice(s, hits[i].start, hits[i].end)
       /\ ended => walk.at = "done"
       /\ walk.at = "done" => Len(hits) = Len(matches)
       /\ walk.at = "refused" /\ IsUtf8(s) => walk.args.limit # Absent /\ walk.args.limit < Len(needle)

(* Following next_offset through an array shows every row once, in order,  *)
(* projected to the named fields, although the reply bound may shorten any *)
(* page; only a row that exceeds the bound alone, or that has no fields,   *)
(* stops it.                                                               *)
RowsRecovered ==
  LET body == retained.body
      pointer == IF walk.args.pointer = Absent THEN <<>> ELSE walk.args.pointer
      rows == Target(body, pointer).rows
      fields == walk.args.fields
  IN walk.at # "none" /\ walk.args.mode = "json" /\ retained # Absent =>
       (body.is \in {"array", "object"} /\ Points(body, pointer) =>
         (Target(body, pointer).is = "array" =>
           /\ \A i \in DOMAIN Shown : Shown[i] = Project(rows[i], fields)
           /\ walk.at = "walking" => Len(Shown) = walk.args.offset
           /\ walk.at = "done" => Len(Shown) = Len(rows)
           /\ walk.at = "refused" /\ ValidArguments(walk.args) /\ DeclaresJson(retained.type) =>
                \/ ValueCost(body) > MaxJson
                \/ \E i \in DOMAIN rows :
                     \/ ~Projectable(rows[i], fields)
                     \/ ~(ReplyOverhead + 2 * ValueCost(Project(rows[i], fields))
                             <= Smaller(MaxReply, answer.ceiling))))
=============================================================================
