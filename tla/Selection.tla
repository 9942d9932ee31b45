------------------------------ MODULE Selection ------------------------------
(***************************************************************************)
(* Bounded selections from a retained payload (selection.rs), as operators *)
(* on values.                                                              *)
(*                                                                         *)
(* A payload is a body of bytes or a JSON document, with a media type.  Of *)
(* bytes it matters where characters begin: "w2" and "w3" continue the     *)
(* character that "w1" begins, "x" is no UTF-8, the others are characters  *)
(* of one byte.  A document is a scalar, an object or an array of rows; of *)
(* a scalar it matters how much of a reply it takes.  Sizes are in units   *)
(* that the constants choose.                                              *)
(***************************************************************************)
EXTENDS Integers, Sequences, SequencesExt, FiniteSets, Functions

CONSTANTS
  MaxReply,        \* MAX_REPLY_BYTES
  MaxJson,         \* MAX_JSON_BYTES
  DefaultWindow,   \* MAX_WINDOW_BYTES, the limit of text and search
  DefaultRows,     \* the limit of rows
  DefaultContext,  \* lines of context shown around a match
  MaxNeedle,       \* the longest text that may be searched for
  MaxFields,       \* the most fields that may be named
  ReplyOverhead,   \* what a reply takes beside the selected data
  Absent           \* an argument that is not given

-----------------------------------------------------------------------------
(* Bytes, characters and lines *)

Continues == {"w2", "w3"}

(* str::from_utf8 succeeds                                                 *)
IsUtf8(s) ==
  \A i \in DOMAIN s :
    /\ s[i] # "x"
    /\ s[i] = "w1" => i + 2 <= Len(s) /\ s[i + 1] = "w2" /\ s[i + 2] = "w3"
    /\ s[i] = "w2" => i > 1 /\ s[i - 1] = "w1"
    /\ s[i] = "w3" => i > 1 /\ s[i - 1] = "w2"

(* str::is_char_boundary, of a byte offset                                 *)
IsBoundary(s, offset) ==
  offset = Len(s) \/ (offset < Len(s) /\ s[offset + 1] \notin Continues)

BoundaryAfter(s, offset) == CHOOSE i \in offset .. Len(s) :
  IsBoundary(s, i) /\ \A j \in offset .. (i - 1) : ~IsBoundary(s, j)
BoundaryBefore(s, offset) == CHOOSE i \in 0 .. offset :
  IsBoundary(s, i) /\ \A j \in (i + 1) .. offset : ~IsBoundary(s, j)

Slice(s, start, end) == SubSeq(s, start + 1, end)
Smaller(a, b) == IF a < b THEN a ELSE b
Larger(a, b) == IF a < b THEN b ELSE a
Minus(a, b) == Larger(a - b, 0)

(* The offsets at which needle occurs, and the first at or after one.      *)
Occurrences(s, needle) ==
  {i \in 0 .. (Len(s) - Len(needle)) : Slice(s, i, i + Len(needle)) = needle}
FirstFrom(offsets, from) ==
  CHOOSE i \in offsets : i >= from /\ \A j \in offsets : j >= from => i <= j

Newlines(s) == {i \in 0 .. (Len(s) - 1) : s[i + 1] = "nl"}

(* Where the line begins that offset is in or just after, and where it     *)
(* ends, its newline included.                                             *)
LineStart(s, offset) ==
  LET before == {i \in Newlines(s) : i < offset}
  IN IF before = {} THEN 0 ELSE 1 + CHOOSE i \in before : \A j \in before : j <= i
LineEnd(s, offset) ==
  LET after == {i \in Newlines(s) : i >= offset}
  IN IF after = {} THEN Len(s) ELSE 1 + CHOOSE i \in after : \A j \in after : i <= j

-----------------------------------------------------------------------------
(* Replies *)

Refused(why) == [ok |-> FALSE, why |-> why]

(* Mutant: a text window resumes where its limit ended, not where it was   *)
(* moved back to.                                                          *)
NextWindowAtLimit(s, start, end, limit) ==
  LET reach == Smaller(start + limit, Len(s))
  IN IF reach < Len(s) THEN reach ELSE Absent

NextWindow(s, start, end, limit) == IF end < Len(s) THEN end ELSE Absent

(* Mutant: a search resumes where the window it showed ended.              *)
NextSearchAfterWindow(s, after, end) == IF end < Len(s) THEN end ELSE Absent

NextSearch(s, after, end) == IF after < Len(s) THEN after ELSE Absent

Window(s, args, limit) ==
  LET start == args.offset
      end == BoundaryBefore(s, Smaller(start + limit, Len(s)))
      next == NextWindow(s, start, end, limit)
  IN IF end <= start /\ start < Len(s) THEN Refused("smaller than a character")
     ELSE [ok |-> TRUE, data |-> Slice(s, start, end), start |-> start, end |-> end, next |-> next,
           complete |-> next = Absent, truncated |-> start + limit < Len(s), matched |-> FALSE]

(* The lines around a match, one more on either side for each line of      *)
(* context.                                                                *)
ContextStart(s, found, lines) ==
  LET f[n \in 0 .. lines] == IF n = 0 THEN LineStart(s, found)
                             ELSE IF f[n - 1] = 0 THEN 0 ELSE LineStart(s, f[n - 1] - 1)
  IN f[lines]
ContextEnd(s, after, lines) ==
  LET f[n \in 0 .. lines] == IF n = 0 THEN LineEnd(s, after) ELSE LineEnd(s, f[n - 1])
  IN f[lines]

(* The first match at or after the offset, with its lines, cut to a window *)
(* of at most limit bytes around the match.                                *)
Match(s, args, limit) ==
  LET needle == args.text
      matches == {i \in Occurrences(s, needle) : i >= args.offset}
      found == FirstFrom(matches, args.offset)
      after == found + Len(needle)
      lines == IF args.context = Absent THEN DefaultContext ELSE args.context
      whole == [from |-> ContextStart(s, found, lines), to |-> ContextEnd(s, after, lines)]
      left == Larger(whole.from, Minus(found, (limit - Len(needle)) \div 2))
      start == BoundaryAfter(s, left)
      end == BoundaryBefore(s, Smaller(whole.to, left + limit))
      next == NextSearch(s, after, end)
  IN IF matches = {}
     THEN [ok |-> TRUE, data |-> <<>>, start |-> args.offset, end |-> args.offset, next |-> Absent,
           complete |-> TRUE, truncated |-> FALSE, matched |-> FALSE]
     ELSE IF limit < Len(needle) THEN Refused("smaller than the match")
     ELSE [ok |-> TRUE, data |-> Slice(s, start, end), start |-> start, end |-> end, next |-> next,
           complete |-> next = Absent, matched |-> TRUE,
           truncated |-> left > whole.from \/ whole.to > left + limit]

(* text_selection *)
TextSelection(s, args, limit) ==
  IF ~IsUtf8(s) THEN Refused("not text")
  ELSE IF ~IsBoundary(s, args.offset) THEN Refused("not a boundary")
  ELSE IF args.text = Absent THEN Window(s, args, limit) ELSE Match(s, args, limit)

(* Value::pointer: the root, or a field of it.                             *)
Points(document, pointer) ==
  pointer = <<>> \/ (document.is = "object" /\ pointer[1] \in DOMAIN document.fields)
Target(document, pointer) == IF pointer = <<>> THEN document ELSE document.fields[pointer[1]]

Projectable(value, fields) == fields = Absent \/ value.is = "object"
Project(value, fields) ==
  IF fields = Absent THEN value
  ELSE [value EXCEPT !.fields = Restrict(@, DOMAIN @ \cap ToSet(fields))]

(* Mutant: rows resume after the rows that were asked for, not after those *)
(* that fitted.                                                            *)
NextRowRequested(offset, end, total, limit, args) ==
  LET asked == offset + (IF args.limit = Absent THEN DefaultRows ELSE args.limit)
  IN IF asked < total THEN asked ELSE Absent

NextRow(offset, end, total, limit, args) == IF end < total THEN end ELSE Absent

(* json_selection *)
JsonSelection(document, args, limit) ==
  LET pointer == IF args.pointer = Absent THEN <<>> ELSE args.pointer
      target == Target(document, pointer)
      total == IF target.is = "array" THEN Len(target.rows) ELSE 1
      end == IF target.is = "array" THEN Smaller(args.offset + limit, total) ELSE 1
      chosen == IF target.is = "array" THEN Slice(target.rows, args.offset, end) ELSE <<target>>
      next == NextRow(args.offset, end, total, limit, args)
  IN IF ~Points(document, pointer) THEN Refused("no such value")
     ELSE IF target.is = "array" /\ args.offset > total THEN Refused("past the rows")
     ELSE IF target.is # "array" /\ args.offset # 0 THEN Refused("no rows")
     ELSE IF \E i \in DOMAIN chosen : ~Projectable(chosen[i], args.fields) THEN Refused("no object")
     ELSE [ok |-> TRUE, start |-> args.offset, end |-> end, next |-> next, complete |-> next = Absent,
           data |-> [i \in DOMAIN chosen |-> Project(chosen[i], args.fields)],
           truncated |-> next # Absent, matched |-> FALSE]

-----------------------------------------------------------------------------
(* Sizes *)

(* What a text takes in a reply, where a line feed is escaped.             *)
TextCost(s) == Len(s) + Cardinality({i \in DOMAIN s : s[i] = "nl"})

(* The sum of a sequence of costs.                                         *)
Together(costs) ==
  LET sum[n \in 1 .. Len(costs)] == IF n = 1 THEN costs[1] ELSE sum[n - 1] + costs[n]
  IN IF costs = <<>> THEN 0 ELSE sum[Len(costs)]

FlatCost(value) ==
  IF value.is = "object" THEN 1 + FoldFunction(LAMBDA f, sum : f.cost + sum, 0, value.fields)
  ELSE value.cost
RowsCost(rows) == Together([i \in DOMAIN rows |-> FlatCost(rows[i])])
ValueCost(value) ==
  IF value.is = "array" THEN 1 + RowsCost(value.rows)
  ELSE IF value.is = "object"
  THEN 1 + FoldFunction(LAMBDA f, sum : (IF f.is = "array" THEN 1 + RowsCost(f.rows) ELSE f.cost) + sum,
                        0, value.fields)
  ELSE value.cost

Length(body) == IF body.is = "bytes" THEN Len(body.bytes) ELSE ValueCost(body)

(* serde_json::to_vec(&result): the document stands in a reply twice, as a *)
(* structure and as text.                                                  *)
ReplySize(selection, isText) ==
  ReplyOverhead + 2 * (IF isText THEN TextCost(selection.data)
                       ELSE Together([i \in DOMAIN selection.data |-> ValueCost(selection.data[i])]))

-----------------------------------------------------------------------------
(* Arguments::validate: bounds, and only what the mode knows               *)
ValidArguments(args) ==
  /\ args.limit # 0
  /\ args.text # Absent => Len(args.text) \in 1 .. MaxNeedle
  /\ args.fields # Absent => Len(args.fields) <= MaxFields
  /\ CASE args.mode = "text" -> args.text = Absent /\ args.context = Absent
                                /\ args.pointer = Absent /\ args.fields = Absent
       [] args.mode = "search" -> args.text # Absent /\ args.pointer = Absent /\ args.fields = Absent
       [] args.mode = "json" -> args.text = Absent /\ args.context = Absent

(* The widest selection, by halving the limit, whose reply stays within    *)
(* the bound; declaresJson is the classification of the media type.        *)
Select(body, declaresJson, args, ceiling) ==
  LET isText == args.mode # "json"
      bytes == IF body.is = "bytes" THEN body.bytes ELSE <<>>
      asked == IF args.limit # Absent THEN args.limit ELSE IF isText THEN DefaultWindow ELSE DefaultRows
      widest == Smaller(asked, Larger(Length(body), 1))
      at(limit) == IF isText THEN TextSelection(bytes, args, limit) ELSE JsonSelection(body, args, limit)
      f[limit \in 1 .. widest] ==
        LET selection == at(limit)
        IN IF ~selection.ok \/ ReplySize(selection, isText) <= Smaller(MaxReply, ceiling) THEN selection
           ELSE IF limit <= 1 THEN Refused("exceeds the reply") ELSE f[limit \div 2]
  IN IF ~ValidArguments(args) THEN Refused("invalid arguments")
     ELSE IF ~isText /\ (~declaresJson \/ Length(body) > MaxJson) THEN Refused("not small JSON")
     ELSE IF ~isText /\ body.is = "bytes" THEN Refused("not JSON")
     ELSE f[widest]
=============================================================================
