------------------------------- MODULE Replies -------------------------------
(***************************************************************************)
(* How a successful answer of Gitea becomes the reply to a call: decoding  *)
(* (execute.rs), and inlining it or displacing its payload to the store of *)
(* the caller (lib.rs), as operators on values.                            *)
(*                                                                         *)
(* A media type is its base type in lower case, or Absent: both sides      *)
(* drop parameters and case.  An object with the fields "encoding" and     *)
(* "content" alone is what decoding makes of bytes it takes for neither    *)
(* JSON nor text, and also a document that Gitea may send itself.          *)
(***************************************************************************)
EXTENDS Selection

CONSTANTS
  MaxPreview,        \* RESOURCE_PREVIEW_BYTES
  SummaryOverhead,   \* what a displaced reply takes beside preview and headers
  LinkCost           \* what the resource link of a retained payload takes

-----------------------------------------------------------------------------
(* Media types *)

Json == {"application/json", "application/problem+json"}
Xml == {"application/xml", "image/svg+xml"}
PlainText == {"text/plain", "text/html"}

DeclaresJson(type) == type \in Json
IsTextual(type) == type \in Json \cup Xml \cup PlainText \cup {"application/x-ndjson"}

-----------------------------------------------------------------------------
(* decode_response_body: a document, text, or the wrapped bytes *)

Null == [is |-> "scalar", cost |-> 1]
Text(s) == [is |-> "string", bytes |-> s, cost |-> TextCost(s)]
Wrapped(s) == [is |-> "object", fields |-> [encoding |-> [is |-> "scalar", cost |-> 1],
                                            content |-> [is |-> "base64", bytes |-> s, cost |-> 2 * Len(s)]]]

Decodes(type, body) == type \in Json => body.is # "bytes" \/ body.bytes = <<>>

Decoded(type, body) ==
  IF body.is # "bytes" THEN body
  ELSE IF body.bytes = <<>> THEN Null
  ELSE IF type \in {Absent} \cup PlainText \cup Xml /\ IsUtf8(body.bytes) THEN Text(body.bytes)
  ELSE Wrapped(body.bytes)

IsWrapper(data) ==
  /\ data.is = "object" /\ DOMAIN data.fields = {"encoding", "content"}
  /\ data.fields["content"].is = "base64"

Effective(header, declared) == IF header # Absent THEN header ELSE declared

(* Mutant: the type that the operation declares is not looked at.          *)
PayloadByHeader(data, header, declared) ==
  LET effective == header
  IN IF data.is = "string" /\ ~DeclaresJson(effective)
     THEN [body |-> [is |-> "bytes", bytes |-> data.bytes],
           type |-> IF effective = Absent THEN "text/plain" ELSE effective]
     ELSE IF IsWrapper(data) /\ ~IsTextual(effective)
     THEN [body |-> [is |-> "bytes", bytes |-> data.fields["content"].bytes],
           type |-> IF header = Absent THEN "application/octet-stream" ELSE header]
     ELSE [body |-> data, type |-> "application/json"]

(* payload_bytes: what is retained for the decoded data, and its type.     *)
Payload(data, header, declared) ==
  LET effective == Effective(header, declared)
  IN IF data.is = "string" /\ ~DeclaresJson(effective)
     THEN [body |-> [is |-> "bytes", bytes |-> data.bytes],
           type |-> IF effective = Absent THEN "text/plain" ELSE effective]
     ELSE IF IsWrapper(data) /\ ~IsTextual(effective)
     THEN [body |-> [is |-> "bytes", bytes |-> data.fields["content"].bytes],
           type |-> IF header = Absent THEN "application/octet-stream" ELSE header]
     ELSE [body |-> data, type |-> "application/json"]

-----------------------------------------------------------------------------
(* Sizes, and the reply *)

(* measured_len of the inline reply                                        *)
InlineSize(data, headers) == ReplyOverhead + 2 * (headers + ValueCost(data))

(* measured_len of a displaced reply                                       *)
DisplacedSize(retained, headers, preview) ==
  SummaryOverhead + 2 * (headers + TextCost(preview)) + (IF retained THEN LinkCost ELSE 0)

(* text_preview: of a string only, cut before a character                  *)
TextPreview(data) ==
  IF data.is # "string" THEN <<>>
  ELSE Slice(data.bytes, 0, BoundaryBefore(data.bytes, Smaller(MaxPreview, Len(data.bytes))))

(* The ends of the preview's characters, in order.                         *)
Boundaries(s) ==
  LET ends == {i \in 1 .. Len(s) : IsBoundary(s, i)}
  IN [n \in 1 .. Cardinality(ends) |-> CHOOSE i \in ends : Cardinality({j \in ends : j <= i}) = n]

Fits(prefix, kept, headers, ceiling) == DisplacedSize(kept, headers, prefix) <= ceiling

(* Mutant: the search leaves out the last boundary.                        *)
LongestFittingShort(s, headers, ceiling) ==
  LET ends == Boundaries(s)
      f[range \in (0 .. Len(ends)) \X (0 .. Len(ends))] ==
        LET low == range[1]
            high == range[2]
            middle == (low + high) \div 2
        IN IF low >= high THEN IF low = 0 THEN <<>> ELSE Slice(s, 0, ends[low])
           ELSE IF Fits(Slice(s, 0, ends[middle + 1]), TRUE, headers, ceiling)
           THEN f[<<middle + 1, high>>] ELSE f[<<low, middle>>]
  IN f[<<0, Minus(Len(ends), 1)>>]

(* The binary search over the ends of characters for the longest prefix    *)
(* with which the reply fits, measured each time as it would be sent.      *)
LongestFitting(s, headers, ceiling) ==
  LET ends == Boundaries(s)
      f[range \in (0 .. Len(ends)) \X (0 .. Len(ends))] ==
        LET low == range[1]
            high == range[2]
            middle == (low + high) \div 2
        IN IF low >= high THEN IF low = 0 THEN <<>> ELSE Slice(s, 0, ends[low])
           ELSE IF Fits(Slice(s, 0, ends[middle + 1]), TRUE, headers, ceiling)
           THEN f[<<middle + 1, high>>] ELSE f[<<low, middle>>]
  IN f[<<0, Len(ends)>>]

(* bound_response, retention and fit_reply_to_ceiling: the inline reply if *)
(* it fits; otherwise a summary with a handle if the store kept the        *)
(* payload, as much of the preview as fits, and the headers unless even    *)
(* then it does not.                                                       *)
Reply(data, headers, ceiling, kept) ==
  LET preview == IF kept THEN LongestFitting(TextPreview(data), headers, ceiling) ELSE <<>>
      shed == ~Fits(preview, kept, headers, ceiling)
  IN IF InlineSize(data, headers) <= ceiling
     THEN [inline |-> TRUE, data |-> data, headers |-> headers, size |-> InlineSize(data, headers)]
     ELSE [inline |-> FALSE, retained |-> kept, preview |-> preview, headersOmitted |-> shed,
           headers |-> IF shed THEN 0 ELSE headers,
           size |-> DisplacedSize(kept, IF shed THEN 0 ELSE headers, preview)]

(* resource_contents: text if the type says so and the bytes are, else a   *)
(* blob; a document reads as its text.                                     *)
Contents(payload) ==
  [form |-> IF IsTextual(payload.type) /\ (payload.body.is # "bytes" \/ IsUtf8(payload.body.bytes))
            THEN "text" ELSE "blob",
   of |-> payload.body]
=============================================================================
