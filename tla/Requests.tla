------------------------------ MODULE Requests ------------------------------
(***************************************************************************)
(* From a call's arguments to the request that leaves: the check against   *)
(* the generated schema (validate_arguments of lib.rs), the address, query,*)
(* headers and payload (execute.rs), as operators on values.               *)
(*                                                                         *)
(* A JSON value is a record tagged by what it is.  A scalar keeps its text *)
(* as a value of its own; a rendered path segment is the sequence of texts *)
(* it was put together from, a template segment the sequence of its parts, *)
(* <<"literal", text>> or <<"param", name>>.                               *)
(***************************************************************************)
EXTENDS Sequences, SequencesExt, FiniteSets, Naturals

CONSTANT
  Loose  \* of each text that holds tabs or line breaks: the text without them

Stripped(text) == IF text \in DOMAIN Loose THEN Loose[text] ELSE text

Scalar(kind, text) == [is |-> "scalar", kind |-> kind, text |-> text]
Array(items) == [is |-> "array", items |-> items]
Object(content) == [is |-> "object", content |-> content]
Null == [is |-> "null"]
Upload(name, content, media) == Object([name |-> name, content |-> content, media |-> media])

Parameter(name, at, kind, required, format) ==
  [name |-> name, at |-> at, kind |-> kind, required |-> required, format |-> format]

At(o, location) == {p \in ToSet(o.parameters) : p.at = location}
Names(parameters) == {p.name : p \in parameters}

(* What the schema says of an upload: a name and a content, not empty.     *)
FitsUpload(upload) == upload.name \notin {"empty", "long"} /\ upload.content # "empty"

(* Whether a value has the type the schema gives the parameter.            *)
Fits(p, value) ==
  CASE value.is = "scalar" -> p.kind = value.kind
    [] value.is = "array" -> p.kind = "array"
    [] value.is = "object" -> p.kind = "object" \/ (p.kind = "file" /\ FitsUpload(value.content))
    [] value.is = "null" -> FALSE

(* validate_arguments: the schema is closed, and null is no value          *)
SchemaAccepts(o, args) ==
  /\ DOMAIN args \subseteq Names(ToSet(o.parameters))
  /\ \A p \in ToSet(o.parameters) : IF p.name \in DOMAIN args THEN Fits(p, args[p.name]) ELSE ~p.required

-----------------------------------------------------------------------------
(* The address *)

(* Mutant: only an empty value is refused.                                 *)
ValidPathSegmentUnlessEmpty(text) == text # ""

ValidPathSegment(text) == text \notin {"", ".", ".."}

(* scalar_string and validate_path_segment, of one part of a template      *)
Renders(part, args) ==
  part[1] = "param" =>
    /\ part[2] \in DOMAIN args /\ args[part[2]].is = "scalar"
    /\ ValidPathSegment(args[part[2]].text)

Rendered(segment, args) ==
  [i \in DOMAIN segment |-> IF segment[i][1] = "param" THEN args[segment[i][2]].text ELSE segment[i][2]]

(* A segment whose texts, put together, are "." or "..".                   *)
Blank(segment, but) == \A k \in DOMAIN segment \ but : segment[k] = ""
IsDot(segment) == \E j \in DOMAIN segment : segment[j] = "." /\ Blank(segment, {j})
IsDotDot(segment) ==
  \E j, k \in DOMAIN segment :
    /\ (j = k /\ segment[j] = "..") \/ (j # k /\ segment[j] = "." /\ segment[k] = ".")
    /\ Blank(segment, {j, k})

(* The url crate passes over a segment that is "." or "..".  Of any other  *)
(* it leaves out tabs and line breaks: when that makes it ".", it is empty,*)
(* and when it makes it "..", it is empty and the one before it is gone.   *)
Pushed(segments) ==
  LET left == FlattenSeq([i \in DOMAIN segments |->
                IF IsDot(segments[i]) \/ IsDotDot(segments[i]) THEN <<>>
                ELSE <<[j \in DOMAIN segments[i] |-> Stripped(segments[i][j])]>>])
  IN FlattenSeq([i \in DOMAIN left |->
       IF i + 1 \in DOMAIN left /\ IsDotDot(left[i + 1]) THEN <<>>
       ELSE IF IsDot(left[i]) \/ IsDotDot(left[i]) THEN <<<<"">>>> ELSE <<left[i]>>])

(* operation_url                                                           *)
Address(o, args) == Pushed([i \in DOMAIN o.path |-> Rendered(o.path[i], args)])
AddressFails(o, args) == \E i \in DOMAIN o.path : \E j \in DOMAIN o.path[i] : ~Renders(o.path[i][j], args)

-----------------------------------------------------------------------------
(* The query and the headers *)

Separator(format) ==
  CASE format = "ssv" -> " " [] format = "tsv" -> "tab" [] format = "pipes" -> "|" [] OTHER -> ","

ScalarsOnly(value) ==
  IF value.is = "array" THEN \A i \in DOMAIN value.items : value.items[i].is = "scalar" ELSE value.is = "scalar"

(* append_parameter_values: a pair is a name and its value, the texts that *)
(* are put together in it                                                  *)
Pairs(p, value) ==
  IF value.is # "array" THEN <<<<p.name, <<value.text>>>>>>
  ELSE LET texts == [i \in DOMAIN value.items |-> value.items[i].text]
       IN IF p.format = "multi" THEN [i \in DOMAIN texts |-> <<p.name, <<texts[i]>>>>]
          ELSE <<<<p.name, FlattenSeq([i \in DOMAIN texts |-> IF i = 1 THEN <<texts[i]>>
                                                              ELSE <<Separator(p.format), texts[i]>>])>>>>

Present(parameters, args) == {p \in parameters : p.name \in DOMAIN args}

Query(o, args) ==
  LET given == Present(At(o, "query"), args)
  IN FlattenSeq([i \in DOMAIN o.parameters |->
       IF o.parameters[i] \in given THEN Pairs(o.parameters[i], args[o.parameters[i].name]) ELSE <<>>])

QueryFails(o, args) == \E p \in Present(At(o, "query"), args) : ~ScalarsOnly(args[p.name])

Credentials == {"authorization", "cookie"}

HeadersFail(o, args) ==
  \E p \in Present(At(o, "header"), args) : p.name \in Credentials \/ args[p.name].is # "scalar"

Headers(o, args) == {<<p.name, args[p.name].text>> : p \in Present(At(o, "header"), args)}

-----------------------------------------------------------------------------
(* The payload *)

(* file_part: its name, its content and its media type                     *)
FileFails(value) ==
  \/ value.is # "object"
  \/ value.content.name \in {"empty", "long", "control"}
  \/ value.content.content \in {"empty", "garbage", "large"}
  \/ value.content.media = "garbage"

BodyFails(o, args) ==
  \/ \E p, q \in At(o, "body") : p # q
  \/ \E p \in Present(At(o, "body"), args) :
       o.plain /\ ~(args[p.name].is = "scalar" /\ args[p.name].kind = "string")

FormFails(o, args) ==
  \E p \in Present(At(o, "form"), args) :
    IF p.kind = "file" THEN FileFails(args[p.name]) ELSE args[p.name].is # "scalar"

(* apply_payload: a form replaces a body                                   *)
Payload(o, args) ==
  {<<p.name, args[p.name]>> : p \in Present(At(o, IF At(o, "form") # {} THEN "form" ELSE "body"), args)}

-----------------------------------------------------------------------------
(* execute_operation_inner, up to sending *)

Fails(o, args) ==
  ~o.exposed \/ AddressFails(o, args) \/ QueryFails(o, args) \/ HeadersFail(o, args)
  \/ BodyFails(o, args) \/ FormFails(o, args)

Request(o, args) ==
  [method |-> o.method, path |-> Address(o, args), query |-> Query(o, args),
   headers |-> Headers(o, args), payload |-> Payload(o, args)]

-----------------------------------------------------------------------------
(* How the server reads a path: by templates, segment by segment.          *)

ReadBy(template, path) ==
  /\ Len(template) = Len(path)
  /\ \A i \in DOMAIN path :
       /\ Len(template[i]) = Len(path[i])
       /\ \A j \in DOMAIN path[i] : template[i][j][1] = "literal" => path[i][j] = template[i][j][2]

(* What the server takes each parameter of the path to be.                 *)
Bound(template, path) ==
  UNION {{<<template[i][j][2], path[i][j]>> : j \in {k \in DOMAIN path[i] : template[i][k][1] = "param"}}
         : i \in DOMAIN path}
=============================================================================
