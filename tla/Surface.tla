------------------------------ MODULE Surface -------------------------------
(***************************************************************************)
(* A client meets the tool surface: it pages through a search, reads a row *)
(* or a description, calls a tool, and does what a refusal tells it to     *)
(* (invoke_tool and lane_result of lib.rs, lanes.rs, discovery.rs).        *)
(*                                                                         *)
(* The client looks at one thing at a time: a search, or a chain of calls  *)
(* where each follows the pointer of the one before.                       *)
(***************************************************************************)
EXTENDS Catalogue, Requests

CONSTANTS
  Queries,   \* the searches a client makes: their arguments but the offset
  Unknown,   \* names that nothing bears
  Tries,     \* of each operation: the arguments a client gives it
  Spellings  \* the sets of fields a client gives a lane

(* An exposed operation is as the generator writes it: its parameters have *)
(* names of their own, the path holds each of its path parameters and no   *)
(* others, a segment of it holds one or is a text other than "." and "..", *)
(* an array of the query has a pair for each item, and it has a body or a  *)
(* form.  The arguments are JSON: a scalar has a text, an array is a       *)
(* sequence.                                                               *)
ASSUME SurfaceAssumption ==
  /\ \A args \in Queries : args.limit \in Nat \cup {None}
  /\ \A o \in Exposed :
       /\ o.parameters \in Seq(ToSet(o.parameters)) /\ o.path \in Seq(Seq({"literal", "param"} \X STRING))
       /\ \A i, j \in DOMAIN o.parameters : o.parameters[i].name = o.parameters[j].name => i = j
       /\ {part[2] : part \in {x \in UNION {ToSet(o.path[i]) : i \in DOMAIN o.path} : x[1] = "param"}}
            = Names(At(o, "path"))
       /\ \A i \in DOMAIN o.path :
            /\ \A part \in ToSet(o.path[i]) : part[1] = "literal" => part[2] \notin DOMAIN Loose
            /\ \/ \E part \in ToSet(o.path[i]) : part[1] = "param"
               \/ Len(o.path[i]) = 1 /\ o.path[i][1][2] \notin {"", ".", ".."}
       /\ \A p \in At(o, "query") : p.kind = "array" => p.format = "multi"
       /\ At(o, "body") = {} \/ At(o, "form") = {}
  /\ \A o \in Exposed : \A args \in Tries[o.id] : \A name \in DOMAIN args :
       LET value == args[name]
       IN /\ value.is = "scalar" => value.text \in STRING
          /\ value.is = "array" =>
               /\ value.items \in Seq(ToSet(value.items))
               /\ \A item \in ToSet(value.items) : item.is = "scalar" => item.text \in STRING

VARIABLES
  paging,      \* the search: its arguments, the next offset, the rows shown
  call       \* the last call of a chain, and its answer

vars == <<paging, call>>

Ids(tools) == {t.id : t \in tools} \ {None}

(* Names a client may hold: those of the catalogue, and unknown ones.      *)
Names_ ==
  (UNION {{o.tool, o.id} : o \in Operations}) \cup {t.tool : t \in Registered} \cup Ids(Registered)
  \cup Unknown \cup TooLong

-----------------------------------------------------------------------------
(* Answers: each says why it ended so, which tool and name it points to,   *)
(* and the request that left.                                              *)

Answer(why) == [why |-> why, tool |-> None, name |-> None, sent |-> None, operation |-> None]
Pointing(why, tool, name) == [Answer(why) EXCEPT !.tool = tool, !.name = name]

Unresolved == {"long", "lane", "tool", "replaced", "unknown", "misplaced", "operation", "not found"}

TheOne(set) == CHOOSE x \in set : TRUE

LedgerFor(name) == {e \in Ledger : name \in {e.id, e.tool, e.replacement}}

(* The refusals of resolve, in their order, or "resolved".                 *)
Resolve(lane, name) ==
  LET found == Find(name)
  IN CASE name \in TooLong -> Answer("long")
       [] name \notin TooLong /\ found # {} ->
            LET o == TheOne(found)
            IN IF LaneOf(o) # lane THEN Pointing("misplaced", LaneOf(o), o.tool)
               ELSE [Answer("resolved") EXCEPT !.operation = o]
       [] name \notin TooLong /\ found = {} /\ name \in Lanes -> Answer("lane")
       [] OTHER ->
            IF HandWrittenFor(name) # {} THEN Pointing("tool", TheOne(HandWrittenFor(name)).tool, None)
            ELSE IF LedgerFor(name) # {} THEN Pointing("replaced", TheOne(LedgerFor(name)).replacement, None)
            ELSE Answer("unknown")

(* LaneArguments: one spelling of the name, at most one of the arguments   *)
LaneArguments(fields) ==
  /\ fields \subseteq Selectors \cup {"arguments", "args"}
  /\ Cardinality(fields \cap Selectors) = 1 /\ Cardinality(fields \cap {"arguments", "args"}) <= 1

(* lane_result, up to the request: of an operation its lane resolved       *)
Carry(o, given) ==
  LET answer == [Answer("sent") EXCEPT !.operation = o]
  IN IF ~SchemaAccepts(o, given) THEN [answer EXCEPT !.why = "schema"]
     ELSE IF Fails(o, given) THEN [answer EXCEPT !.why = "not sent"]
     ELSE [answer EXCEPT !.sent = [request |-> Request(o, given), args |-> given]]

LaneResult(lane, fields, name, args) ==
  LET resolved == Resolve(lane, name)
      given == IF fields \cap {"arguments", "args"} = {} THEN <<>> ELSE args
  IN IF ~LaneArguments(fields) THEN Answer("fields")
     ELSE IF resolved.why # "resolved" THEN resolved
     ELSE TheOne({Carry(o, given) : o \in Find(name)})

(* invoke_tool: hand-written tools, then lanes, then the operations' names *)
InvokeTool(tool, fields, name, args) ==
  LET own == {t \in HandWritten : t.tool = tool}
  IN IF own # {}
     THEN Answer(IF Accepts(TheOne(own), [f \in fields |-> "given"]) THEN "done" ELSE "fields")
     ELSE IF tool \in Lanes THEN LaneResult(tool, fields, name, args)
     ELSE IF ByName(tool) # {} THEN Pointing("operation", LaneOf(TheOne(ByName(tool))), tool)
     ELSE Answer("not found")

-----------------------------------------------------------------------------
(* A client *)

Init == paging = None /\ call = None

SearchStart ==
  /\ paging = None /\ call = None
  /\ \E args \in Queries : paging' = [args |-> args, offset |-> 0, shown |-> <<>>, done |-> FALSE]
  /\ UNCHANGED call

(* The next page, from the offset after the rows shown so far.             *)
SearchNext ==
  /\ paging # None /\ ~paging.done
  /\ LET page == Search(paging.args, paging.offset)
     IN paging' = IF ~page.ok THEN [paging EXCEPT !.done = TRUE]
                ELSE [paging EXCEPT !.shown = @ \o page.rows, !.offset = @ + Len(page.rows),
                                  !.done = page.rows = <<>>]
  /\ UNCHANGED call

(* What a row or a description announces of the name it is about.          *)
Told(entry) ==
  [tool |-> entry.tool, execution |-> entry.execution, risk |-> entry.risk,
   administrative |-> entry.administrative]

(* A chain of calls: how it began and with which name, and where it is.    *)
Chain(via, first, told, tool, name, answer) ==
  [via |-> via, first |-> first, hops |-> 0, told |-> told, tool |-> tool, name |-> name, answer |-> answer]

NameOf(entry) == IF entry.id = None THEN entry.tool ELSE entry.id

TakeRow ==
  /\ paging # None /\ call = None
  /\ \E i \in DOMAIN paging.shown :
       LET row == paging.shown[i]
       IN call' = Chain("row", row.tool, Told(row), row.execution, NameOf(row),
                        Pointing("row", row.execution, NameOf(row)))
  /\ paging' = None

(* Describe a name: the client keeps what it is told, or tries a nearest.  *)
DescribeName ==
  /\ paging = None /\ call = None
  /\ \E name \in Names_ :
       LET description == Describe(name)
       IN \/ /\ description.ok
             /\ call' = Chain("description", name, Told(description), description.execution, NameOf(description),
                              Pointing("description", description.execution, NameOf(description)))
          \/ \E near \in IF description.ok THEN {} ELSE {n \in description.nearest : Describe(n).ok} :
               LET found == Describe(near)
               IN call' = Chain("description", near, Told(found), found.execution, NameOf(found),
                                Pointing("description", found.execution, NameOf(found)))
  /\ UNCHANGED paging

ArgumentsFor(name) == IF Find(name) = {} THEN {<<>>} ELSE Tries[TheOne(Find(name)).id]

(* Call a tool; a lane with a name and arguments.                          *)
Call ==
  /\ paging = None /\ call = None
  /\ \E tool \in Names_ :
       \/ /\ tool \in Lanes
          /\ \E name \in Names_ : \E fields \in Spellings, args \in ArgumentsFor(name) :
               call' = Chain("call", name, None, tool, name, InvokeTool(tool, fields, name, args))
       \/ /\ tool \notin Lanes
          /\ \E fields \in {TheOne({t \in Registered : t.tool = x}).needs :
                              x \in {tool} \cap {t.tool : t \in Registered}} \cup {{"name", "id"}, {}} :
               call' = Chain("call", tool, None, tool, None, InvokeTool(tool, fields, None, <<>>))
  /\ UNCHANGED paging

(* The fields a client gives a tool it was pointed to, as its schema and   *)
(* description ask.                                                        *)
FieldsOf(tool) ==
  CASE tool \in Lanes -> {"operation_id", "arguments"}
    [] tool = TokenRevoke.tool -> {"id"}
    [] tool = DescribeTool.tool -> {"operation_id"}
    [] OTHER -> TheOne({t \in HandWritten : t.tool = tool}).needs

(* Do what the last answer points to.                                      *)
Follow ==
  /\ call # None
  /\ \E to \in {call.answer.tool} \ {None}, name \in {call.answer.name} :
       \E fields \in {FieldsOf(to)}, args \in ArgumentsFor(name) :
         call' = [call EXCEPT !.hops = @ + 1, !.tool = to, !.name = name,
                              !.answer = InvokeTool(to, fields, name, args)]
  /\ UNCHANGED paging

(* An unknown name: the nearest ones come with the refusal.                *)
FollowNearest ==
  /\ call # None /\ call.answer.why = "unknown"
  /\ \E to \in {call.tool}, near \in Suggestible :
       \E fields \in {FieldsOf(to)}, args \in ArgumentsFor(near) :
         call' = [call EXCEPT !.first = near, !.hops = 0, !.name = near,
                              !.answer = InvokeTool(to, fields, near, args)]
  /\ UNCHANGED paging

(* The client turns to something else.                                     *)
Forget ==
  /\ paging # None \/ call # None
  /\ paging' = None /\ call' = None

Next ==
  SearchStart \/ SearchNext \/ TakeRow \/ DescribeName \/ Call \/ Follow \/ FollowNearest \/ Forget

Spec == Init /\ [][Next]_vars

-----------------------------------------------------------------------------
(* Properties *)

(* Of a lane call that was sent: the lane publishes hints for at least what*)
(* the operation does, administrative operations run in the administrative *)
(* lane only, and a row or description that led there told its risk        *)
(* (lane_of, lane_tool, resolve and match_row agree).                      *)
LaneKeepsRisk ==
  (call # None /\ call.answer.why = "sent") =>
    LET o == call.answer.operation
        lane == LaneTool(call.tool)
    IN /\ lane.readOnly => o.risk = "read"
       /\ o.risk = "destructive" => lane.destructive
       /\ o.administrative = lane.administrative
       /\ o.secret => lane.sensitive
       /\ call.told # None => call.told.risk = o.risk /\ call.told.administrative = o.administrative

(* A name of the catalogue, of a hand-written tool or of the ledger, handed*)
(* to a lane, and the name of an operation called as a tool, are never a   *)
(* dead end: the refusal points somewhere, one step on is not refused for  *)
(* its name, and what it reaches bears the name the client began with, or  *)
(* replaces what bore it (resolve, describe, the end of invoke_tool).      *)
Serves(name, tool, operation) ==
  IF Find(name) # {} THEN operation = TheOne(Find(name))
  ELSE \E t \in HandWritten :
         t.tool = tool /\ (name \in {t.tool, t.id} \/ \E e \in LedgerFor(name) : t.id = e.id)

GuidanceLeadsHome ==
  (call # None /\ call.via # "row" /\ call.first \notin Unknown \cup TooLong \cup Lanes) =>
    /\ (call.tool \in Lanes /\ call.answer.why \in Unresolved) => call.answer.tool # None
    /\ (\E o \in Operations : o.exposed /\ o.tool = call.tool) => call.answer.tool # None
    /\ call.hops > 0 => /\ call.answer.why \notin Unresolved \cup {"fields"}
                        /\ Serves(call.first, call.tool, call.answer.operation)

(* What leaves is the operation's own request: every argument is in the    *)
(* query, the headers or the payload, whole, and the server reads its path *)
(* by the operation's template and takes every parameter to be the argument*)
(* given, less the tabs and line breaks that the url crate leaves out,     *)
(* unless an argument of the path holds some and is nothing, "." or ".."   *)
(* without them (operation_url, validate_path_segment, apply_query,        *)
(* apply_payload).                                                         *)
Keeps(text) == text \in DOMAIN Loose => Stripped(text) \notin {"", ".", ".."}

TextsOf(value) == IF value.is = "array" THEN [i \in DOMAIN value.items |-> value.items[i].text] ELSE <<value.text>>

RequestFaithful ==
  (call # None /\ call.answer.why = "sent") =>
    LET o == call.answer.operation
        r == call.answer.sent.request
        args == call.answer.sent.args
        given(at) == Names(At(o, at)) \cap DOMAIN args
        carried(p) == FlattenSeq([i \in DOMAIN r.query |-> IF r.query[i][1] = p THEN r.query[i][2] ELSE <<>>])
    IN /\ r.method = o.method
       /\ (\A p \in given("path") : Keeps(args[p].text)) =>
            /\ ReadBy(o.path, r.path)
            /\ Bound(o.path, r.path) = {<<p, Stripped(args[p].text)>> : p \in given("path")}
       /\ \A p \in given("query") : carried(p) = TextsOf(args[p])
       /\ \A i \in DOMAIN r.query : r.query[i][1] \in given("query")
       /\ r.headers = {<<p, args[p].text>> : p \in given("header")}
       /\ r.payload = {<<p, args[p]>> : p \in given("body") \cup given("form")}

(* A search walked by its offset to the end shows every row that matches,  *)
(* once (search: the order is total and the page starts at the offset).    *)
SearchShowsAll ==
  (paging # None /\ paging.done /\ Search(paging.args, 0).ok) =>
    /\ ToSet(paging.shown) = {Row(e) : e \in Filtered(paging.args)}
    /\ Len(paging.shown) = Cardinality(Filtered(paging.args))

(* docs/operations.md: a row's execution tool is the tool to call, and a   *)
(* hand-written tool names itself.                                         *)
HandWrittenNamesItself ==
  (call # None /\ call.via = "row" /\ call.first \in {t.tool : t \in HandWritten}) => call.tool = call.first
=============================================================================
