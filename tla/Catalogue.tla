----------------------------- MODULE Catalogue -----------------------------
(***************************************************************************)
(* What a session can call: the generated operations (catalog.rs), the     *)
(* hand-written tools and the four lanes (list_tools_payload), the rows of *)
(* the index, and the search and description of them (discovery.rs), as    *)
(* operators on values.                                                    *)
(*                                                                         *)
(* The catalogue is fixed at build time: here it is a constant.  Of a text *)
(* it matters which of a small vocabulary of terms it contains, and whether*)
(* it equals a query of one term; all texts are in lower case.             *)
(***************************************************************************)
EXTENDS Integers, Sequences, SequencesExt, FiniteSets

CONSTANTS
  Operations,   \* the generated operations, exposed or not
  Ledger,       \* compatibility_ledger: unexposed operations and what replaces them
  Texts,        \* of each tool name: the terms its name, id and description contain
  Alphabet,     \* all tool names, in alphabetical order
  TooLong,      \* selectors and queries that exceed their bounds
  DefaultLimit, \* DEFAULT_SEARCH_LIMIT
  None          \* Option::None

-----------------------------------------------------------------------------
(* Operations and lanes *)

(* exposed_operation and exposed_operation_by_id: at most one operation    *)
ByName(name) == {o \in Operations : o.exposed /\ o.tool = name}
ById(id) == {o \in Operations : o.exposed /\ o.id = id}
Find(selector) == IF ByName(selector) # {} THEN ByName(selector) ELSE ById(selector)

Lanes == {"api.read", "api.mutate", "api.destroy", "api.admin"}

(* Mutant: the risk alone decides.                                         *)
LaneOfRisk(o) ==
  CASE o.risk = "read" -> "api.read"
    [] o.risk = "mutation" -> "api.mutate"
    [] o.risk = "destructive" -> "api.destroy"

LaneOf(o) ==
  CASE o.administrative -> "api.admin"
    [] ~o.administrative /\ o.risk = "read" -> "api.read"
    [] ~o.administrative /\ o.risk = "mutation" -> "api.mutate"
    [] ~o.administrative /\ o.risk = "destructive" -> "api.destroy"

-----------------------------------------------------------------------------
(* The hand-written tools: the operation they stand for, their hints and   *)
(* metadata, what they need and take, and whether null is an argument.     *)

Tool(name, id, domain, hints, administrative, sensitive, needs, takes, nulls) ==
  [tool |-> name, id |-> id, domain |-> domain, readOnly |-> hints[1], destructive |-> hints[2],
   administrative |-> administrative, sensitive |-> sensitive,
   needs |-> needs, takes |-> needs \cup takes, nulls |-> nulls]

Reads == <<TRUE, FALSE>>
Mutates == <<FALSE, FALSE>>
Destroys == <<FALSE, TRUE>>

ServerVersion == Tool("server.version", "getVersion", "server", Reads, FALSE, FALSE, {}, {}, {})
TokenCreate ==
  Tool("access_token.create", "userCreateToken", "access_token", Mutates, TRUE, TRUE, {"name", "scopes"}, {}, {})
TokenList ==
  Tool("access_token.list", "userGetTokens", "access_token", Reads, TRUE, FALSE, {}, {"page", "limit"},
       {"page", "limit"})
TokenRevoke ==
  Tool("access_token.revoke", "userDeleteAccessToken", "access_token", Destroys, TRUE, FALSE, {}, {"id", "name"}, {})
BootstrapTool ==
  Tool("repository.bootstrap", "repositoryBootstrap", "repository", Destroys, TRUE, TRUE,
       {"owner", "owner_kind", "repository"},
       {"if_exists", "settings", "topics", "teams", "collaborators", "branch_protections", "access_token",
        "labels", "hooks", "deploy_keys", "actions_variables", "actions_secrets"}, {})
SecretTool ==
  Tool("repository.secret.set_from_file", "updateRepoSecret", "repository", Destroys, FALSE, FALSE,
       {"owner", "repo", "name", "data_file"}, {}, {})
SelectTool ==
  LET optional == {"limit", "text", "context_lines", "pointer", "fields"}
  IN Tool("result.select", None, "result", Reads, FALSE, TRUE, {"uri", "mode"}, optional \cup {"offset"}, optional)
SearchTool ==
  LET optional == {"query", "domain", "risk", "administrative", "limit", "offset"}
  IN Tool("catalog.search", None, "catalog", Reads, FALSE, FALSE, {}, optional, optional)
DescribeTool ==
  Tool("catalog.describe", None, "catalog", Reads, FALSE, FALSE, {},
       {"operation_id", "name", "operation", "tool", "detail"}, {"detail"})

(* list_tools_payload, without the lanes                                   *)
HandWritten ==
  {ServerVersion, TokenCreate, TokenList, TokenRevoke, BootstrapTool, SecretTool,
   SelectTool, SearchTool, DescribeTool}

(* lane_tool: hints for the worst it routes                                *)
LaneTool(lane) ==
  Tool(lane, None, "api",
       CASE lane = "api.read" -> Reads [] lane = "api.mutate" -> Mutates [] OTHER -> Destroys,
       lane = "api.admin", \E o \in Operations : o.exposed /\ LaneOf(o) = lane /\ o.secret,
       {"operation_id"}, {"name", "operation", "tool", "arguments", "args"}, {})

Registered == HandWritten \cup {LaneTool(lane) : lane \in Lanes}

(* The spellings of a selector.                                            *)
Selectors == {"operation_id", "name", "operation", "tool"}

(* Whether a hand-written tool takes the fields it is given: what serde    *)
(* refuses, and what is checked before the tool does anything else.        *)
Accepts(t, given) ==
  /\ t.needs \subseteq DOMAIN given /\ DOMAIN given \subseteq t.takes
  /\ \A f \in DOMAIN given : given[f] = "null" => f \in t.nulls
  /\ t = TokenRevoke => Cardinality(DOMAIN given) = 1
  /\ t = DescribeTool => Cardinality(DOMAIN given \cap Selectors) = 1

(* Mutant: only the name is looked at.                                     *)
HandWrittenNamed(name) == {t \in Registered : t.tool = name}

(* The tool that bears a name, or stands for its operation.                *)
HandWrittenFor(name) == {t \in Registered : t.tool = name \/ (t.id # None /\ t.id = name)}

-----------------------------------------------------------------------------
(* The rows of the index *)

RiskOfHints(t) ==
  CASE t.destructive -> "destructive"
    [] ~t.destructive /\ t.readOnly -> "read"
    [] ~t.destructive /\ ~t.readOnly -> "mutation"

(* Deprecated operations have no row.                                      *)
Listed == {o \in Operations : o.exposed /\ ~o.deprecated}

(* build_index_entries                                                     *)
Entries ==
  {[tool |-> t.tool, id |-> t.id, domain |-> t.domain, risk |-> RiskOfHints(t),
    administrative |-> t.administrative, sensitive |-> t.sensitive, needs |-> t.needs] : t \in HandWritten}
  \cup
  {[tool |-> o.tool, id |-> o.id, domain |-> o.domain, risk |-> o.risk,
    administrative |-> o.administrative, sensitive |-> o.secret, needs |-> o.needs] : o \in Listed}

(* match_row                                                               *)
ExecutionTool(entry) ==
  IF entry.id # None /\ ById(entry.id) # {} THEN LaneOf(CHOOSE o \in ById(entry.id) : TRUE) ELSE entry.tool

Row(entry) ==
  [tool |-> entry.tool, id |-> entry.id, execution |-> ExecutionTool(entry), risk |-> entry.risk,
   administrative |-> entry.administrative, needs |-> entry.needs]

-----------------------------------------------------------------------------
(* Search: a query is a sequence of terms *)

InName(entry, term) == term \in Texts[entry.tool].name
InId(entry, term) == term \in Texts[entry.tool].id
InDescription(entry, term) == term \in Texts[entry.tool].description

Aliases == {"pr", "prs", "ci"}
AliasMatches(entry, term) ==
  IF term = "ci" THEN entry.domain = "actions" \/ InId(entry, "actions")
  ELSE InDescription(entry, "pull request") \/ InName(entry, "pull_request")

NameMatches(entry, term) ==
  IF term \in Aliases THEN AliasMatches(entry, term)
  ELSE InName(entry, term) \/ InId(entry, term) \/ entry.domain = term

Matches(query, entry) ==
  \A i \in DOMAIN query :
    NameMatches(entry, query[i]) \/ (query[i] \notin Aliases /\ InDescription(entry, query[i]))

(* A query of one term may be a whole name, or part of one.                *)
Rank(query, entry) ==
  LET single == Len(query) = 1
  IN IF query = <<>> THEN 3
     ELSE IF single /\ query[1] \in {entry.tool} \cup Texts[entry.tool].wholeId THEN 0
     ELSE IF single /\ InName(entry, query[1]) /\ query[1] \notin Aliases THEN 1
     ELSE IF \A i \in DOMAIN query : NameMatches(entry, query[i]) THEN 2 ELSE 3

Filtered(args) ==
  {e \in Entries : /\ args.domain # None => e.domain = args.domain
                   /\ args.risk # None => e.risk = args.risk
                   /\ args.administrative # None => e.administrative = args.administrative
                   /\ Matches(args.query, e)}

Place(tool) == CHOOSE i \in DOMAIN Alphabet : Alphabet[i] = tool

(* By rank, then by name.                                                  *)
Before(query, e, f) ==
  \/ Rank(query, e) < Rank(query, f)
  \/ Rank(query, e) = Rank(query, f) /\ Place(e.tool) < Place(f.tool)

Ranked(args) ==
  LET matching == Filtered(args)
      ahead == [e \in matching |-> Cardinality({f \in matching : Before(args.query, f, e)})]
  IN [i \in 1 .. Cardinality(matching) |-> CHOOSE e \in matching : ahead[e] = i - 1]

Domains == {e.domain : e \in Entries}

(* Mutant: the page is cut before the offset is skipped.                   *)
PageTakesFirst(ranked, offset, limit) ==
  LET first == SubSeq(ranked, 1, IF limit < Len(ranked) THEN limit ELSE Len(ranked))
  IN SubSeq(first, offset + 1, Len(first))

Page(ranked, offset, limit) ==
  SubSeq(ranked, offset + 1, IF offset + limit < Len(ranked) THEN offset + limit ELSE Len(ranked))

(* validated_limit and search                                              *)
Search(args, offset) ==
  LET limit == IF args.limit = None THEN DefaultLimit ELSE args.limit
      ranked == Ranked(args)
      page == Page(ranked, offset, limit)
  IN IF limit = 0 \/ args.risk \notin {None, "read", "mutation", "destructive"}
        \/ ToSet(args.query) \cap TooLong # {}
        \/ (args.domain # None /\ args.domain \notin Domains)
     THEN [ok |-> FALSE]
     ELSE [ok |-> TRUE, total |-> Len(ranked), rows |-> [i \in DOMAIN page |-> Row(page[i])],
           domains |-> ranked = <<>>, hint |-> offset >= Len(ranked)]

-----------------------------------------------------------------------------
(* Descriptions *)

(* The names describe and the lanes suggest for an unknown one are the     *)
(* nearest of these.                                                       *)
Suggestible == UNION {{o.tool, o.id} : o \in Listed}

(* describe: an operation first, then a hand-written tool                  *)
Describe(name) ==
  LET found == Find(name)
      tools == HandWrittenFor(name)
      o == CHOOSE x \in found : TRUE
      t == CHOOSE x \in tools : TRUE
  IN IF name \in TooLong THEN [ok |-> FALSE, nearest |-> {}]
     ELSE IF found # {}
     THEN [ok |-> TRUE, tool |-> o.tool, id |-> o.id, execution |-> LaneOf(o), risk |-> o.risk,
           administrative |-> o.administrative, needs |-> o.needs]
     ELSE IF tools # {} THEN [ok |-> TRUE, tool |-> t.tool, id |-> t.id, execution |-> t.tool,
                              risk |-> RiskOfHints(t), administrative |-> t.administrative,
                              needs |-> t.needs]
     ELSE [ok |-> FALSE, nearest |-> Suggestible \cup ((UNION {{h.tool, h.id} : h \in Registered}) \ {None})]
-----------------------------------------------------------------------------
(* What holds of the catalogue and of the tools beside it.                 *)

Exposed == {o \in Operations : o.exposed}

ASSUME CatalogueAssumption ==
  /\ DefaultLimit \in Nat \ {0}
  /\ \A o \in Operations :
       o.risk \in {"read", "mutation", "destructive"} /\ {o.exposed, o.administrative} \subseteq BOOLEAN
  /\ \A o, p \in Exposed : {o.tool, o.id} \cap {p.tool, p.id} # {} => o = p
  /\ \A o \in Exposed : {o.tool, o.id} \cap {t.tool : t \in Registered} = {}
  /\ \A o \in Exposed, t \in HandWritten :           \* a tool that stands for an exposed operation
       t.id \in {o.tool, o.id} => RiskOfHints(t) = o.risk /\ t.administrative = o.administrative
  /\ \A o \in Operations \ Exposed : \E e \in Ledger : e.id = o.id /\ e.tool = o.tool
  /\ \A e \in Ledger : \E t \in HandWritten : t.tool = e.replacement /\ t.id = e.id
  /\ ({None} \cup TooLong) \cap ((UNION {{o.tool, o.id} : o \in Operations}) \cup {t.tool : t \in Registered}) = {}
  /\ None \notin Nat \cup TooLong
  /\ Len(Alphabet) \in Nat /\ DOMAIN Alphabet = 1 .. Len(Alphabet)
  /\ {e.tool : e \in Entries} \subseteq {Alphabet[i] : i \in DOMAIN Alphabet}
=============================================================================
