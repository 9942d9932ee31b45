------------------------------- MODULE Tokens -------------------------------
(***************************************************************************)
(* The access tokens of the configured user, as this server's clients see  *)
(* and change them: create, list and revoke (token.rs), the evidence that a*)
(* listing is complete (pagination.rs), the search for a token by name     *)
(* (find_access_token of bootstrap.rs) and the reading of a whole inventory*)
(* (load_inventory of extensions.rs), which pages in the same way.         *)
(*                                                                         *)
(* Gitea lists tokens newest first, in pages it may cap below the limit    *)
(* asked for, or make larger than it.  Others create and revoke tokens     *)
(* while a reader is between two pages.                                    *)
(***************************************************************************)
EXTENDS Recency, Sequences

CONSTANTS
  TokenNames,   \* names of tokens
  Number,       \* of each name that is a decimal number, signed or not: its value
  Caps,         \* the sizes Gitea's pages may have, whatever was asked for
  Styles,       \* the continuation headers Gitea, or a proxy before it, may send
  Limit,        \* the page size asked for (100)
  MaxResults,   \* MAX_TOKEN_RESULTS
  MaxPages,     \* MAX_TOKEN_SEARCH_PAGES
  MaxItems,     \* MAX_ITEMS
  MaxLinks,     \* MAX_LINKS
  MaxToken,     \* bound on the identifiers of tokens
  Nothing,      \* Option::None
  Null          \* a null in JSON

VARIABLES
  gitea,     \* the tokens, and the size of its pages
  nextToken, \* the identifier of the next token
  reader,    \* who reads the list page by page
  revoked    \* the revocation of the last step: what was asked, which tokens it deleted

vars == <<gitea, nextToken, reader, revoked>>

Idle ==
  [is |-> "idle", page |-> 1, seen |-> {}, count |-> 0, target |-> Nothing, verdict |-> "none", style |-> Nothing,
   start |-> {}, shifted |-> FALSE]

Init ==
  /\ \E cap \in Caps : gitea = [tokens |-> {}, cap |-> cap]
  /\ nextToken = 1 /\ reader = Idle /\ revoked = Nothing

TokenIds(tokens) == {t.id : t \in tokens}

-----------------------------------------------------------------------------
(* Gitea's pages and headers *)

PageAt(p) == Slice(gitea.tokens, (p - 1) * gitea.cap, p * gitea.cap)
LastPage == (Cardinality(gitea.tokens) + gitea.cap - 1) \div gitea.cap

Link(same, page, relations) == [same |-> same, page |-> page, relations |-> relations]

(* Gitea links, or a proxy's: to another place, or back to an earlier page.*)
HeadersAt(p) ==
  LET forward == IF p < LastPage THEN <<Link(TRUE, p + 1, {"next"}), Link(TRUE, LastPage, {"last"})>> ELSE <<>>
      back == IF p > 1 THEN <<Link(TRUE, 1, {"first"}), Link(TRUE, p - 1, {"prev"})>> ELSE <<>>
      more == IF p < LastPage THEN "true" ELSE "false"
  IN CASE reader.style = "plain" -> [links |-> <<>>, hasMore |-> <<>>]
       [] reader.style = "links" -> [links |-> forward \o back, hasMore |-> <<>>]
       [] reader.style = "has more" -> [links |-> <<>>, hasMore |-> <<more>>]
       [] reader.style = "twice" -> [links |-> <<>>, hasMore |-> <<more, "false">>]
       [] reader.style = "foreign" -> [links |-> <<Link(FALSE, p, {"last"})>>, hasMore |-> <<>>]
       [] reader.style = "back" -> [links |-> <<Link(TRUE, p, {"next", "last"})>>, hasMore |-> <<>>]

-----------------------------------------------------------------------------
(* Pagination::from_headers and observe_empty_page *)

(* continuation_links: one entry that does not fit spoils them all.        *)
LinksFit(links, current) ==
  /\ links # <<>> /\ Len(links) <= MaxLinks
  /\ \A i \in DOMAIN links :
       /\ links[i].same /\ links[i].page > 0
       /\ "next" \in links[i].relations =>
            links[i].page > current /\ \A j \in 1..(i - 1) : "next" \notin links[j].relations
       /\ "last" \in links[i].relations =>
            links[i].page >= current /\ \A j \in 1..(i - 1) : "last" \notin links[j].relations

Related(links, relation) ==
  LET those == {i \in DOMAIN links : relation \in links[i].relations}
  IN IF those = {} THEN Nothing ELSE links[CHOOSE i \in those : TRUE].page

(* single_header: a repeated header says nothing                           *)
HasMore(headers) ==
  IF Len(headers.hasMore) = 1 /\ headers.hasMore[1] \in {"true", "false"} THEN headers.hasMore[1] ELSE Nothing

NextPage(headers, current) ==
  LET linked == IF LinksFit(headers.links, current) THEN Related(headers.links, "next") ELSE Nothing
  IN IF linked # Nothing THEN linked ELSE IF HasMore(headers) = "true" THEN current + 1 ELSE Nothing

Complete(headers, current, empty) ==
  /\ NextPage(headers, current) = Nothing
  /\ \/ HasMore(headers) = "false"
     \/ LinksFit(headers.links, current) /\ Related(headers.links, "last") = current
     \/ empty

-----------------------------------------------------------------------------
(* Names *)

(* Mutant: only unsigned numbers are told from names.                      *)
ValidTokenNameUnsigned(name) == name \notin {n \in DOMAIN Number : ~Number[n].signed}

(* validate_token_name                                                     *)
ValidTokenName(name) == name \notin DOMAIN Number

-----------------------------------------------------------------------------
(* The readers *)

Start(is, target, style) ==
  /\ reader.verdict # "reading"
  /\ reader' = [Idle EXCEPT !.is = is, !.target = target, !.style = style, !.verdict = "reading",
                           !.start = TokenIds(gitea.tokens)]
  /\ revoked' = Nothing /\ UNCHANGED <<gitea, nextToken>>

StartFind == \E name \in TokenNames : ValidTokenName(name) /\ Start("find", name, Nothing)
StartLoad == Start("load", Nothing, Nothing)
StartList == \E style \in Styles : Start("list", Nothing, style)

Reading(is) == reader.is = is /\ reader.verdict = "reading"

(* Mutant: a page shorter than asked for is taken for the last.            *)
ExhaustedWhenShort(items) == Cardinality(items) < Limit

Exhausted(items) == items = {}

Read(items, verdict, page) ==
  reader' = [reader EXCEPT !.seen = @ \cup TokenIds(items), !.count = @ + Cardinality(items), !.verdict = verdict,
                           !.page = page]

(* find_access_token, one page                                             *)
FindPage ==
  /\ Reading("find")
  /\ LET items == PageAt(reader.page)
         found == \E t \in items : t.name = reader.target
     IN Read(items,
          IF Cardinality(items) > MaxResults THEN "refused"
          ELSE IF Exhausted(items) /\ ~found THEN "absent"
          ELSE IF found THEN "found"
          ELSE IF reader.page = MaxPages THEN "bound" ELSE "reading", reader.page + 1)
  /\ revoked' = Nothing /\ UNCHANGED <<gitea, nextToken>>

(* load_inventory, one page                                                *)
LoadPage ==
  /\ Reading("load")
  /\ LET items == PageAt(reader.page)
     IN Read(items,
          IF Exhausted(items) THEN "complete"
          ELSE IF reader.count + Cardinality(items) > MaxItems \/ reader.page = MaxItems + 1 THEN "bound"
          ELSE "reading", reader.page + 1)
  /\ revoked' = Nothing /\ UNCHANGED <<gitea, nextToken>>

(* list_page by a client who follows next_page, or asks for the page after *)
(* when nothing is said, until the answer is complete.                     *)
ListPage ==
  /\ Reading("list") /\ reader.page <= MaxPages
  /\ LET items == PageAt(reader.page)
         headers == HeadersAt(reader.page)
         next == NextPage(headers, reader.page)
     IN Read(items,
          IF Cardinality(items) > MaxResults THEN "refused"
          ELSE IF Complete(headers, reader.page, items = {}) THEN "complete" ELSE "reading",
          IF next = Nothing THEN reader.page + 1 ELSE next)
  /\ revoked' = Nothing /\ UNCHANGED <<gitea, nextToken>>

(* A page is refused, or its answer is lost: what was read is dropped.     *)
PageFails ==
  /\ reader.verdict = "reading"
  /\ reader' = [Idle EXCEPT !.verdict = "failed"]
  /\ revoked' = Nothing /\ UNCHANGED <<gitea, nextToken>>

-----------------------------------------------------------------------------
(* Creating and revoking *)

(* What a reader concluded stands until the list changes.                  *)
Kept == IF reader.verdict = "reading" THEN reader ELSE Idle

Added(name) ==
  /\ nextToken <= MaxToken
  /\ gitea' = [gitea EXCEPT !.tokens = @ \cup {[id |-> nextToken, name |-> name]}]
  /\ nextToken' = nextToken + 1

(* Gitea refuses a name that is taken.                                     *)
Create ==
  /\ \E name \in TokenNames :
       ValidTokenName(name) /\ name \notin {t.name : t \in gitea.tokens} /\ Added(name)
  /\ revoked' = Nothing /\ reader' = Kept

(* A token made elsewhere may have any name.                               *)
CreateElsewhere ==
  /\ \E name \in TokenNames : name \notin {t.name : t \in gitea.tokens} /\ Added(name)
  /\ revoked' = Nothing /\ reader' = Kept

(* Gitea reads a number as an identifier, anything else as a name.         *)
Deleted(segment) ==
  {t \in gitea.tokens : IF segment \in DOMAIN Number THEN t.id = Number[segment].value ELSE t.name = segment}

(* What a caller may give as the identifier and as the name of a token:    *)
(* nothing, null, or a value.  reject_null_selectors, into_selector and    *)
(* TokenLifecycleClient::revoke, which writes an identifier as a number.   *)
Selected(id, name) ==
  IF Null \in {id, name} \/ (id = Nothing) = (name = Nothing) THEN Nothing
  ELSE IF id # Nothing THEN [id |-> id] ELSE IF ValidTokenName(name) THEN [name |-> name] ELSE Nothing

Writes(selector) ==
  IF "name" \in DOMAIN selector THEN selector.name
  ELSE CHOOSE text \in DOMAIN Number : ~Number[text].signed /\ Number[text].value = selector.id

(* What Gitea has no token for it refuses, and nothing changes.            *)
Revoke ==
  /\ \E id \in {Nothing, Null} \cup {Number[n].value : n \in DOMAIN Number},
        name \in {Nothing, Null} \cup TokenNames :
       LET selector == Selected(id, name)
           gone == Deleted(Writes(selector))
       IN /\ selector # Nothing /\ gone # {}
          /\ gitea' = [gitea EXCEPT !.tokens = @ \ gone]
          /\ revoked' = [id |-> id, name |-> name, gone |-> gone]
          /\ reader' = [Kept EXCEPT !.shifted = TRUE]
  /\ UNCHANGED nextToken

Next ==
  \/ StartFind \/ StartLoad \/ StartList \/ FindPage \/ LoadPage \/ ListPage \/ PageFails
  \/ Create \/ CreateElsewhere \/ Revoke

Spec == Init /\ [][Next]_vars

-----------------------------------------------------------------------------
(* Properties *)

(* What a reader concludes from the end of a list holds of all of it: a    *)
(* search that ends absent, an inventory read to its end and a listing     *)
(* reported complete have seen every token that was there when they began, *)
(* as long as none was removed meanwhile (find_access_token,               *)
(* load_inventory, Pagination).                                            *)
AbsenceProved ==
  (reader.verdict \in {"absent", "complete"} /\ ~reader.shifted) =>
    /\ reader.start \subseteq reader.seen
    /\ reader.verdict = "absent" =>
         \A t \in gitea.tokens : t.id \in reader.start => t.name # reader.target

(* A revocation deletes at most one token, and only the one whose name or  *)
(* identifier was the single selector given: a name is never read as an    *)
(* identifier (validate_token_name, reject_null_selectors).                *)
RevokesTheNamed ==
  revoked # Nothing =>
    /\ Cardinality(revoked.gone) <= 1
    /\ \A t \in revoked.gone :
         \/ revoked.id = t.id /\ revoked.name = Nothing
         \/ revoked.name = t.name /\ revoked.id = Nothing
=============================================================================
