------------------------------- MODULE Client -------------------------------
(***************************************************************************)
(* One client of the server and what it may be doing: find and call tools  *)
(* (Surface), page through its retained payloads (Listing), look after     *)
(* access tokens (Tokens), or read why a request was refused (Refusals).   *)
(* They share no state, so a client does one of them.                      *)
(***************************************************************************)
EXTENDS Surface

CONSTANTS
  Walks, PageSize, MaxEntries, TTL, MaxId, MaxTime, NoCursor,                      \* of Listing
  TokenNames, Number, Caps, Styles, Limit, MaxResults, MaxPages, MaxItems,         \* of Tokens
  MaxLinks, MaxToken, Nothing, Null_,
  Reasons, Given, Configured, Logins, Sensitive, MaxDepth, MaxBody, MaxReason      \* of Refusals

ASSUME ClientAssumption ==
  /\ {PageSize, MaxEntries, MaxId, MaxTime, Limit, MaxResults, MaxPages, MaxItems, DefaultLimit,
     MaxDepth, MaxBody, MaxReason} \subseteq Nat \ {0}
  /\ TTL \in Nat /\ NoCursor \notin Nat /\ Nothing \notin Nat \cup {"true", "false"} /\ Caps \subseteq Nat \ {0}
  /\ Styles \subseteq {"plain", "links", "has more", "twice", "foreign", "back"}
  /\ \A n \in DOMAIN Number :                    \* an identifier is written without a sign
       \E text \in DOMAIN Number : ~Number[text].signed /\ Number[text].value = Number[n].value

VARIABLES
  doing,                                  \* which of these
  clock, order, nextId, walk, present,    \* of Listing
  gitea, nextToken, reader, revoked,      \* of Tokens
  refusal                                 \* of Refusals

listing == <<clock, order, nextId, walk, present>>
tokens == <<gitea, nextToken, reader, revoked>>

L == INSTANCE Listing
T == INSTANCE Tokens WITH Null <- Null_
R == INSTANCE Refusals

(* What Gitea writes and what is secret are texts.                         *)
ASSUME TextsAssumption ==
  /\ Reasons \subseteq Seq(STRING)
  /\ \A arguments \in Given, token \in Configured : R!OperationSecrets(arguments, token) \in Seq(Seq(STRING))
  /\ \A login \in Logins : R!LoginSecrets(login) \in Seq(Seq(STRING))

ClientInit ==
  /\ doing \in {"tools", "listing", "tokens", "refused"}
  /\ Init /\ L!Init /\ T!Init /\ refusal = R!Unanswered

Tools == doing = "tools" /\ Next /\ UNCHANGED <<doing, listing, tokens, refusal>>
Lists == doing = "listing" /\ L!Next /\ UNCHANGED <<doing, vars, tokens, refusal>>
Looks == doing = "tokens" /\ T!Next /\ UNCHANGED <<doing, vars, listing, refusal>>
Refused == doing = "refused" /\ R!Refuse /\ UNCHANGED <<doing, vars, listing, tokens>>

ClientNext == Tools \/ Lists \/ Looks \/ Refused

ClientSpec == ClientInit /\ [][ClientNext]_<<doing, vars, listing, tokens, refusal>>

-----------------------------------------------------------------------------
(* Properties of the parts, here of a client that may do any of them;      *)
(* those of Surface keep their names.                                      *)

(* A finished walk was shown every payload that was retained all along     *)
(* (page_at, list_resources_page).                                         *)
NothingMissed == L!NothingMissed

(* What a reader concludes from the end of a list holds of all of it       *)
(* (find_access_token, load_inventory, Pagination).                        *)
AbsenceProved == T!AbsenceProved

(* A revocation deletes only the token that the one selector given names   *)
(* (TokenLifecycleClient::revoke, RevokeTokenArguments).                   *)
RevokesTheNamed == T!RevokesTheNamed

(* The reason a refusal gives holds nothing of a secret the request        *)
(* carried (reduce_error_message, normalize_error_data).                   *)
Scrubbed == R!Scrubbed
=============================================================================
