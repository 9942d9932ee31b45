------------------------------ MODULE Refusals ------------------------------
(***************************************************************************)
(* What a caller is told when Gitea refuses a request: the body is read up *)
(* to a bound, the reason is taken out of it, every secret the request     *)
(* carried is replaced, and the rest is cut to a bound (read_error_message *)
(* and reduce_error_message of lib.rs, normalize_error_data of execute.rs, *)
(* TokenLifecycleClient::refusal of token.rs).                             *)
(*                                                                         *)
(* A text is a sequence of characters.  While it is reduced it is a        *)
(* sequence of the positions that its characters have in the text Gitea    *)
(* wrote, with Mark where a replacement stands: what is left of a secret   *)
(* can then be told from equal characters elsewhere.  No secret holds a    *)
(* character of the replacement itself.                                    *)
(***************************************************************************)
EXTENDS Requests

CONSTANTS
  Reasons,    \* the texts Gitea may write
  Given,      \* arguments of the refused request, as values of Requests
  Configured, \* service tokens a client may be configured with
  Logins,     \* credentials a token client may be configured with, in their forms
  Sensitive,  \* the argument names that is_sensitive_name recognises
  MaxDepth,   \* bound on how deep the arguments nest
  MaxBody,    \* MAX_ERROR_RESPONSE_BYTES
  MaxReason   \* MAX_ERROR_MESSAGE_CHARACTERS

VARIABLE refusal  \* the last refusal: what Gitea wrote, what was secret, what was told

Quote == "quote"
Backslash == "backslash"
Mark == 0

Unanswered == [wrote |-> <<>>, secrets |-> <<>>, told |-> <<>>]
Generic == <<>>

-----------------------------------------------------------------------------
(* What is secret *)

(* What a value holds, each with the name it is under: an array passes its *)
(* own on to its items, an object gives its members theirs.                *)
Held(value, name) ==
  CASE value.is = "object" ->
         LET names == SetToSeq(DOMAIN value.content)
         IN [i \in DOMAIN names |-> <<value.content[names[i]], names[i]>>]
    [] value.is = "array" -> [i \in DOMAIN value.items |-> <<value.items[i], name>>]
    [] OTHER -> <<<<value, name>>>>

(* collect_sensitive_values: the strings under a sensitive name.           *)
SensitiveValues(value, name) ==
  LET opened[depth \in 0 .. MaxDepth] ==
        IF depth = 0 THEN <<<<value, name>>>>
        ELSE FlattenSeq([i \in DOMAIN opened[depth - 1] |-> Held(opened[depth - 1][i][1], opened[depth - 1][i][2])])
      found == SelectSeq(opened[MaxDepth], LAMBDA held :
                 /\ held[1].is = "scalar" /\ held[1].kind = "string" /\ held[1].text # <<>>
                 /\ held[2] \in Sensitive)
  IN [i \in DOMAIN found |-> found[i][1].text]

(* How JSON writes a text within its quotes.                               *)
Escaped(text) ==
  FlattenSeq([i \in DOMAIN text |->
    IF text[i] \in {Quote, Backslash} THEN <<Backslash, text[i]>> ELSE <<text[i]>>])

(* trim_matches takes an escaped quote at the end for the closing one.     *)
Trimmed(text) == IF text # <<>> /\ Last(text) = Quote THEN Front(text) ELSE text

-----------------------------------------------------------------------------
(* redact *)

At_(wrote, text, form, i) ==
  /\ i + Len(form) - 1 <= Len(text)
  /\ \A j \in DOMAIN form : text[i + j - 1] # Mark /\ wrote[text[i + j - 1]] = form[j]

(* str::replace, from left to right: what is replaced is not read again.   *)
Replace(wrote, text, form) ==
  LET read[i \in 0 .. Len(text)] ==
        IF i = 0 THEN [out |-> <<>>, next |-> 1]
        ELSE LET before == read[i - 1]
             IN IF i < before.next THEN before
                ELSE IF At_(wrote, text, form, i)
                     THEN [out |-> before.out \o <<Mark, Mark>>, next |-> i + Len(form)]
                     ELSE [out |-> Append(before.out, text[i]), next |-> i + 1]
  IN read[Len(text)].out

Strike(wrote, text, form, length) == IF Len(form) = length THEN Replace(wrote, text, form) ELSE text

(* The forms of one length, in the order of the values: each value as it   *)
(* is, then as JSON writes it.                                             *)
Pass(wrote, text, values, length) ==
  LET after[n \in 0 .. Len(values)] ==
        IF n = 0 THEN text
        ELSE Strike(wrote, Strike(wrote, after[n - 1], values[n], length), Trimmed(Escaped(values[n])), length)
  IN after[Len(values)]

(* Longest first: no form is longer than what Gitea wrote, none is empty.  *)
Redact(wrote, text, values) ==
  LET after[k \in 0 .. Len(wrote)] ==
        IF k = 0 THEN text ELSE Pass(wrote, after[k - 1], values, Len(wrote) - k + 1)
  IN after[Len(wrote)]

-----------------------------------------------------------------------------
Cut(text) == SubSeq(text, 1, IF Len(text) < MaxReason THEN Len(text) ELSE MaxReason)

(* Mutant: the reason is cut first, which may leave the head of a secret.  *)
CutThenRedact(wrote, values) == Redact(wrote, Cut([i \in DOMAIN wrote |-> i]), values)

(* reduce_error_message                                                    *)
Reduce(wrote, values) == Cut(Redact(wrote, [i \in DOMAIN wrote |-> i], values))

(* extract_error_message: a document that is not one, or has no message,   *)
(* and a text of nothing say nothing.                                      *)
Says(body) == body.is = "readable" /\ body.text # <<>>

(* read_error_message: what ends early, by the bound or by a failure, is   *)
(* not reduced but dropped.                                                *)
ReadError(body, arrived, values) ==
  IF arrived < Len(body.text) \/ Len(body.text) > MaxBody \/ ~Says(body) THEN Generic
  ELSE Reduce(body.text, values)

(* normalize_error_data: the service token and what the arguments hold     *)
OperationSecrets(arguments, token) == Append(SensitiveValues(arguments, ""), token)

(* TokenLifecycleClient::secrets: each form in which the credentials leave *)
LoginSecrets(login) == <<login.username, login.password, login.basic, login.path>>

(* A request is refused.  The answer of one that carried an uploaded       *)
(* secret is not read for its reason.                                      *)
Refuse ==
  /\ refusal = Unanswered
  /\ \E secrets \in {OperationSecrets(arguments, token) : arguments \in Given, token \in Configured}
                    \cup {LoginSecrets(login) : login \in Logins},
        text \in Reasons, is \in {"readable", "broken"}, upload \in BOOLEAN :
       \E arrived \in 0 .. Len(text) :
         refusal' = [wrote |-> text, secrets |-> secrets,
                     told |-> IF upload THEN Generic
                              ELSE ReadError([is |-> is, text |-> text], arrived, secrets)]

-----------------------------------------------------------------------------
(* Where a text a caller must not learn stands in what Gitea wrote: as it  *)
(* is, or as JSON writes it but for a quote at its end.                    *)
Occurrences(wrote, secrets) ==
  {o \in (DOMAIN wrote) \X (DOMAIN wrote) :
     o[1] <= o[2] /\ \E k \in DOMAIN secrets :
                       SubSeq(wrote, o[1], o[2]) \in {secrets[k], Trimmed(Escaped(secrets[k]))}}

Cross(o, p) == o[1] < p[1] /\ p[1] <= o[2] /\ o[2] < p[2]

(* Of a secret that Gitea repeats in its reason a caller is told nothing,  *)
(* wherever the reason is cut and whether or not other secrets hold it or  *)
(* are held by it.  (Of two that share some of their characters only one   *)
(* can be found.)                                                          *)
Scrubbed ==
  LET all == Occurrences(refusal.wrote, refusal.secrets)
  IN \A o \in all :
       (\A p \in all : ~Cross(o, p) /\ ~Cross(p, o)) =>
         \A i \in o[1] .. o[2] : i \notin ToSet(refusal.told)
=============================================================================
