------------------------------ MODULE KeyCache ------------------------------
(***************************************************************************)
(* The cache of the gateway's signing keys (identity.rs): requests present *)
(* assertions, the first to find the cache due refreshes it while holding  *)
(* its lock, and the others wait.  The key service publishes and withdraws *)
(* keys, answers late or not at all, and the client of a request may go    *)
(* away at any time, which drops the request's future and whatever it was  *)
(* waiting for.                                                            *)
(*                                                                         *)
(* Of an assertion only its key matters here; whether its signature and    *)
(* claims are in order is an input of the judgement.  The judgement is one *)
(* step with the end of the wait: nothing is awaited between them.         *)
(***************************************************************************)
EXTENDS Integers

CONSTANTS
  Keys,             \* key identifiers
  Calls,            \* concurrent requests
  CacheTTL,         \* CACHE_TTL
  RetryAfter,       \* RETRY_AFTER_FAILURE
  MaxKeyAge,        \* MAX_KEY_AGE
  FetchTimeout,     \* the key client's timeout
  MaxTime,          \* bound on the clock
  Never

ASSUME KeyCacheAssumption ==
  /\ {CacheTTL, RetryAfter, MaxKeyAge, FetchTimeout, MaxTime} \subseteq Nat
  /\ RetryAfter <= CacheTTL /\ CacheTTL <= MaxKeyAge /\ MaxKeyAge > 0
  /\ Never \notin Nat

VARIABLES
  clock,
  published,    \* the keys the service publishes
  since,        \* when each key was last published or withdrawn
  keys,         \* CachedKeys.keys: the set ...
  fetchedAt,    \* ... and when it was fetched, Never before the first success
  nextRefresh,  \* CachedKeys.next_refresh; 0 while the cache is None
  pc,           \* what each request is doing; "fetching" holds the lock
  kid,          \* the key that signed each request's assertion
  answer,       \* the answer on its way to the fetch in progress
  verdict,      \* how each request was last judged
  startedAt,    \* history: when the last fetch started
  outcome,      \* history: how and when the last fetch to complete ended
  good          \* history: the last key set fetched, and when

serviceVars == <<published, since>>
cacheVars == <<keys, fetchedAt, nextRefresh>>
fetchVars == <<answer, startedAt>>
historyVars == <<outcome, good>>
vars == <<clock, serviceVars, cacheVars, pc, kid, verdict, fetchVars, historyVars>>

Times == 0 .. MaxTime
NoAnswer == [given |-> FALSE, keys |-> {}]

TypeOK ==
  /\ clock \in Times
  /\ published \subseteq Keys
  /\ since \in [Keys -> Times]
  /\ keys \subseteq Keys
  /\ fetchedAt \in Times \cup {Never}
  /\ nextRefresh \in 0 .. (clock + CacheTTL)
  /\ pc \in [Calls -> {"idle", "waiting", "fetching"}]
  /\ kid \in [Calls -> Keys]
  /\ verdict \in [Calls -> {"none", "accepted", "refused"}]
  /\ answer \in [given : BOOLEAN, keys : SUBSET Keys]
  /\ startedAt \in Times \cup {Never}
  /\ outcome \in [ok : BOOLEAN, at : Times \cup {Never}]
  /\ good \in [keys : SUBSET Keys, at : Times \cup {Never}]

Init ==
  /\ clock = 0
  /\ published \in SUBSET Keys
  /\ since = [k \in Keys |-> 0]
  /\ keys = {} /\ fetchedAt = Never /\ nextRefresh = 0
  /\ pc = [c \in Calls |-> "idle"]
  /\ kid \in [Calls -> Keys]
  /\ verdict = [c \in Calls |-> "none"]
  /\ answer = NoAnswer /\ startedAt = Never
  /\ outcome = [ok |-> TRUE, at |-> Never]
  /\ good = [keys |-> {}, at |-> Never]

-----------------------------------------------------------------------------
(* The key service and the clock *)

Change(k) ==
  /\ published' = IF k \in published THEN published \ {k} ELSE published \cup {k}
  /\ since' = [since EXCEPT ![k] = clock]
  /\ UNCHANGED <<clock, cacheVars, pc, kid, verdict, fetchVars, historyVars>>

Fetching == \E c \in Calls : pc[c] = "fetching"

(* The service answers the fetch with what it publishes at that moment.    *)
Answer ==
  /\ Fetching /\ ~answer.given
  /\ answer' = [given |-> TRUE, keys |-> published]
  /\ UNCHANGED <<clock, serviceVars, cacheVars, pc, kid, verdict, startedAt, historyVars>>

(* The client's timeout bounds the time a fetch takes.                     *)
Tick ==
  /\ clock < MaxTime
  /\ Fetching => clock < startedAt + FetchTimeout
  /\ clock' = clock + 1
  /\ UNCHANGED <<serviceVars, cacheVars, pc, kid, verdict, fetchVars, historyVars>>

-----------------------------------------------------------------------------
(* IdentityVerifier::keys and verify *)

Due == clock >= nextRefresh

(* Mutant: keys kept through failed refreshes have no maximum age.         *)
AgelessVerifies(k, set, at) == at # Never /\ k \in set

(* A key verifies while it is in the cached set and the set is not too old. *)
Verifies(k, set, at) == at # Never /\ k \in set /\ clock - at < MaxKeyAge

(* The request's assertion is judged with the given cache contents, and    *)
(* the request leaves the verifier.                                        *)
Judge(c, set, at, inOrder) ==
  /\ verdict' = [verdict EXCEPT
       ![c] = IF inOrder /\ Verifies(kid[c], set, at) THEN "accepted" ELSE "refused"]
  /\ pc' = [pc EXCEPT ![c] = "idle"]

(* verify, up to the cache's lock: an assertion without a usable header is *)
(* refused without looking at the cache, and is not modelled further.      *)
Present(c, k) ==
  /\ pc[c] = "idle"
  /\ kid' = [kid EXCEPT ![c] = k]
  /\ verdict' = [verdict EXCEPT ![c] = "none"]
  /\ pc' = [pc EXCEPT ![c] = "waiting"]
  /\ UNCHANGED <<clock, serviceVars, cacheVars, fetchVars, historyVars>>

(* The lock is taken and the cache is not due.                             *)
UseCache(c, inOrder) ==
  /\ pc[c] = "waiting" /\ ~Fetching /\ ~Due
  /\ Judge(c, keys, fetchedAt, inOrder)
  /\ UNCHANGED <<clock, serviceVars, cacheVars, kid, fetchVars, historyVars>>

(* The lock is taken, the cache is due, and the fetch is sent.             *)
StartFetch(c) ==
  /\ pc[c] = "waiting" /\ ~Fetching /\ Due
  /\ pc' = [pc EXCEPT ![c] = "fetching"]
  /\ answer' = NoAnswer
  /\ startedAt' = clock
  /\ UNCHANGED <<clock, serviceVars, cacheVars, kid, verdict, historyVars>>

(* Mutant: a fetched set is kept for the time it would verify.             *)
DelayOfMaxAge(ok) == IF ok THEN MaxKeyAge ELSE RetryAfter
(* Mutant: only successes space out the fetches.                           *)
NoRetryDelay(ok) == IF ok THEN CacheTTL ELSE 0

Delay(ok) == IF ok THEN CacheTTL ELSE RetryAfter

FetchSucceeds(c, inOrder) ==
  /\ pc[c] = "fetching" /\ answer.given
  /\ keys' = answer.keys
  /\ fetchedAt' = clock
  /\ nextRefresh' = clock + Delay(TRUE)
  /\ Judge(c, answer.keys, clock, inOrder)
  /\ answer' = NoAnswer
  /\ outcome' = [ok |-> TRUE, at |-> clock]
  /\ good' = [keys |-> answer.keys, at |-> clock]
  /\ UNCHANGED <<clock, serviceVars, kid, startedAt>>

(* Mutant: a failed refresh leaves no keys behind.                         *)
FailureForgets(c, inOrder) ==
  /\ pc[c] = "fetching"
  /\ nextRefresh' = clock + Delay(FALSE)
  /\ keys' = {} /\ fetchedAt' = Never
  /\ Judge(c, {}, Never, inOrder)
  /\ answer' = NoAnswer
  /\ outcome' = [ok |-> FALSE, at |-> clock]
  /\ UNCHANGED <<clock, serviceVars, kid, startedAt, good>>

(* The service is unreachable, late, or answers something unusable: the    *)
(* keys known before, and their age, are kept.                             *)
FetchFails(c, inOrder) ==
  /\ pc[c] = "fetching"
  /\ nextRefresh' = clock + Delay(FALSE)
  /\ Judge(c, keys, fetchedAt, inOrder)
  /\ answer' = NoAnswer
  /\ outcome' = [ok |-> FALSE, at |-> clock]
  /\ UNCHANGED <<clock, serviceVars, keys, fetchedAt, kid, startedAt, good>>

(* The client goes away: the future is dropped where it awaits, with the   *)
(* lock and the fetch if it had them, and the cache stays as it was.       *)
Cancel(c) ==
  /\ pc[c] \in {"waiting", "fetching"}
  /\ pc' = [pc EXCEPT ![c] = "idle"]
  /\ answer' = IF pc[c] = "fetching" THEN NoAnswer ELSE answer
  /\ UNCHANGED <<clock, serviceVars, cacheVars, kid, verdict, startedAt, historyVars>>

-----------------------------------------------------------------------------

CallStep(c) ==
  \/ \E k \in Keys : Present(c, k)
  \/ \E inOrder \in BOOLEAN :
       UseCache(c, inOrder) \/ FetchSucceeds(c, inOrder) \/ FetchFails(c, inOrder)
  \/ StartFetch(c)
  \/ Cancel(c)

Next ==
  \/ \E k \in Keys : Change(k)
  \/ Answer
  \/ \E c \in Calls : CallStep(c)
  \/ Tick

Spec == Init /\ [][Next]_vars

-----------------------------------------------------------------------------
(* Properties *)

Judged(c) == verdict[c] = "none" /\ verdict'[c] # "none"
Accepted(c) == Judged(c) /\ verdict'[c] = "accepted"

(* A withdrawn key stops verifying a cache period after its withdrawal, or *)
(* a maximum age after it while refreshes fail, plus the time the fetched  *)
(* answer was on its way: whatever requests wait, fail or are cancelled.   *)
Lag == (IF outcome'.ok THEN CacheTTL ELSE MaxKeyAge) + FetchTimeout
RevokedSoon ==
  [][\A c \in Calls : Accepted(c) /\ kid[c] \notin published => clock - since[kid[c]] <= Lag]_vars

(* A key of the last answer received keeps verifying well-formed           *)
(* assertions for its maximum age, through every failed or cancelled       *)
(* refresh: an outage of the key service rejects nobody before that.       *)
KnownKeyVerifies ==
  [][\A c \in Calls, inOrder \in {TRUE} :
       (UseCache(c, inOrder) \/ FetchFails(c, inOrder))
         /\ good.at # Never /\ clock - good.at < MaxKeyAge /\ kid[c] \in good.keys
       => verdict'[c] = "accepted"]_vars

(* A newly published key is honoured within a cache period (and the time   *)
(* of one fetch) unless the last refresh failed.                           *)
RotationTakesEffect ==
  [][\A c \in Calls : (UseCache(c, TRUE) \/ FetchSucceeds(c, TRUE))
       /\ outcome'.ok /\ kid[c] \in published
       /\ clock - since[kid[c]] > CacheTTL + FetchTimeout
     => verdict'[c] = "accepted"]_vars

(* A fetch that completed, well or badly, is followed by no other for at   *)
(* least the retry interval, however many requests wait.                   *)
Starts == ~Fetching /\ Fetching'
OutcomesSpaced ==
  [][Starts /\ outcome.at # Never => clock - outcome.at >= RetryAfter]_vars

(* The comment in keys(): refreshes are spaced out, so that requests       *)
(* cannot force unbounded fetches.  A fetch whose request is cancelled     *)
(* leaves next_refresh alone, and the next request fetches at once.        *)
FetchesSpaced ==
  [][Starts /\ startedAt # Never => clock - startedAt >= RetryAfter]_vars
=============================================================================
