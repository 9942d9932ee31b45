---------------------------- MODULE KeyCacheProofs ----------------------------
(***************************************************************************)
(* Proofs about KeyCache: how soon a withdrawn key stops and a new one     *)
(* starts to verify, that an outage rejects no known key, and how fetches  *)
(* that ended are spaced, for every set of keys and requests, every        *)
(* constant of the cache and every bound on the clock.                     *)
(***************************************************************************)
EXTENDS KeyCache, TLAPS

-----------------------------------------------------------------------------
(* The invariant *)

(* One request fetches at a time, no longer than the client's timeout.     *)
Serial ==
  /\ \A c, d \in Calls : pc[c] = "fetching" /\ pc[d] = "fetching" => c = d
  /\ Fetching => startedAt # Never /\ startedAt <= clock /\ clock <= startedAt + FetchTimeout

(* An answer on its way differs from what is published only in keys that   *)
(* changed since the fetch started.                                        *)
AnswerFresh ==
  answer.given =>
    /\ Fetching
    /\ \A k \in Keys : ~(k \in answer.keys <=> k \in published) => since[k] >= startedAt

(* What is cached differs only in keys that changed since then, a fetch    *)
(* before it was cached.                                                   *)
CacheFresh ==
  fetchedAt # Never =>
    /\ fetchedAt <= clock
    /\ \A k \in Keys : ~(k \in keys <=> k \in published) => since[k] + FetchTimeout >= fetchedAt

(* The cache is the last set fetched, whatever failed since, and the next  *)
(* refresh is due a delay after the last fetch that ended.                 *)
InStep ==
  /\ keys = good.keys /\ fetchedAt = good.at
  /\ outcome.at = Never => nextRefresh = 0 /\ fetchedAt = Never
  /\ outcome.at # Never =>
       /\ outcome.at <= clock
       /\ nextRefresh = outcome.at + Delay(outcome.ok)
       /\ outcome.ok => fetchedAt = outcome.at

IInv == TypeOK /\ Serial /\ AnswerFresh /\ CacheFresh /\ InStep

-----------------------------------------------------------------------------
(* Each part is kept by every step *)

(* Types; a refresh is never due more than a cache period from now.        *)
LEMMA NextKeepsTypes == TypeOK /\ [Next]_vars => TypeOK'
<1>. SUFFICES ASSUME TypeOK, [Next]_vars PROVE TypeOK'
  OBVIOUS
<1>. USE KeyCacheAssumption
<1>1. ASSUME NEW k \in Keys, Change(k) PROVE TypeOK'
  BY <1>1 DEF Change, cacheVars, fetchVars, historyVars, TypeOK, Times
<1>2. ASSUME Answer PROVE TypeOK'
  BY <1>2 DEF Answer, serviceVars, cacheVars, historyVars, TypeOK, Times
<1>3. ASSUME NEW c \in Calls, NEW k \in Keys, Present(c, k) PROVE TypeOK'
  BY <1>3 DEF Present, serviceVars, cacheVars, fetchVars, historyVars, TypeOK, Times
<1>4. ASSUME NEW c \in Calls, NEW inOrder \in BOOLEAN, UseCache(c, inOrder) PROVE TypeOK'
  BY <1>4 DEF UseCache, Judge, serviceVars, cacheVars, fetchVars, historyVars, TypeOK, Times
<1>5. ASSUME NEW c \in Calls, NEW inOrder \in BOOLEAN, FetchSucceeds(c, inOrder) PROVE TypeOK'
  BY <1>5 DEF FetchSucceeds, Judge, Delay, NoAnswer, serviceVars, TypeOK, Times
<1>6. ASSUME NEW c \in Calls, NEW inOrder \in BOOLEAN, FetchFails(c, inOrder) PROVE TypeOK'
  BY <1>6 DEF FetchFails, Judge, Delay, NoAnswer, serviceVars, TypeOK, Times
<1>7. ASSUME NEW c \in Calls, StartFetch(c) PROVE TypeOK'
  BY <1>7 DEF StartFetch, serviceVars, cacheVars, historyVars, NoAnswer, TypeOK, Times
<1>8. ASSUME NEW c \in Calls, Cancel(c) PROVE TypeOK'
  BY <1>8 DEF Cancel, serviceVars, cacheVars, historyVars, NoAnswer, TypeOK, Times
<1>9. ASSUME Tick PROVE TypeOK'
  BY <1>9 DEF Tick, serviceVars, cacheVars, fetchVars, historyVars, TypeOK, Times
<1>10. CASE UNCHANGED vars
  BY <1>10 DEF TypeOK, Times, vars, serviceVars, cacheVars, fetchVars, historyVars
<1>. QED
  BY <1>1, <1>2, <1>3, <1>4, <1>5, <1>6, <1>7, <1>8, <1>9, <1>10 DEF Next, CallStep

(* Whoever starts a fetch finds nobody fetching.                           *)
LEMMA NextKeepsSerial == (TypeOK /\ Serial) /\ [Next]_vars => Serial'
<1>. SUFFICES ASSUME (TypeOK /\ Serial), [Next]_vars PROVE Serial'
  OBVIOUS
<1>. USE KeyCacheAssumption
<1>1. ASSUME NEW k \in Keys, Change(k) PROVE Serial'
  BY <1>1 DEF Change, cacheVars, fetchVars, historyVars, TypeOK, Times, Serial, Fetching
<1>2. ASSUME Answer PROVE Serial'
  BY <1>2 DEF Answer, serviceVars, cacheVars, historyVars, TypeOK, Times, Serial, Fetching
<1>3. ASSUME NEW c \in Calls, NEW k \in Keys, Present(c, k) PROVE Serial'
  BY <1>3 DEF Present, serviceVars, cacheVars, fetchVars, historyVars, TypeOK, Times, Serial, Fetching
<1>4. ASSUME NEW c \in Calls, NEW inOrder \in BOOLEAN, UseCache(c, inOrder) PROVE Serial'
  BY <1>4 DEF UseCache, Judge, serviceVars, cacheVars, fetchVars, historyVars, TypeOK, Times, Serial,
       Fetching
<1>5. ASSUME NEW c \in Calls, NEW inOrder \in BOOLEAN, FetchSucceeds(c, inOrder) PROVE Serial'
  BY <1>5 DEF FetchSucceeds, Judge, serviceVars, TypeOK, Times, Serial, Fetching
<1>6. ASSUME NEW c \in Calls, NEW inOrder \in BOOLEAN, FetchFails(c, inOrder) PROVE Serial'
  BY <1>6 DEF FetchFails, Judge, serviceVars, TypeOK, Times, Serial, Fetching
<1>7. ASSUME NEW c \in Calls, StartFetch(c) PROVE Serial'
  BY <1>7 DEF StartFetch, serviceVars, cacheVars, historyVars, TypeOK, Times, Serial, Fetching
<1>8. ASSUME NEW c \in Calls, Cancel(c) PROVE Serial'
  BY <1>8 DEF Cancel, serviceVars, cacheVars, historyVars, TypeOK, Times, Serial, Fetching
<1>9. ASSUME Tick PROVE Serial'
  BY <1>9 DEF Tick, serviceVars, cacheVars, fetchVars, historyVars, TypeOK, Times, Serial, Fetching
<1>10. CASE UNCHANGED vars
  BY <1>10 DEF TypeOK, Times, Serial, Fetching, vars, serviceVars, cacheVars, fetchVars, historyVars
<1>. QED
  BY <1>1, <1>2, <1>3, <1>4, <1>5, <1>6, <1>7, <1>8, <1>9, <1>10 DEF Next, CallStep

(* A key that changes while an answer is on its way changed since the start.*)
LEMMA NextKeepsAnswerFresh == (TypeOK /\ Serial /\ AnswerFresh) /\ [Next]_vars => AnswerFresh'
<1>. SUFFICES ASSUME (TypeOK /\ Serial /\ AnswerFresh), [Next]_vars PROVE AnswerFresh'
  OBVIOUS
<1>. USE KeyCacheAssumption
<1>1. ASSUME NEW k \in Keys, Change(k) PROVE AnswerFresh'
  BY <1>1 DEF Change, cacheVars, fetchVars, historyVars, TypeOK, Times, Serial, AnswerFresh, Fetching
<1>2. ASSUME Answer PROVE AnswerFresh'
  BY <1>2 DEF Answer, serviceVars, cacheVars, historyVars, TypeOK, Times, Serial, AnswerFresh, Fetching
<1>3. ASSUME NEW c \in Calls, NEW k \in Keys, Present(c, k) PROVE AnswerFresh'
  BY <1>3 DEF Present, serviceVars, cacheVars, fetchVars, historyVars, TypeOK, Times, Serial,
       AnswerFresh, Fetching
<1>4. ASSUME NEW c \in Calls, NEW inOrder \in BOOLEAN, UseCache(c, inOrder) PROVE AnswerFresh'
  BY <1>4 DEF UseCache, Judge, serviceVars, cacheVars, fetchVars, historyVars, TypeOK, Times, Serial,
       AnswerFresh, Fetching
<1>5. ASSUME NEW c \in Calls, NEW inOrder \in BOOLEAN, FetchSucceeds(c, inOrder) PROVE AnswerFresh'
  BY <1>5 DEF FetchSucceeds, Judge, serviceVars, NoAnswer, TypeOK, Times, Serial, AnswerFresh, Fetching
<1>6. ASSUME NEW c \in Calls, NEW inOrder \in BOOLEAN, FetchFails(c, inOrder) PROVE AnswerFresh'
  BY <1>6 DEF FetchFails, Judge, serviceVars, NoAnswer, TypeOK, Times, Serial, AnswerFresh, Fetching
<1>7. ASSUME NEW c \in Calls, StartFetch(c) PROVE AnswerFresh'
  BY <1>7 DEF StartFetch, serviceVars, cacheVars, historyVars, NoAnswer, TypeOK, Times, Serial,
       AnswerFresh, Fetching
<1>8. ASSUME NEW c \in Calls, Cancel(c) PROVE AnswerFresh'
  BY <1>8 DEF Cancel, serviceVars, cacheVars, historyVars, NoAnswer, TypeOK, Times, Serial,
       AnswerFresh, Fetching
<1>9. ASSUME Tick PROVE AnswerFresh'
  BY <1>9 DEF Tick, serviceVars, cacheVars, fetchVars, historyVars, TypeOK, Times, Serial,
       AnswerFresh, Fetching
<1>10. CASE UNCHANGED vars
  BY <1>10 DEF TypeOK, Times, Serial, AnswerFresh, Fetching, vars, serviceVars, cacheVars, fetchVars,
       historyVars
<1>. QED
  BY <1>1, <1>2, <1>3, <1>4, <1>5, <1>6, <1>7, <1>8, <1>9, <1>10 DEF Next, CallStep

(* What is cached was on its way for no longer than the client's timeout.  *)
LEMMA NextKeepsCacheFresh == (TypeOK /\ Serial /\ AnswerFresh /\ CacheFresh) /\ [Next]_vars => CacheFresh'
<1>. SUFFICES ASSUME (TypeOK /\ Serial /\ AnswerFresh /\ CacheFresh), [Next]_vars PROVE CacheFresh'
  OBVIOUS
<1>. USE KeyCacheAssumption
<1>1. ASSUME NEW k \in Keys, Change(k) PROVE CacheFresh'
  BY <1>1 DEF Change, cacheVars, fetchVars, historyVars, TypeOK, Times, CacheFresh
<1>2. ASSUME Answer PROVE CacheFresh'
  BY <1>2 DEF Answer, serviceVars, cacheVars, historyVars, TypeOK, Times, CacheFresh
<1>3. ASSUME NEW c \in Calls, NEW k \in Keys, Present(c, k) PROVE CacheFresh'
  BY <1>3 DEF Present, serviceVars, cacheVars, fetchVars, historyVars, TypeOK, Times, CacheFresh
<1>4. ASSUME NEW c \in Calls, NEW inOrder \in BOOLEAN, UseCache(c, inOrder) PROVE CacheFresh'
  BY <1>4 DEF UseCache, Judge, serviceVars, cacheVars, fetchVars, historyVars, TypeOK, Times, CacheFresh
<1>5. ASSUME NEW c \in Calls, NEW inOrder \in BOOLEAN, FetchSucceeds(c, inOrder) PROVE CacheFresh'
  BY <1>5
   DEF FetchSucceeds, Judge, serviceVars, Serial, AnswerFresh, Fetching, TypeOK, Times, CacheFresh
<1>6. ASSUME NEW c \in Calls, NEW inOrder \in BOOLEAN, FetchFails(c, inOrder) PROVE CacheFresh'
  BY <1>6 DEF FetchFails, Judge, serviceVars, TypeOK, Times, CacheFresh
<1>7. ASSUME NEW c \in Calls, StartFetch(c) PROVE CacheFresh'
  BY <1>7 DEF StartFetch, serviceVars, cacheVars, historyVars, TypeOK, Times, CacheFresh
<1>8. ASSUME NEW c \in Calls, Cancel(c) PROVE CacheFresh'
  BY <1>8 DEF Cancel, serviceVars, cacheVars, historyVars, TypeOK, Times, CacheFresh
<1>9. ASSUME Tick PROVE CacheFresh'
  BY <1>9 DEF Tick, serviceVars, cacheVars, fetchVars, historyVars, TypeOK, Times, CacheFresh
<1>10. CASE UNCHANGED vars
  BY <1>10 DEF TypeOK, Times, CacheFresh, vars, serviceVars, cacheVars, fetchVars, historyVars
<1>. QED
  BY <1>1, <1>2, <1>3, <1>4, <1>5, <1>6, <1>7, <1>8, <1>9, <1>10 DEF Next, CallStep

(* A fetch that ends sets the next refresh; one that fails leaves the keys.*)
LEMMA NextKeepsInStep == (TypeOK /\ InStep) /\ [Next]_vars => InStep'
<1>. SUFFICES ASSUME (TypeOK /\ InStep), [Next]_vars PROVE InStep'
  OBVIOUS
<1>. USE KeyCacheAssumption
<1>1. ASSUME NEW k \in Keys, Change(k) PROVE InStep'
  BY <1>1 DEF Change, cacheVars, fetchVars, historyVars, TypeOK, Times, InStep
<1>2. ASSUME Answer PROVE InStep'
  BY <1>2 DEF Answer, serviceVars, cacheVars, historyVars, TypeOK, Times, InStep
<1>3. ASSUME NEW c \in Calls, NEW k \in Keys, Present(c, k) PROVE InStep'
  BY <1>3 DEF Present, serviceVars, cacheVars, fetchVars, historyVars, TypeOK, Times, InStep
<1>4. ASSUME NEW c \in Calls, NEW inOrder \in BOOLEAN, UseCache(c, inOrder) PROVE InStep'
  BY <1>4 DEF UseCache, Judge, serviceVars, cacheVars, fetchVars, historyVars, TypeOK, Times, InStep
<1>5. ASSUME NEW c \in Calls, NEW inOrder \in BOOLEAN, FetchSucceeds(c, inOrder) PROVE InStep'
  BY <1>5 DEF FetchSucceeds, Judge, serviceVars, Delay, TypeOK, Times, InStep
<1>6. ASSUME NEW c \in Calls, NEW inOrder \in BOOLEAN, FetchFails(c, inOrder) PROVE InStep'
  BY <1>6 DEF FetchFails, Judge, serviceVars, Delay, TypeOK, Times, InStep
<1>7. ASSUME NEW c \in Calls, StartFetch(c) PROVE InStep'
  BY <1>7 DEF StartFetch, serviceVars, cacheVars, historyVars, TypeOK, Times, InStep
<1>8. ASSUME NEW c \in Calls, Cancel(c) PROVE InStep'
  BY <1>8 DEF Cancel, serviceVars, cacheVars, historyVars, TypeOK, Times, InStep
<1>9. ASSUME Tick PROVE InStep'
  BY <1>9 DEF Tick, serviceVars, cacheVars, fetchVars, historyVars, TypeOK, Times, InStep
<1>10. CASE UNCHANGED vars
  BY <1>10 DEF TypeOK, Times, InStep, vars, serviceVars, cacheVars, fetchVars, historyVars
<1>. QED
  BY <1>1, <1>2, <1>3, <1>4, <1>5, <1>6, <1>7, <1>8, <1>9, <1>10 DEF Next, CallStep

-----------------------------------------------------------------------------
(* The invariant holds *)

(* Nothing is cached, fetched or on its way at first.                      *)
LEMMA InitEstablishes == Init => IInv
  BY KeyCacheAssumption
   DEF Init, IInv, TypeOK, Times, NoAnswer, Serial, Fetching, AnswerFresh, CacheFresh, InStep

(* No step breaks it.                                                      *)
LEMMA NextPreserves == IInv /\ [Next]_vars => IInv'
  BY NextKeepsTypes, NextKeepsSerial, NextKeepsAnswerFresh, NextKeepsCacheFresh, NextKeepsInStep
   DEF IInv

(* The cache, the fetch in progress and the key service stay in step       *)
(* (IdentityVerifier::keys).                                               *)
THEOREM InvariantHolds == Spec => []IInv
  BY InitEstablishes, NextPreserves, PTL DEF Spec

(* Every variable keeps its type (CachedKeys).                             *)
THEOREM TypeCorrect == Spec => []TypeOK
<1>1. IInv => TypeOK
  BY DEF IInv
<1>. QED BY <1>1, InvariantHolds, PTL

-----------------------------------------------------------------------------
(* What a step may do *)

(* What RevokedSoon says of a step.                                        *)
StepRevokes ==
  \A c \in Calls : Accepted(c) /\ kid[c] \notin published => clock - since[kid[c]] <= Lag

(* A judgement uses a set that is fresh for a fetch or for its age.        *)
LEMMA StepRevokesSoon == IInv /\ [Next]_vars => [StepRevokes]_vars
<1>. SUFFICES ASSUME IInv, Next, NEW c \in Calls, Accepted(c), kid[c] \notin published
              PROVE  clock - since[kid[c]] <= Lag
  BY DEF StepRevokes
<1>. USE KeyCacheAssumption
<1>0. /\ verdict[c] # verdict'[c] /\ verdict'[c] = "accepted"
      /\ clock \in Nat /\ since[kid[c]] \in Nat /\ kid[c] \in Keys
  BY DEF Accepted, Judged, IInv, TypeOK, Times
<1>1. ASSUME NEW inOrder \in BOOLEAN, UseCache(c, inOrder) PROVE clock - since[kid[c]] <= Lag
  <2>1. /\ fetchedAt # Never /\ kid[c] \in keys /\ clock - fetchedAt < MaxKeyAge
        /\ clock < nextRefresh /\ outcome' = outcome
    BY <1>0, <1>1 DEF UseCache, Judge, Verifies, Due, historyVars, IInv, TypeOK, Times
  <2>2. fetchedAt \in Nat /\ since[kid[c]] + FetchTimeout >= fetchedAt
    BY <1>0, <2>1 DEF IInv, TypeOK, Times, CacheFresh
  <2>3. CASE outcome.ok
    <3>1. nextRefresh = fetchedAt + CacheTTL
      BY <2>1, <2>3 DEF IInv, InStep, Delay
    <3>. QED BY <1>0, <2>1, <2>2, <2>3, <3>1 DEF Lag
  <2>4. CASE ~ outcome.ok
    BY <1>0, <2>1, <2>2, <2>4 DEF Lag
  <2>. QED BY <2>3, <2>4
<1>2. ASSUME NEW inOrder \in BOOLEAN, FetchSucceeds(c, inOrder) PROVE clock - since[kid[c]] <= Lag
  <2>1. kid[c] \in answer.keys /\ answer.given /\ pc[c] = "fetching" /\ outcome'.ok
    BY <1>0, <1>2 DEF FetchSucceeds, Judge, Verifies, IInv, TypeOK
  <2>2. startedAt \in Nat /\ since[kid[c]] >= startedAt /\ clock <= startedAt + FetchTimeout
    BY <1>0, <2>1 DEF IInv, TypeOK, Times, Serial, AnswerFresh, Fetching
  <2>. QED BY <1>0, <2>1, <2>2 DEF Lag
<1>3. ASSUME NEW inOrder \in BOOLEAN, FetchFails(c, inOrder) PROVE clock - since[kid[c]] <= Lag
  <2>1. /\ fetchedAt # Never /\ kid[c] \in keys /\ clock - fetchedAt < MaxKeyAge /\ ~ outcome'.ok
    BY <1>0, <1>3 DEF FetchFails, Judge, Verifies, IInv, TypeOK
  <2>2. fetchedAt \in Nat /\ since[kid[c]] + FetchTimeout >= fetchedAt
    BY <1>0, <2>1 DEF IInv, TypeOK, Times, CacheFresh
  <2>. QED BY <1>0, <2>1, <2>2 DEF Lag
<1>4. ASSUME NEW d \in Calls, d # c, CallStep(d) PROVE FALSE
  <2>1. \A v \in {"none", "accepted", "refused"} : [verdict EXCEPT ![d] = v][c] = verdict[c]
    BY <1>4 DEF IInv, TypeOK
  <2>. QED
    BY <1>0, <1>4, <2>1
     DEF CallStep, Present, UseCache, FetchSucceeds, FetchFails, StartFetch, Cancel, Judge
<1>5. \E d \in Calls : CallStep(d)
  BY <1>0 DEF Next, Change, Answer, Tick
<1>6. CallStep(c)
  BY <1>4, <1>5
<1>7. \E inOrder \in BOOLEAN : UseCache(c, inOrder) \/ FetchSucceeds(c, inOrder) \/ FetchFails(c, inOrder)
  <2>1. ASSUME NEW k \in Keys, Present(c, k) PROVE FALSE
    BY <1>0, <2>1 DEF Present, IInv, TypeOK
  <2>. QED BY <1>0, <1>6, <2>1 DEF CallStep, StartFetch, Cancel
<1>. QED BY <1>1, <1>2, <1>3, <1>7

(* A withdrawn key stops verifying in time, for every period, age and      *)
(* timeout (keys, verify).                                                 *)
THEOREM RevokedSoonHolds == Spec => RevokedSoon
<1>1. Spec => [][StepRevokes]_vars
  BY InvariantHolds, StepRevokesSoon, PTL DEF Spec
<1>. QED BY <1>1 DEF RevokedSoon, StepRevokes

(* What KnownKeyVerifies says of a step.                                   *)
StepVerifies ==
  \A c \in Calls, inOrder \in {TRUE} :
    (UseCache(c, inOrder) \/ FetchFails(c, inOrder))
      /\ good.at # Never /\ clock - good.at < MaxKeyAge /\ kid[c] \in good.keys
    => verdict'[c] = "accepted"

(* The cache is the last set fetched.                                      *)
LEMMA StepVerifiesKnown == IInv => StepVerifies
  BY DEF IInv, TypeOK, InStep, StepVerifies, UseCache, FetchFails, Judge, Verifies

(* An outage of the key service rejects no key it has published before the *)
(* maximum age (keys, verify).                                             *)
THEOREM KnownKeyVerifiesHolds == Spec => KnownKeyVerifies
<1>1. Spec => [][StepVerifies]_vars
  BY InvariantHolds, StepVerifiesKnown, PTL DEF Spec
<1>. QED BY <1>1 DEF KnownKeyVerifies, StepVerifies

(* What RotationTakesEffect says of a step.                                *)
StepRotates ==
  \A c \in Calls : (UseCache(c, TRUE) \/ FetchSucceeds(c, TRUE))
       /\ outcome'.ok /\ kid[c] \in published
       /\ clock - since[kid[c]] > CacheTTL + FetchTimeout
     => verdict'[c] = "accepted"

(* A set fetched since the key was published holds it.                     *)
LEMMA StepRotatesIn == IInv => StepRotates
<1>. SUFFICES ASSUME IInv, NEW c \in Calls, outcome'.ok, kid[c] \in published,
                     clock - since[kid[c]] > CacheTTL + FetchTimeout,
                     UseCache(c, TRUE) \/ FetchSucceeds(c, TRUE)
              PROVE  verdict'[c] = "accepted"
  BY DEF StepRotates
<1>. USE KeyCacheAssumption
<1>0. clock \in Nat /\ since[kid[c]] \in Nat /\ kid[c] \in Keys
  BY DEF IInv, TypeOK, Times
<1>1. CASE UseCache(c, TRUE)
  <2>1. clock < nextRefresh /\ outcome.ok
    BY <1>0, <1>1 DEF UseCache, Due, historyVars, IInv, TypeOK
  <2>2. outcome.at # Never
    BY <1>0, <2>1 DEF IInv, InStep
  <2>3. fetchedAt = outcome.at /\ fetchedAt \in Nat /\ nextRefresh = fetchedAt + CacheTTL
    BY <2>1, <2>2 DEF IInv, InStep, TypeOK, Times, Delay
  <2>4. ~ (since[kid[c]] + FetchTimeout >= fetchedAt)
    BY <1>0, <2>1, <2>3
  <2>5. kid[c] \in keys /\ fetchedAt # Never
    BY <1>0, <2>2, <2>3, <2>4 DEF IInv, CacheFresh
  <2>6. clock - fetchedAt < MaxKeyAge
    BY <1>0, <2>1, <2>3
  <2>. QED BY <1>1, <2>5, <2>6 DEF UseCache, Judge, Verifies, IInv, TypeOK
<1>2. CASE FetchSucceeds(c, TRUE)
  <2>1. pc[c] = "fetching" /\ answer.given
    BY <1>2 DEF FetchSucceeds
  <2>2. startedAt \in Nat /\ clock <= startedAt + FetchTimeout
    BY <2>1 DEF IInv, TypeOK, Times, Serial, Fetching
  <2>3. ~ (since[kid[c]] >= startedAt)
    BY <1>0, <2>2
  <2>4. kid[c] \in answer.keys
    BY <1>0, <2>1, <2>3 DEF IInv, AnswerFresh
  <2>5. clock # Never /\ clock - clock < MaxKeyAge
    BY <1>0
  <2>. QED BY <1>2, <2>4, <2>5 DEF FetchSucceeds, Judge, Verifies, IInv, TypeOK
<1>. QED BY <1>1, <1>2

(* A newly published key verifies a cache period later unless the last     *)
(* refresh failed (keys, verify).                                          *)
THEOREM RotationTakesEffectHolds == Spec => RotationTakesEffect
<1>1. Spec => [][StepRotates]_vars
  BY InvariantHolds, StepRotatesIn, PTL DEF Spec
<1>. QED BY <1>1 DEF RotationTakesEffect, StepRotates

(* What OutcomesSpaced says of a step.                                     *)
StepSpaces == Starts /\ outcome.at # Never => clock - outcome.at >= RetryAfter

(* Only a cache that is due is fetched, and it is due a delay after.       *)
LEMMA StepSpacesFetches == IInv /\ [Next]_vars => [StepSpaces]_vars
<1>. SUFFICES ASSUME IInv, Next, Starts, outcome.at # Never PROVE clock - outcome.at >= RetryAfter
  BY DEF StepSpaces
<1>. USE KeyCacheAssumption
<1>1. ASSUME ~ \E c \in Calls : StartFetch(c) PROVE FALSE
  <2>1. \A c \in Calls : pc[c] # "fetching"
    BY DEF Starts, Fetching
  <2>2. PICK d \in Calls : pc'[d] = "fetching"
    BY DEF Starts, Fetching
  <2>3. ASSUME NEW c \in Calls, CallStep(c) PROVE FALSE
    <3>1. pc' = [pc EXCEPT ![c] = "waiting"] \/ pc' = [pc EXCEPT ![c] = "idle"]
      BY <1>1, <2>1, <2>3 DEF CallStep, Present, UseCache, FetchSucceeds, FetchFails, Cancel, Judge
    <3>. QED BY <2>1, <2>2, <3>1 DEF IInv, TypeOK
  <2>. QED BY <2>1, <2>2, <2>3 DEF Next, Change, Answer, Tick
<1>2. clock >= nextRefresh
  BY <1>1 DEF StartFetch, Due
<1>3. clock \in Nat /\ outcome.at \in Nat /\ nextRefresh = outcome.at + Delay(outcome.ok)
  BY DEF IInv, InStep, TypeOK, Times
<1>4. Delay(outcome.ok) \in Nat /\ Delay(outcome.ok) >= RetryAfter
  BY DEF Delay
<1>. QED BY <1>2, <1>3, <1>4

(* A fetch that ended is followed by none for the retry interval, however  *)
(* many requests wait or are cancelled (keys).                             *)
THEOREM OutcomesSpacedHolds == Spec => OutcomesSpaced
<1>1. Spec => [][StepSpaces]_vars
  BY InvariantHolds, StepSpacesFetches, PTL DEF Spec
<1>. QED BY <1>1 DEF OutcomesSpaced, StepSpaces
=============================================================================
