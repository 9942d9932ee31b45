--------------------------- MODULE FilePlaneProofs ---------------------------
(***************************************************************************)
(* Proofs about FilePlane: its types, its cap, single use, the windows of  *)
(* validity, the wiping of what has expired and the keeping of what has    *)
(* not, for every set of uploads, transfers and calls, every lifetime and  *)
(* every bound.                                                            *)
(***************************************************************************)
EXTENDS FilePlane, FiniteSetTheorems, WellFoundedInduction, TLAPS

-----------------------------------------------------------------------------
(* The least expiry *)

(* A set of natural numbers that is not empty has a least element: the     *)
(* intervals from zero to its elements have one by inclusion.              *)
LEMMA LeastNatural ==
  ASSUME NEW S \in SUBSET Nat, S # {}
  PROVE  \E e \in S : \A f \in S : e <= f
<1>. DEFINE Below == {0 .. e : e \in S}
<1>1. Below \subseteq FiniteSubsetsOf(Nat) /\ Below # {}
  <2>1. \A e \in S : IsFiniteSet(0 .. e)
    BY FS_Interval
  <2>2. \A e \in S : 0 .. e \in SUBSET Nat
    OBVIOUS
  <2>3. \A e \in S : 0 .. e \in FiniteSubsetsOf(Nat)
    BY <2>1, <2>2 DEF FiniteSubsetsOf
  <2>. QED BY <2>3, Zenon
<1>2. PICK b \in Below : \A c \in Below : ~ (<<c, b>> \in StrictSubsetOrdering(Nat))
  <2>. HIDE DEF Below
  <2>. QED BY <1>1, FS_StrictSubsetOrderingWellFounded, WFMin
<1>3. PICK e \in S : b = 0 .. e
  OBVIOUS
<1>4. ASSUME NEW f \in S, f < e PROVE FALSE
  <2>1. 0 .. f \in Below /\ 0 .. f \subseteq 0 .. e /\ e \notin 0 .. f /\ e \in 0 .. e
    BY <1>4
  <2>2. <<0 .. f, b>> \in StrictSubsetOrdering(Nat)
    BY <1>3, <2>1 DEF StrictSubsetOrdering
  <2>. QED BY <1>2, <2>1, <2>2
<1>. QED BY <1>4

-----------------------------------------------------------------------------
(* The invariant *)

(* Whoever holds the lock of the tickets is staging a body, and nobody     *)
(* else; a transfer past verify_upload has an upload.                      *)
Structure ==
  /\ IsFiniteSet(tickets) /\ IsFiniteSet(staged)
  /\ \A t \in Transfers : transfer[t].at = "staging" <=> ticketLock = t
  /\ \A t \in Transfers : transfer[t].at # "idle" => transfer[t].of \in Uploads

(* How far each upload is: not issued, a ticket, about to be staged, or    *)
(* staged, and each of them once.                                          *)
Stages ==
  /\ \A u \in Uploads : issuedAt[u] = Never => stagings[u] = 0
  /\ \A u \in tickets : issuedAt[u] # Never /\ stagings[u] = 0
  /\ \A t \in Transfers : transfer[t].at = "staging" =>
       LET u == transfer[t].of IN issuedAt[u] # Never /\ stagings[u] = 0 /\ u \notin tickets
  /\ \A u \in staged : issuedAt[u] # Never /\ stagings[u] = 1 /\ takings[u] = 0

(* No lifetime is longer than its stage allows, and no sweep uses a time   *)
(* to come.                                                                *)
Windows ==
  /\ \A u \in tickets : expiresAt[u] = issuedAt[u] + TTL
  /\ \A t \in Transfers : transfer[t].at = "staging" => clock <= issuedAt[transfer[t].of] + TTL
  /\ \A u \in staged : expiresAt[u] <= issuedAt[u] + 2 * TTL
  /\ \A u \in tickets \cup staged : expiresAt[u] <= clock + TTL
  /\ \A a \in Authorizers : authorizer[a].now <= clock
  /\ worker.now <= clock

(* The worker's sleep ends before anything it may have to wipe is more     *)
(* than a millisecond over; while it runs no time passes, and what it has  *)
(* swept is live.                                                          *)
Waking ==
  /\ worker.at = "asleep" =>
       /\ clock <= wakeAt /\ wakeAt <= clock + TTL + 1
       /\ \A u \in tickets \cup staged : wakeAt <= expiresAt[u] + 1
  /\ worker.at # "asleep" => worker.now = clock
  /\ worker.at \in {"tickets", "staged"} => WipedOnTime
  /\ worker.at \in {"staged", "sleep"} => \A u \in tickets : clock <= expiresAt[u]
  /\ worker.at = "sleep" => \A u \in staged : clock <= expiresAt[u]

IInv == TypeOK /\ Structure /\ Stages /\ Windows /\ Waking /\ SingleUse /\ Capacity

-----------------------------------------------------------------------------
(* Each part is kept by every step *)

(* Types.  The end of a sleep is the least expiry, or a time of its own.   *)
LEMMA NextKeepsTypes == (TypeOK /\ Structure /\ Stages) /\ [Next]_vars => TypeOK'
<1>. SUFFICES ASSUME (TypeOK /\ Structure /\ Stages), [Next]_vars PROVE TypeOK'
  OBVIOUS
<1>. USE FilePlaneAssumption
<1>1. ASSUME NEW a \in Authorizers, StartAuthorize(a) PROVE TypeOK'
  BY <1>1 DEF StartAuthorize, Unissued, TypeOK, Structure, Times, Contents, plane, history
<1>2. ASSUME NEW a \in Authorizers, AuthorizeSweepsTickets(a) PROVE TypeOK'
  BY <1>2 DEF AuthorizeSweepsTickets, SweepTickets, Live, TypeOK, Structure, Times, Contents, history
<1>3. ASSUME NEW a \in Authorizers, AuthorizeSweepsStaged(a) PROVE TypeOK'
  BY <1>3 DEF AuthorizeSweepsStaged, SweepStaged, Live, TypeOK, Structure, Times, Contents, history
<1>4. ASSUME NEW a \in Authorizers, Authorize(a) PROVE TypeOK'
  BY <1>4 DEF Authorize, Unissued, TypeOK, Stages, Times
<1>5. ASSUME NEW t \in Transfers, NEW u \in Uploads, Verify(t, u) PROVE TypeOK'
  <2>1. CASE Valid(u)
    BY <1>5, <2>1 DEF Verify, TypeOK, Times, history
  <2>2. CASE ~ Valid(u)
    BY <1>5, <2>2 DEF Verify, TypeOK, Times, history
  <2>. QED BY <2>1, <2>2
<1>6. ASSUME NEW t \in Transfers, TakeSlot(t) PROVE TypeOK'
  BY <1>6 DEF TakeSlot, Reading, TypeOK, Structure, Times, Contents, plane, history
<1>7. ASSUME NEW t \in Transfers, Abandon(t) PROVE TypeOK'
  BY <1>7 DEF Abandon, EndTransfer, TypeOK, Structure, Times, Contents, plane, history
<1>8. ASSUME NEW t \in Transfers, NEW body \in Contents, Receive(t, body) PROVE TypeOK'
  <2>1. CASE Valid(transfer[t].of) /\ body # "mismatched"
    <3>1. /\ tickets' = tickets \ {transfer[t].of} /\ ticketLock' = t /\ transfer[t].of \in Uploads
          /\ content' = [content EXCEPT ![transfer[t].of] = body]
          /\ transfer' = [transfer EXCEPT ![t].at = "staging"]
          /\ UNCHANGED <<clock, staged, expiresAt, authorizer, worker, wakeAt, history>>
      BY <1>8, <2>1 DEF Receive, Structure
    <3>. QED BY <3>1 DEF TypeOK, Times, history
  <2>2. CASE ~ (Valid(transfer[t].of) /\ body # "mismatched")
    <3>1. /\ tickets' = tickets \ {transfer[t].of} /\ EndTransfer(t)
          /\ UNCHANGED <<clock, staged, expiresAt, content, ticketLock, authorizer, worker, wakeAt, history>>
      BY <1>8, <2>2 DEF Receive
    <3>. QED BY <3>1 DEF EndTransfer, TypeOK, Times, history
  <2>. QED BY <2>1, <2>2
<1>9. ASSUME NEW t \in Transfers, Stage(t) PROVE TypeOK'
  <2>1. transfer[t].of \in Uploads /\ transfer[t].of \notin tickets
    BY <1>9 DEF Stage, Structure, Stages
  <2>2. expiresAt' \in [Uploads -> 0 .. (MaxTime + TTL)] /\ stagings' \in [Uploads -> Nat]
    BY <1>9, <2>1 DEF Stage, TypeOK, Times
  <2>. QED BY <1>9, <2>1, <2>2 DEF Stage, EndTransfer, TypeOK
<1>10. ASSUME NEW u \in Uploads, TakeSecret(u) PROVE TypeOK'
  <2>1. takings' \in [Uploads -> Nat]
    BY <1>10 DEF TakeSecret, TypeOK
  <2>. QED BY <1>10, <2>1 DEF TakeSecret, TypeOK
<1>11. ASSUME Wake PROVE TypeOK'
  BY <1>11 DEF Wake, TypeOK, Structure, Times, Contents, plane, history
<1>12. ASSUME WorkerSweepsTickets PROVE TypeOK'
  BY <1>12 DEF WorkerSweepsTickets, SweepTickets, Live, TypeOK, Structure, Times, Contents, history
<1>13. ASSUME WorkerSweepsStaged PROVE TypeOK'
  BY <1>13 DEF WorkerSweepsStaged, SweepStaged, Live, TypeOK, Structure, Times, Contents, history
<1>14. ASSUME Sleep PROVE TypeOK'
  <2>1. Expiries \subseteq 0 .. (MaxTime + TTL)
    BY DEF Expiries, TypeOK
  <2>2. ASSUME Expiries # {} PROVE NextExpiry \in Expiries
    <3>1. \E e \in Expiries : \A f \in Expiries : e <= f
      BY <2>1, <2>2, LeastNatural
    <3>. QED BY <3>1 DEF NextExpiry
  <2>3. CASE Expiries = {}
    BY <1>14, <2>3 DEF Sleep, SleepsUntil, TypeOK, Times, plane, history
  <2>4. CASE Expiries # {}
    <3>1. NextExpiry \in 0 .. (MaxTime + TTL)
      BY <2>1, <2>2, <2>4
    <3>. QED BY <1>14, <2>4, <3>1 DEF Sleep, SleepsUntil, TypeOK, Times, plane, history
  <2>. QED BY <2>3, <2>4
<1>15. ASSUME Tick PROVE TypeOK'
  BY <1>15 DEF Tick, TypeOK, Structure, Times, Contents, plane, history
<1>16. CASE UNCHANGED vars
  BY <1>16 DEF TypeOK, Structure, Times, Contents, vars, plane, history
<1>. QED
  BY <1>1, <1>2, <1>3, <1>4, <1>5, <1>6, <1>7, <1>8, <1>9, <1>10, <1>11, <1>12, <1>13, <1>14, <1>15,
       <1>16 DEF Next, AuthorizerStep, TransferStep, WorkerStep

(* Whoever stages holds the lock.                                          *)
LEMMA NextKeepsStructure == (TypeOK /\ Structure) /\ [Next]_vars => Structure'
<1>. SUFFICES ASSUME (TypeOK /\ Structure), [Next]_vars PROVE Structure'
  OBVIOUS
<1>. USE FilePlaneAssumption, FS_AddElement, FS_RemoveElement, FS_Subset
<1>1. ASSUME NEW a \in Authorizers, StartAuthorize(a) PROVE Structure'
  BY <1>1 DEF StartAuthorize, Unissued, TypeOK, Structure, plane, history
<1>2. ASSUME NEW a \in Authorizers, AuthorizeSweepsTickets(a) PROVE Structure'
  BY <1>2 DEF AuthorizeSweepsTickets, SweepTickets, Live, TypeOK, Structure, history
<1>3. ASSUME NEW a \in Authorizers, AuthorizeSweepsStaged(a) PROVE Structure'
  BY <1>3 DEF AuthorizeSweepsStaged, SweepStaged, Live, TypeOK, Structure, history
<1>4. ASSUME NEW a \in Authorizers, Authorize(a) PROVE Structure'
  BY <1>4 DEF Authorize, Unissued, Outstanding, TypeOK, Structure
<1>5. ASSUME NEW t \in Transfers, NEW u \in Uploads, Verify(t, u) PROVE Structure'
  <2>1. IsFiniteSet(tickets') /\ IsFiniteSet(staged')
    BY <1>5, FS_RemoveElement DEF Verify, Valid, Structure
  <2>2. /\ \A x \in Transfers : transfer'[x].at = "staging" <=> ticketLock' = x
        /\ \A x \in Transfers : transfer'[x].at # "idle" => transfer'[x].of \in Uploads
    <3>1. CASE Valid(u)
      <4>1. /\ ticketLock = Nobody /\ ticketLock' = ticketLock
            /\ transfer' = [transfer EXCEPT ![t] = [at |-> "waiting", of |-> u]]
        BY <1>5, <3>1 DEF Verify
      <4>2. \A x \in Transfers : transfer'[x] = IF x = t THEN [at |-> "waiting", of |-> u] ELSE transfer[x]
        BY <4>1 DEF TypeOK
      <4>. QED BY <4>1, <4>2 DEF Structure
    <3>2. CASE ~ Valid(u)
      <4>1. transfer' = transfer /\ ticketLock' = ticketLock
        BY <1>5, <3>2 DEF Verify
      <4>. QED BY <4>1 DEF Structure
    <3>. QED BY <3>1, <3>2
  <2>. QED BY <2>1, <2>2 DEF Structure
<1>6. ASSUME NEW t \in Transfers, TakeSlot(t) PROVE Structure'
  BY <1>6 DEF TakeSlot, Reading, TypeOK, Structure, plane, history
<1>7. ASSUME NEW t \in Transfers, Abandon(t) PROVE Structure'
  BY <1>7 DEF Abandon, EndTransfer, TypeOK, Structure, plane, history
<1>8. ASSUME NEW t \in Transfers, NEW body \in Contents, Receive(t, body) PROVE Structure'
  <2>1. IsFiniteSet(tickets') /\ IsFiniteSet(staged')
    BY <1>8, FS_RemoveElement DEF Receive, Structure
  <2>2. /\ \A x \in Transfers : transfer'[x].at = "staging" <=> ticketLock' = x
        /\ \A x \in Transfers : transfer'[x].at # "idle" => transfer'[x].of \in Uploads
    <3>1. CASE Valid(transfer[t].of) /\ body # "mismatched"
      <4>1. /\ ticketLock = Nobody /\ ticketLock' = t /\ transfer[t].at = "reading"
            /\ transfer' = [transfer EXCEPT ![t].at = "staging"]
        BY <1>8, <3>1 DEF Receive
      <4>2. \A x \in Transfers : /\ transfer'[x].at = IF x = t THEN "staging" ELSE transfer[x].at
                                 /\ transfer'[x].of = transfer[x].of
        BY <4>1 DEF TypeOK
      <4>. QED BY <4>1, <4>2 DEF Structure
    <3>2. CASE ~ (Valid(transfer[t].of) /\ body # "mismatched")
      <4>1. ticketLock = Nobody /\ ticketLock' = ticketLock /\ EndTransfer(t)
        BY <1>8, <3>2 DEF Receive
      <4>2. \A x \in Transfers : transfer'[x] = IF x = t THEN [at |-> "idle", of |-> NoUpload] ELSE transfer[x]
        BY <4>1 DEF EndTransfer, TypeOK
      <4>. QED BY <4>1, <4>2 DEF Structure
    <3>. QED BY <3>1, <3>2
  <2>. QED BY <2>1, <2>2 DEF Structure
<1>9. ASSUME NEW t \in Transfers, Stage(t) PROVE Structure'
  <2>1. IsFiniteSet(tickets') /\ IsFiniteSet(staged')
    BY <1>9, FS_AddElement DEF Stage, EndTransfer, Structure
  <2>2. /\ \A x \in Transfers : transfer'[x].at = "staging" <=> ticketLock' = x
        /\ \A x \in Transfers : transfer'[x].at # "idle" => transfer'[x].of \in Uploads
    BY <1>9 DEF Stage, EndTransfer, TypeOK, Structure, plane, history
  <2>. QED BY <2>1, <2>2 DEF Structure
<1>10. ASSUME NEW u \in Uploads, TakeSecret(u) PROVE Structure'
  BY <1>10 DEF TakeSecret, Usable, TypeOK, Structure
<1>11. ASSUME Wake PROVE Structure'
  BY <1>11 DEF Wake, TypeOK, Structure, plane, history
<1>12. ASSUME WorkerSweepsTickets PROVE Structure'
  BY <1>12 DEF WorkerSweepsTickets, SweepTickets, Live, TypeOK, Structure, history
<1>13. ASSUME WorkerSweepsStaged PROVE Structure'
  BY <1>13 DEF WorkerSweepsStaged, SweepStaged, Live, TypeOK, Structure, history
<1>14. ASSUME Sleep PROVE Structure'
  BY <1>14 DEF Sleep, TypeOK, Structure, plane, history
<1>15. ASSUME Tick PROVE Structure'
  BY <1>15 DEF Tick, TypeOK, Structure, plane, history
<1>16. CASE UNCHANGED vars
  BY <1>16 DEF TypeOK, Structure, vars, plane, history
<1>. QED
  BY <1>1, <1>2, <1>3, <1>4, <1>5, <1>6, <1>7, <1>8, <1>9, <1>10, <1>11, <1>12, <1>13, <1>14, <1>15,
       <1>16 DEF Next, AuthorizerStep, TransferStep, WorkerStep

(* An upload goes from stage to stage, and through each once.              *)
LEMMA NextKeepsStages == (TypeOK /\ Structure /\ Stages /\ SingleUse) /\ [Next]_vars => Stages'
<1>. SUFFICES ASSUME (TypeOK /\ Structure /\ Stages /\ SingleUse), [Next]_vars PROVE Stages'
  OBVIOUS
<1>. USE FilePlaneAssumption
<1>1. ASSUME NEW a \in Authorizers, StartAuthorize(a) PROVE Stages'
  BY <1>1 DEF StartAuthorize, Unissued, TypeOK, Structure, Stages, SingleUse, plane, history
<1>2. ASSUME NEW a \in Authorizers, AuthorizeSweepsTickets(a) PROVE Stages'
  BY <1>2 DEF AuthorizeSweepsTickets, SweepTickets, Live, TypeOK, Structure, Stages, SingleUse, history
<1>3. ASSUME NEW a \in Authorizers, AuthorizeSweepsStaged(a) PROVE Stages'
  BY <1>3 DEF AuthorizeSweepsStaged, SweepStaged, Live, TypeOK, Structure, Stages, SingleUse, history
<1>4. ASSUME NEW a \in Authorizers, Authorize(a) PROVE Stages'
  <2>1. CASE \E u \in Unissued : /\ tickets' = tickets \cup {u}
                                 /\ issuedAt' = [issuedAt EXCEPT ![u] = clock]
    <3>1. PICK u \in Unissued : /\ tickets' = tickets \cup {u}
                              /\ issuedAt' = [issuedAt EXCEPT ![u] = clock]
      BY <2>1
    <3>2. /\ UNCHANGED <<staged, transfer, stagings, takings>>
          /\ ticketLock = Nobody
      BY <1>4 DEF Authorize
    <3>3. u \in Uploads /\ stagings[u] = 0 /\ clock # Never
      BY DEF Unissued, Stages, TypeOK, Times
    <3>4. \A v \in Uploads : issuedAt'[v] = IF v = u THEN clock ELSE issuedAt[v]
      BY <3>1, <3>3 DEF TypeOK
    <3>5. \A x \in Transfers : transfer[x].at # "staging"
      BY <3>2 DEF Structure
    <3>. QED BY <3>1, <3>2, <3>3, <3>4, <3>5 DEF Stages, TypeOK
  <2>2. CASE UNCHANGED <<tickets, expiresAt, issuedAt>>
    BY <1>4, <2>2 DEF Authorize, Stages
  <2>. QED
    <3>1. \/ \E u \in Unissued : /\ tickets' = tickets \cup {u}
                               /\ issuedAt' = [issuedAt EXCEPT ![u] = clock]
          \/ UNCHANGED <<tickets, expiresAt, issuedAt>>
      BY <1>4 DEF Authorize
    <3>. QED BY <2>1, <2>2, <3>1
<1>5. ASSUME NEW t \in Transfers, NEW u \in Uploads, Verify(t, u) PROVE Stages'
  BY <1>5 DEF Verify, Valid, TypeOK, Structure, Stages, SingleUse, history
<1>6. ASSUME NEW t \in Transfers, TakeSlot(t) PROVE Stages'
  BY <1>6 DEF TakeSlot, Reading, TypeOK, Structure, Stages, SingleUse, plane, history
<1>7. ASSUME NEW t \in Transfers, Abandon(t) PROVE Stages'
  BY <1>7 DEF Abandon, EndTransfer, TypeOK, Structure, Stages, SingleUse, plane, history
<1>8. ASSUME NEW t \in Transfers, NEW body \in Contents, Receive(t, body) PROVE Stages'
  BY <1>8 DEF Receive, EndTransfer, Valid, Contents, TypeOK, Structure, Stages, SingleUse, history
<1>9. ASSUME NEW t \in Transfers, Stage(t) PROVE Stages'
  BY <1>9 DEF Stage, EndTransfer, TypeOK, Structure, Stages, SingleUse
<1>10. ASSUME NEW u \in Uploads, TakeSecret(u) PROVE Stages'
  BY <1>10 DEF TakeSecret, Usable, TypeOK, Structure, Stages, SingleUse
<1>11. ASSUME Wake PROVE Stages'
  BY <1>11 DEF Wake, TypeOK, Structure, Stages, SingleUse, plane, history
<1>12. ASSUME WorkerSweepsTickets PROVE Stages'
  BY <1>12 DEF WorkerSweepsTickets, SweepTickets, Live, TypeOK, Structure, Stages, SingleUse, history
<1>13. ASSUME WorkerSweepsStaged PROVE Stages'
  BY <1>13 DEF WorkerSweepsStaged, SweepStaged, Live, TypeOK, Structure, Stages, SingleUse, history
<1>14. ASSUME Sleep PROVE Stages'
  BY <1>14 DEF Sleep, TypeOK, Structure, Stages, SingleUse, plane, history
<1>15. ASSUME Tick PROVE Stages'
  BY <1>15 DEF Tick, TypeOK, Structure, Stages, SingleUse, plane, history
<1>16. CASE UNCHANGED vars
  BY <1>16 DEF TypeOK, Structure, Stages, SingleUse, vars, plane, history
<1>. QED
  BY <1>1, <1>2, <1>3, <1>4, <1>5, <1>6, <1>7, <1>8, <1>9, <1>10, <1>11, <1>12, <1>13, <1>14, <1>15,
       <1>16 DEF Next, AuthorizerStep, TransferStep, WorkerStep

(* A body is staged after none was, a secret taken after none was.         *)
LEMMA NextKeepsSingleUse == (TypeOK /\ Structure /\ Stages /\ SingleUse) /\ [Next]_vars => SingleUse'
<1>. SUFFICES ASSUME (TypeOK /\ Structure /\ Stages /\ SingleUse), [Next]_vars PROVE SingleUse'
  OBVIOUS
<1>. USE FilePlaneAssumption
<1>1. ASSUME NEW a \in Authorizers, StartAuthorize(a) PROVE SingleUse'
  BY <1>1 DEF StartAuthorize, Unissued, TypeOK, Structure, Stages, SingleUse, plane, history
<1>2. ASSUME NEW a \in Authorizers, AuthorizeSweepsTickets(a) PROVE SingleUse'
  BY <1>2 DEF AuthorizeSweepsTickets, SweepTickets, Live, TypeOK, Structure, Stages, SingleUse, history
<1>3. ASSUME NEW a \in Authorizers, AuthorizeSweepsStaged(a) PROVE SingleUse'
  BY <1>3 DEF AuthorizeSweepsStaged, SweepStaged, Live, TypeOK, Structure, Stages, SingleUse, history
<1>4. ASSUME NEW a \in Authorizers, Authorize(a) PROVE SingleUse'
  BY <1>4 DEF Authorize, Unissued, Outstanding, TypeOK, Structure, Stages, SingleUse
<1>5. ASSUME NEW t \in Transfers, NEW u \in Uploads, Verify(t, u) PROVE SingleUse'
  BY <1>5 DEF Verify, Valid, TypeOK, Structure, Stages, SingleUse, history
<1>6. ASSUME NEW t \in Transfers, TakeSlot(t) PROVE SingleUse'
  BY <1>6 DEF TakeSlot, Reading, TypeOK, Structure, Stages, SingleUse, plane, history
<1>7. ASSUME NEW t \in Transfers, Abandon(t) PROVE SingleUse'
  BY <1>7 DEF Abandon, EndTransfer, TypeOK, Structure, Stages, SingleUse, plane, history
<1>8. ASSUME NEW t \in Transfers, NEW body \in Contents, Receive(t, body) PROVE SingleUse'
  BY <1>8 DEF Receive, EndTransfer, Valid, Contents, TypeOK, Structure, Stages, SingleUse, history
<1>9. ASSUME NEW t \in Transfers, Stage(t) PROVE SingleUse'
  BY <1>9 DEF Stage, EndTransfer, TypeOK, Structure, Stages, SingleUse
<1>10. ASSUME NEW u \in Uploads, TakeSecret(u) PROVE SingleUse'
  BY <1>10 DEF TakeSecret, Usable, TypeOK, Structure, Stages, SingleUse
<1>11. ASSUME Wake PROVE SingleUse'
  BY <1>11 DEF Wake, TypeOK, Structure, Stages, SingleUse, plane, history
<1>12. ASSUME WorkerSweepsTickets PROVE SingleUse'
  BY <1>12 DEF WorkerSweepsTickets, SweepTickets, Live, TypeOK, Structure, Stages, SingleUse, history
<1>13. ASSUME WorkerSweepsStaged PROVE SingleUse'
  BY <1>13 DEF WorkerSweepsStaged, SweepStaged, Live, TypeOK, Structure, Stages, SingleUse, history
<1>14. ASSUME Sleep PROVE SingleUse'
  BY <1>14 DEF Sleep, TypeOK, Structure, Stages, SingleUse, plane, history
<1>15. ASSUME Tick PROVE SingleUse'
  BY <1>15 DEF Tick, TypeOK, Structure, Stages, SingleUse, plane, history
<1>16. CASE UNCHANGED vars
  BY <1>16 DEF TypeOK, Structure, Stages, SingleUse, vars, plane, history
<1>. QED
  BY <1>1, <1>2, <1>3, <1>4, <1>5, <1>6, <1>7, <1>8, <1>9, <1>10, <1>11, <1>12, <1>13, <1>14, <1>15,
       <1>16 DEF Next, AuthorizerStep, TransferStep, WorkerStep

(* Each stage starts a lifetime within the one before.                     *)
LEMMA NextKeepsWindows == (TypeOK /\ Structure /\ Stages /\ Windows) /\ [Next]_vars => Windows'
<1>. SUFFICES ASSUME (TypeOK /\ Structure /\ Stages /\ Windows), [Next]_vars PROVE Windows'
  OBVIOUS
<1>. USE FilePlaneAssumption
<1>1. ASSUME NEW a \in Authorizers, StartAuthorize(a) PROVE Windows'
  BY <1>1 DEF StartAuthorize, Unissued, TypeOK, Times, Structure, Stages, Windows, plane, history
<1>2. ASSUME NEW a \in Authorizers, AuthorizeSweepsTickets(a) PROVE Windows'
  BY <1>2
   DEF AuthorizeSweepsTickets, SweepTickets, Live, TypeOK, Times, Structure, Stages, Windows, history
<1>3. ASSUME NEW a \in Authorizers, AuthorizeSweepsStaged(a) PROVE Windows'
  BY <1>3
   DEF AuthorizeSweepsStaged, SweepStaged, Live, TypeOK, Times, Structure, Stages, Windows, history
<1>4. ASSUME NEW a \in Authorizers, Authorize(a) PROVE Windows'
  <2>1. CASE \E u \in Unissued : /\ tickets' = tickets \cup {u}
                                 /\ expiresAt' = [expiresAt EXCEPT ![u] = clock + TTL]
                                 /\ issuedAt' = [issuedAt EXCEPT ![u] = clock]
    <3>1. PICK u \in Unissued : /\ tickets' = tickets \cup {u}
                                 /\ expiresAt' = [expiresAt EXCEPT ![u] = clock + TTL]
                                 /\ issuedAt' = [issuedAt EXCEPT ![u] = clock]
      BY <2>1
    <3>. QED BY <1>4, <3>1 DEF Authorize, Unissued, TypeOK, Times, Structure, Stages, Windows, plane, history
  <2>2. CASE UNCHANGED <<tickets, expiresAt, issuedAt>>
    BY <1>4, <2>2 DEF Authorize, TypeOK, Times, Structure, Stages, Windows, plane, history
  <2>. QED BY <1>4, <2>1, <2>2 DEF Authorize
<1>5. ASSUME NEW t \in Transfers, NEW u \in Uploads, Verify(t, u) PROVE Windows'
  <2>1. CASE Valid(u)
    BY <1>5, <2>1 DEF Verify, TypeOK, Times, Structure, Stages, Windows, plane, history
  <2>2. CASE ~ Valid(u)
    BY <1>5, <2>2 DEF Verify, TypeOK, Times, Structure, Stages, Windows, plane, history
  <2>. QED BY <2>1, <2>2
<1>6. ASSUME NEW t \in Transfers, TakeSlot(t) PROVE Windows'
  BY <1>6 DEF TakeSlot, Reading, TypeOK, Times, Structure, Stages, Windows, plane, history
<1>7. ASSUME NEW t \in Transfers, Abandon(t) PROVE Windows'
  BY <1>7 DEF Abandon, EndTransfer, TypeOK, Times, Structure, Stages, Windows, plane, history
<1>8. ASSUME NEW t \in Transfers, NEW body \in Contents, Receive(t, body) PROVE Windows'
  BY <1>8 DEF Receive, EndTransfer, Valid, Contents, TypeOK, Times, Structure, Stages, Windows, history
<1>9. ASSUME NEW t \in Transfers, Stage(t) PROVE Windows'
  BY <1>9 DEF Stage, EndTransfer, TypeOK, Times, Structure, Stages, Windows
<1>10. ASSUME NEW u \in Uploads, TakeSecret(u) PROVE Windows'
  BY <1>10 DEF TakeSecret, Usable, TypeOK, Times, Structure, Stages, Windows
<1>11. ASSUME Wake PROVE Windows'
  BY <1>11 DEF Wake, TypeOK, Times, Structure, Stages, Windows, plane, history
<1>12. ASSUME WorkerSweepsTickets PROVE Windows'
  BY <1>12
   DEF WorkerSweepsTickets, SweepTickets, Live, TypeOK, Times, Structure, Stages, Windows, history
<1>13. ASSUME WorkerSweepsStaged PROVE Windows'
  BY <1>13 DEF WorkerSweepsStaged, SweepStaged, Live, TypeOK, Times, Structure, Stages, Windows, history
<1>14. ASSUME Sleep PROVE Windows'
  BY <1>14 DEF Sleep, TypeOK, Times, Structure, Stages, Windows, plane, history
<1>15. ASSUME Tick PROVE Windows'
  BY <1>15 DEF Tick, TypeOK, Times, Structure, Stages, Windows, plane, history
<1>16. CASE UNCHANGED vars
  BY <1>16 DEF TypeOK, Times, Structure, Stages, Windows, vars, plane, history
<1>. QED
  BY <1>1, <1>2, <1>3, <1>4, <1>5, <1>6, <1>7, <1>8, <1>9, <1>10, <1>11, <1>12, <1>13, <1>14, <1>15,
       <1>16 DEF Next, AuthorizerStep, TransferStep, WorkerStep

(* The worker is up before anything is a millisecond over.                 *)
LEMMA NextKeepsWaking == (TypeOK /\ Structure /\ Windows /\ Waking) /\ [Next]_vars => Waking'
<1>. SUFFICES ASSUME (TypeOK /\ Structure /\ Windows /\ Waking), [Next]_vars PROVE Waking'
  OBVIOUS
<1>. USE FilePlaneAssumption
<1>1. ASSUME NEW a \in Authorizers, StartAuthorize(a) PROVE Waking'
  BY <1>1 DEF StartAuthorize, Unissued, TypeOK, Times, Structure, Windows, Waking, WipedOnTime,
       plane, history
<1>2. ASSUME NEW a \in Authorizers, AuthorizeSweepsTickets(a) PROVE Waking'
  BY <1>2 DEF AuthorizeSweepsTickets, SweepTickets, Live, TypeOK, Times, Structure, Windows, Waking,
       WipedOnTime, history
<1>3. ASSUME NEW a \in Authorizers, AuthorizeSweepsStaged(a) PROVE Waking'
  BY <1>3 DEF AuthorizeSweepsStaged, SweepStaged, Live, TypeOK, Times, Structure, Windows, Waking,
       WipedOnTime, history
<1>4. ASSUME NEW a \in Authorizers, Authorize(a) PROVE Waking'
  BY <1>4 DEF Authorize, Unissued, Outstanding, TypeOK, Times, Structure, Windows, Waking, WipedOnTime
<1>5. ASSUME NEW t \in Transfers, NEW u \in Uploads, Verify(t, u) PROVE Waking'
  BY <1>5 DEF Verify, Valid, TypeOK, Times, Structure, Windows, Waking, WipedOnTime, history
<1>6. ASSUME NEW t \in Transfers, TakeSlot(t) PROVE Waking'
  BY <1>6 DEF TakeSlot, Reading, TypeOK, Times, Structure, Windows, Waking, WipedOnTime, plane, history
<1>7. ASSUME NEW t \in Transfers, Abandon(t) PROVE Waking'
  BY <1>7
   DEF Abandon, EndTransfer, TypeOK, Times, Structure, Windows, Waking, WipedOnTime, plane, history
<1>8. ASSUME NEW t \in Transfers, NEW body \in Contents, Receive(t, body) PROVE Waking'
  BY <1>8 DEF Receive, EndTransfer, Valid, Contents, TypeOK, Times, Structure, Windows, Waking,
       WipedOnTime, history
<1>9. ASSUME NEW t \in Transfers, Stage(t) PROVE Waking'
  BY <1>9 DEF Stage, EndTransfer, TypeOK, Times, Structure, Windows, Waking, WipedOnTime
<1>10. ASSUME NEW u \in Uploads, TakeSecret(u) PROVE Waking'
  BY <1>10 DEF TakeSecret, Usable, TypeOK, Times, Structure, Windows, Waking, WipedOnTime
<1>11. ASSUME Wake PROVE Waking'
  BY <1>11 DEF Wake, TypeOK, Times, Structure, Windows, Waking, WipedOnTime, plane, history
<1>12. ASSUME WorkerSweepsTickets PROVE Waking'
  BY <1>12 DEF WorkerSweepsTickets, SweepTickets, Live, TypeOK, Times, Structure, Windows, Waking,
       WipedOnTime, history
<1>13. ASSUME WorkerSweepsStaged PROVE Waking'
  BY <1>13 DEF WorkerSweepsStaged, SweepStaged, Live, TypeOK, Times, Structure, Windows, Waking,
       WipedOnTime, history
<1>14. ASSUME Sleep PROVE Waking'
  <2>1. Expiries \subseteq 0 .. (MaxTime + TTL)
    BY DEF Expiries, TypeOK
  <2>2. ASSUME Expiries # {} PROVE NextExpiry \in Expiries /\ \A e \in Expiries : NextExpiry <= e
    <3>1. \E e \in Expiries : \A f \in Expiries : e <= f
      BY <2>1, <2>2, LeastNatural
    <3>. QED BY <3>1 DEF NextExpiry
  <2>3. /\ \A u \in tickets \cup staged : expiresAt[u] \in Expiries
        /\ \A e \in Expiries : e <= clock + TTL /\ clock <= e /\ e \in Nat
    BY <1>14, <2>1 DEF Sleep, Expiries, Windows, Waking, TypeOK
  <2>4. /\ clock \in Nat /\ SleepsUntil \in Nat /\ clock <= SleepsUntil /\ SleepsUntil <= clock + TTL + 1
        /\ \A e \in Expiries : SleepsUntil <= e + 1
    BY <2>2, <2>3 DEF SleepsUntil, TypeOK, Times
  <2>. QED BY <1>14, <2>3, <2>4 DEF Sleep, Waking, plane
<1>15. ASSUME Tick PROVE Waking'
  BY <1>15 DEF Tick, TypeOK, Times, Structure, Windows, Waking, WipedOnTime, plane, history
<1>16. CASE UNCHANGED vars
  BY <1>16 DEF TypeOK, Times, Structure, Windows, Waking, WipedOnTime, vars, plane, history
<1>. QED
  BY <1>1, <1>2, <1>3, <1>4, <1>5, <1>6, <1>7, <1>8, <1>9, <1>10, <1>11, <1>12, <1>13, <1>14, <1>15,
       <1>16 DEF Next, AuthorizerStep, TransferStep, WorkerStep

-----------------------------------------------------------------------------
(* The cap *)

(* A body in transit is counted by the lock that is held for it.           *)
Held == IF ticketLock = Nobody THEN 0 ELSE 1

(* One transfer at most is staging: the one that holds the lock.           *)
LEMMA OneInTransit ==
  ASSUME NEW doing, NEW lock \in Transfers \cup {Nobody},
         \A t \in Transfers : doing[t].at = "staging" <=> lock = t
  PROVE  Cardinality({doing[t].of : t \in {x \in Transfers : doing[x].at = "staging"}})
           = IF lock = Nobody THEN 0 ELSE 1
<1>. DEFINE those == {doing[t].of : t \in {x \in Transfers : doing[x].at = "staging"}}
<1>1. CASE lock = Nobody
  <2>1. those = {}
    BY <1>1, FilePlaneAssumption
  <2>. QED BY <1>1, <2>1, FS_EmptySet
<1>2. CASE lock \in Transfers
  <2>1. those = {doing[lock].of}
    BY <1>2
  <2>2. lock # Nobody
    BY <1>2, FilePlaneAssumption
  <2>. QED BY <2>1, <2>2, FS_Singleton
<1>. QED BY <1>1, <1>2

(* Only an authorization adds to what is outstanding, below the cap.       *)
LEMMA NextKeepsCapacity ==
  TypeOK /\ Structure /\ Capacity /\ TypeOK' /\ Structure' /\ [Next]_vars => Capacity'
<1>. SUFFICES ASSUME TypeOK, Structure, Capacity, TypeOK', Structure', [Next]_vars PROVE Capacity'
  OBVIOUS
<1>1. Cardinality(InTransit) = Held /\ Cardinality(InTransit') = Held'
  <2>1. Cardinality(InTransit) = Held
    <3>1. ticketLock \in Transfers \cup {Nobody} /\ \A t \in Transfers : transfer[t].at = "staging" <=> ticketLock = t
      BY DEF TypeOK, Structure
    <3>. QED BY <3>1, OneInTransit, Zenon DEF InTransit, Held
  <2>2. Cardinality(InTransit') = Held'
    <3>1. ticketLock' \in Transfers \cup {Nobody} /\ \A t \in Transfers : transfer'[t].at = "staging" <=> ticketLock' = t
      BY DEF TypeOK, Structure
    <3>. QED BY <3>1, OneInTransit, Zenon DEF InTransit, Held
  <2>. QED BY <2>1, <2>2
<1>2. /\ Cardinality(tickets) \in Nat /\ Cardinality(staged) \in Nat
      /\ Cardinality(tickets') \in Nat /\ Cardinality(staged') \in Nat
  BY FS_CardinalityType DEF Structure
<1>3. Held \in {0, 1} /\ Held' \in {0, 1} /\ MaxOutstanding \in Nat
  BY FilePlaneAssumption DEF Held
<1>4. Cardinality(tickets) + Cardinality(staged) + Held <= MaxOutstanding
  BY <1>1 DEF Capacity
<1>. SUFFICES Cardinality(tickets') + Cardinality(staged') + Held' <= MaxOutstanding
  BY <1>1 DEF Capacity
<1>5. ASSUME tickets' \subseteq tickets, staged' \subseteq staged, ticketLock' = ticketLock
      PROVE  Cardinality(tickets') + Cardinality(staged') + Held' <= MaxOutstanding
  <2>1. Cardinality(tickets') <= Cardinality(tickets) /\ Cardinality(staged') <= Cardinality(staged)
    BY <1>5, FS_Subset DEF Structure
  <2>2. Held' = Held
    BY <1>5 DEF Held
  <2>. QED BY <1>2, <1>3, <1>4, <2>1, <2>2
<1>6. ASSUME NEW a \in Authorizers, Authorize(a)
      PROVE  Cardinality(tickets') + Cardinality(staged') + Held' <= MaxOutstanding
  <2>1. staged' = staged /\ ticketLock = Nobody /\ ticketLock' = Nobody
    BY <1>6 DEF Authorize
  <2>2. CASE tickets' = tickets
    BY <1>5, <2>1, <2>2
  <2>3. CASE Outstanding < MaxOutstanding /\ \E u \in Unissued : tickets' = tickets \cup {u}
    <3>1. Cardinality(tickets') <= Cardinality(tickets) + 1
      <4>1. PICK u \in Unissued : tickets' = tickets \cup {u}
        BY <2>3
      <4>. QED BY <1>2, <4>1, FS_AddElement DEF Structure
    <3>2. Held' = 0
      BY <2>1 DEF Held
    <3>. QED BY <1>2, <1>3, <2>1, <2>3, <3>1, <3>2 DEF Outstanding
  <2>. QED BY <1>6, <2>2, <2>3 DEF Authorize
<1>7. ASSUME NEW t \in Transfers, NEW body \in Contents, Receive(t, body)
      PROVE  Cardinality(tickets') + Cardinality(staged') + Held' <= MaxOutstanding
  <2>. DEFINE u == transfer[t].of
  <2>1. tickets' = tickets \ {u} /\ staged' = staged /\ ticketLock = Nobody
    BY <1>7 DEF Receive
  <2>2. CASE Valid(u)
    <3>1. u \in tickets
      BY <2>2 DEF Valid
    <3>2. Cardinality(tickets') = Cardinality(tickets) - 1
      BY <2>1, <3>1, FS_RemoveElement DEF Structure
    <3>3. Held = 0
      BY <2>1 DEF Held
    <3>. QED BY <1>2, <1>3, <1>4, <2>1, <3>2, <3>3
  <2>3. CASE ~ Valid(u)
    <3>1. ticketLock' = ticketLock
      BY <1>7, <2>3 DEF Receive
    <3>. QED BY <1>5, <2>1, <3>1
  <2>. QED BY <2>2, <2>3
<1>8. ASSUME NEW t \in Transfers, Stage(t)
      PROVE  Cardinality(tickets') + Cardinality(staged') + Held' <= MaxOutstanding
  <2>1. tickets' = tickets /\ staged' = staged \cup {transfer[t].of} /\ ticketLock' = Nobody
        /\ transfer[t].at = "staging"
    BY <1>8 DEF Stage
  <2>2. Cardinality(staged') <= Cardinality(staged) + 1
    <3>1. PICK u : staged' = staged \cup {u}
      BY <2>1
    <3>. QED BY <1>2, <3>1, FS_AddElement DEF Structure
  <2>3. Held = 1 /\ Held' = 0
    BY <2>1, FilePlaneAssumption DEF Held, Structure
  <2>. QED BY <1>2, <1>3, <1>4, <2>1, <2>2, <2>3
<1>9. ASSUME NEW t \in Transfers, NEW u \in Uploads, Verify(t, u)
      PROVE  Cardinality(tickets') + Cardinality(staged') + Held' <= MaxOutstanding
  BY <1>5, <1>9 DEF Verify
<1>10. ASSUME NEW a \in Authorizers, StartAuthorize(a) \/ AuthorizeSweepsTickets(a) \/ AuthorizeSweepsStaged(a)
       PROVE  Cardinality(tickets') + Cardinality(staged') + Held' <= MaxOutstanding
  BY <1>5, <1>10 DEF StartAuthorize, AuthorizeSweepsTickets, AuthorizeSweepsStaged, SweepTickets,
       SweepStaged, Live, plane
<1>11. ASSUME NEW t \in Transfers, TakeSlot(t) \/ Abandon(t)
       PROVE  Cardinality(tickets') + Cardinality(staged') + Held' <= MaxOutstanding
  BY <1>5, <1>11 DEF TakeSlot, Abandon, plane
<1>12. ASSUME NEW u \in Uploads, TakeSecret(u)
       PROVE  Cardinality(tickets') + Cardinality(staged') + Held' <= MaxOutstanding
  BY <1>5, <1>12 DEF TakeSecret
<1>13. CASE WorkerStep
  BY <1>5, <1>13 DEF WorkerStep, Wake, WorkerSweepsTickets, WorkerSweepsStaged, Sleep, SweepTickets,
       SweepStaged, Live, plane
<1>14. CASE Tick \/ UNCHANGED vars
  BY <1>5, <1>14 DEF Tick, vars, plane
<1>. QED
  BY <1>6, <1>7, <1>8, <1>9, <1>10, <1>11, <1>12, <1>13, <1>14 DEF Next, AuthorizerStep, TransferStep

-----------------------------------------------------------------------------
(* The invariant holds *)

(* Nothing is outstanding at first, and the worker sweeps.                 *)
LEMMA InitEstablishes == Init => IInv
<1>. SUFFICES ASSUME Init PROVE IInv
  OBVIOUS
<1>. USE FilePlaneAssumption
<1>1. TypeOK
  BY DEF Init, TypeOK, Times, Contents
<1>2. Structure
  BY FS_EmptySet DEF Init, Structure
<1>3. Stages /\ Windows /\ Waking /\ SingleUse
  BY DEF Init, Stages, Windows, Waking, WipedOnTime, SingleUse
<1>4. Capacity
  <2>1. InTransit = {}
    BY DEF Init, InTransit
  <2>. QED BY <2>1, FS_EmptySet DEF Init, Capacity
<1>. QED BY <1>1, <1>2, <1>3, <1>4 DEF IInv

(* No step breaks it.                                                      *)
LEMMA NextPreserves == IInv /\ [Next]_vars => IInv'
  BY NextKeepsTypes, NextKeepsStructure, NextKeepsStages, NextKeepsWindows, NextKeepsWaking,
       NextKeepsSingleUse,
     NextKeepsCapacity DEF IInv

(* The lifetimes and the lock, the worker's sleep and the stages of every  *)
(* upload stay in step (FilePlane, spawn_expiry_worker).                   *)
THEOREM InvariantHolds == Spec => []IInv
  BY InitEstablishes, NextPreserves, PTL DEF Spec

(* Every variable keeps its type (FilePlane).                              *)
THEOREM TypeCorrect == Spec => []TypeOK
<1>1. IInv => TypeOK
  BY DEF IInv
<1>. QED BY <1>1, InvariantHolds, PTL

(* However many uploads, transfers and authorizations there are, no more   *)
(* than the cap are outstanding (authorize_upload, receive).               *)
THEOREM CapacityHolds == Spec => []Capacity
<1>1. IInv => Capacity
  BY DEF IInv
<1>. QED BY <1>1, InvariantHolds, PTL

(* One body for each ticket, one secret for each reference (receive,       *)
(* take_secret).                                                           *)
THEOREM SingleUseHolds == Spec => []SingleUse
<1>1. IInv => SingleUse
  BY DEF IInv
<1>. QED BY <1>1, InvariantHolds, PTL

(* The worker alone wipes what has expired within a millisecond, whatever  *)
(* the lifetime (spawn_expiry_worker).                                     *)
THEOREM WipedOnTimeHolds == Spec => []WipedOnTime
<1>1. IInv => WipedOnTime
  <2>. SUFFICES ASSUME IInv, NEW u \in tickets \cup staged PROVE clock <= expiresAt[u] + 1
    BY DEF WipedOnTime
  <2>1. clock \in Int /\ expiresAt[u] \in Int /\ wakeAt \in Int
    BY FilePlaneAssumption DEF IInv, TypeOK, Times
  <2>2. CASE worker.at = "asleep"
    BY <2>1, <2>2 DEF IInv, Waking
  <2>3. CASE worker.at \in {"tickets", "staged"}
    BY <2>3 DEF IInv, Waking, WipedOnTime
  <2>4. CASE worker.at = "sleep"
    BY <2>1, <2>4 DEF IInv, Waking
  <2>. QED BY <2>2, <2>3, <2>4 DEF IInv, TypeOK
<1>. QED BY <1>1, InvariantHolds, PTL

-----------------------------------------------------------------------------
(* What a step may do *)

(* What WithinWindow says of a step.                                       *)
InWindow ==
  \A u \in Uploads :
    /\ stagings'[u] # stagings[u] => clock - issuedAt[u] <= TTL
    /\ takings'[u] # takings[u] => clock - issuedAt[u] <= 2 * TTL

(* Only staging counts a body, only taking a secret; both look at a        *)
(* lifetime that began within the one before.                              *)
LEMMA StepInWindow == IInv /\ [Next]_vars => [InWindow]_vars
<1>. SUFFICES ASSUME IInv, Next PROVE InWindow
  OBVIOUS
<1>. USE FilePlaneAssumption DEF IInv
<1>1. CASE UNCHANGED <<stagings, takings>>
  BY <1>1 DEF InWindow
<1>2. ASSUME NEW t \in Transfers, Stage(t) PROVE InWindow
  <2>1. /\ transfer[t].at = "staging" /\ takings' = takings
        /\ \A v \in Uploads : v # transfer[t].of => stagings'[v] = stagings[v]
    BY <1>2 DEF Stage, TypeOK
  <2>2. transfer[t].of \in Uploads /\ clock <= issuedAt[transfer[t].of] + TTL
        /\ issuedAt[transfer[t].of] # Never
    BY <2>1 DEF Structure, Stages, Windows
  <2>3. clock - issuedAt[transfer[t].of] <= TTL
    BY <2>2 DEF TypeOK, Times
  <2>. QED BY <2>1, <2>3 DEF InWindow
<1>3. ASSUME NEW u \in Uploads, TakeSecret(u) PROVE InWindow
  <2>1. CASE ~ Usable(u)
    BY <1>1, <1>3, <2>1 DEF TakeSecret
  <2>2. CASE Usable(u)
    <3>1. u \in staged /\ stagings' = stagings /\ \A v \in Uploads : v # u => takings'[v] = takings[v]
      BY <1>3, <2>2 DEF TakeSecret, TypeOK
    <3>2. issuedAt[u] # Never /\ expiresAt[u] <= issuedAt[u] + 2 * TTL /\ clock <= expiresAt[u]
      BY <2>2, <3>1 DEF Usable, Stages, Windows
    <3>3. clock - issuedAt[u] <= 2 * TTL
      BY <3>2 DEF TypeOK, Times
    <3>. QED BY <3>1, <3>3 DEF InWindow
  <2>. QED BY <2>1, <2>2
<1>4. ASSUME NEW a \in Authorizers, AuthorizerStep(a) PROVE InWindow
  BY <1>1, <1>4 DEF AuthorizerStep, StartAuthorize, AuthorizeSweepsTickets, AuthorizeSweepsStaged,
       Authorize, history
<1>5. ASSUME NEW t \in Transfers, TransferStep(t), ~ Stage(t) PROVE InWindow
  BY <1>1, <1>5 DEF TransferStep, Verify, TakeSlot, Abandon, Receive, history
<1>6. CASE WorkerStep \/ Tick
  BY <1>1, <1>6 DEF WorkerStep, Wake, WorkerSweepsTickets, WorkerSweepsStaged, Sleep, Tick, history
<1>. QED BY <1>2, <1>3, <1>4, <1>5, <1>6 DEF Next

(* A body is staged within its ticket's lifetime and a secret handed out   *)
(* within two, however the clock, the transfers and the calls interleave   *)
(* (verify_upload, receive, take_secret).                                  *)
THEOREM WithinWindowHolds == Spec => WithinWindow
<1>1. Spec => [][InWindow]_vars
  BY InvariantHolds, StepInWindow, PTL DEF Spec
<1>. QED BY <1>1 DEF WithinWindow, InWindow

(* What LiveKept says of a step.                                           *)
KeepsLive ==
  \A u \in Uploads :
    /\ u \in tickets \ tickets' /\ clock <= expiresAt[u] =>
         \E t \in Transfers : transfer[t].at = "reading" /\ transfer[t].of = u
                              /\ transfer'[t].at # "reading"
    /\ u \in staged \ staged' /\ clock <= expiresAt[u] /\ content[u] = "secret" =>
         takings'[u] # takings[u]

(* A sweep at a time that has passed drops nothing live.                   *)
LEMMA SweepKeepsLive ==
  ASSUME IInv, NEW now \in Times, now <= clock, NEW S \in SUBSET Uploads, NEW u \in S, clock <= expiresAt[u]
  PROVE  u \in Live(S, now)
  BY FilePlaneAssumption DEF Live, IInv, TypeOK, Times

(* Only a transfer that consumes it takes a live ticket away, only a call  *)
(* a live secret.                                                          *)
LEMMA StepKeepsLive == IInv /\ [Next]_vars => [KeepsLive]_vars
<1>. SUFFICES ASSUME IInv, Next PROVE KeepsLive
  OBVIOUS
<1>1. CASE tickets \subseteq tickets' /\ staged \subseteq staged'
  BY <1>1 DEF KeepsLive
<1>2. ASSUME NEW now \in Times, now <= clock, tickets' = Live(tickets, now), staged' = staged
      PROVE  KeepsLive
  BY <1>2, SweepKeepsLive DEF KeepsLive, IInv, TypeOK
<1>3. ASSUME NEW now \in Times, now <= clock, staged' = Live(staged, now), tickets' = tickets
      PROVE  KeepsLive
  BY <1>3, SweepKeepsLive DEF KeepsLive, IInv, TypeOK
<1>4. ASSUME NEW a \in Authorizers, AuthorizerStep(a) PROVE KeepsLive
  <2>1. authorizer[a].now \in Times /\ authorizer[a].now <= clock
    BY DEF IInv, TypeOK, Windows
  <2>2. CASE AuthorizeSweepsTickets(a)
    BY <1>2, <2>1, <2>2 DEF AuthorizeSweepsTickets, SweepTickets
  <2>3. CASE AuthorizeSweepsStaged(a)
    BY <1>3, <2>1, <2>3 DEF AuthorizeSweepsStaged, SweepStaged
  <2>4. CASE StartAuthorize(a) \/ Authorize(a)
    BY <1>1, <2>4 DEF StartAuthorize, Authorize, plane
  <2>. QED BY <1>4, <2>2, <2>3, <2>4 DEF AuthorizerStep
<1>5. CASE WorkerStep
  <2>1. worker.now \in Times /\ worker.now <= clock
    BY DEF IInv, TypeOK, Windows
  <2>2. CASE WorkerSweepsTickets
    BY <1>2, <2>1, <2>2 DEF WorkerSweepsTickets, SweepTickets
  <2>3. CASE WorkerSweepsStaged
    BY <1>3, <2>1, <2>3 DEF WorkerSweepsStaged, SweepStaged
  <2>4. CASE Wake \/ Sleep
    BY <1>1, <2>4 DEF Wake, Sleep, plane
  <2>. QED BY <1>5, <2>2, <2>3, <2>4 DEF WorkerStep
<1>6. ASSUME NEW t \in Transfers, NEW u \in Uploads, Verify(t, u) PROVE KeepsLive
  <2>1. CASE Valid(u)
    BY <1>1, <1>6, <2>1 DEF Verify
  <2>2. CASE ~ Valid(u)
    BY <1>6, <2>2 DEF Verify, Valid, KeepsLive
  <2>. QED BY <2>1, <2>2
<1>7. ASSUME NEW t \in Transfers, NEW body \in Contents, Receive(t, body) PROVE KeepsLive
  <2>1. transfer'[t].at # "reading"
    <3>1. CASE Valid(transfer[t].of) /\ body # "mismatched"
      BY <1>7, <3>1 DEF Receive, IInv, TypeOK
    <3>2. CASE ~ (Valid(transfer[t].of) /\ body # "mismatched")
      BY <1>7, <3>2 DEF Receive, EndTransfer, IInv, TypeOK
    <3>. QED BY <3>1, <3>2
  <2>2. tickets' = tickets \ {transfer[t].of} /\ staged' = staged /\ transfer[t].at = "reading"
    BY <1>7 DEF Receive
  <2>. QED BY <2>1, <2>2 DEF KeepsLive
<1>8. ASSUME NEW t \in Transfers, TakeSlot(t) \/ Abandon(t) \/ Stage(t) PROVE KeepsLive
  BY <1>1, <1>8 DEF TakeSlot, Abandon, Stage, plane
<1>9. ASSUME NEW u \in Uploads, TakeSecret(u) PROVE KeepsLive
  <2>1. tickets' = tickets /\ staged' = staged \ {u}
    BY <1>9 DEF TakeSecret
  <2>2. ASSUME clock <= expiresAt[u], content[u] = "secret" PROVE takings'[u] # takings[u]
    BY <1>9, <2>2 DEF TakeSecret, Usable, IInv, TypeOK
  <2>. QED BY <2>1, <2>2 DEF KeepsLive
<1>10. CASE Tick
  BY <1>1, <1>10 DEF Tick, plane
<1>. QED BY <1>4, <1>5, <1>6, <1>7, <1>8, <1>9, <1>10 DEF Next, TransferStep

(* A live ticket or secret is never swept, with any number of sweeps at    *)
(* old clock readings (sweep, verify_upload).                              *)
THEOREM LiveKeptHolds == Spec => LiveKept
<1>1. Spec => [][KeepsLive]_vars
  BY InvariantHolds, StepKeepsLive, PTL DEF Spec
<1>. QED BY <1>1 DEF LiveKept, KeepsLive
=============================================================================
