--------------------------- MODULE RetainedStore ---------------------------
(***************************************************************************)
(* The retained-payload stores of the server: one store per identity       *)
(* (owners.rs), every store charging one shared byte budget                *)
(* (resources.rs), used by concurrent requests.                            *)
(*                                                                         *)
(* A request obtains its identity's store, inserts payloads into it, reads *)
(* payloads back, and may hold a payload after leaving (a download in      *)
(* progress).  Insertion is a sequence of steps under the store's lock     *)
(* because the shared budget is an atomic counter that other identities'   *)
(* requests change meanwhile; reading is one step under that lock.  Clock  *)
(* readings are taken before the lock is acquired and may be stale by the  *)
(* time they are used.                                                     *)
(*                                                                         *)
(* Payloads are numbered in the order in which their inserts acquired the  *)
(* store's lock.  In one store that is the order of the sequence numbers,  *)
(* and a number is never used twice, as a random reference is not.         *)
(***************************************************************************)
EXTENDS Integers, FiniteSets, Weights

CONSTANTS
  Owners,     \* verified identities
  Stores,     \* store instances the process can allocate
  Calls,      \* concurrent requests
  Bodies,     \* the body lengths results have
  MaxId,      \* bound on the number of payloads a behaviour inserts
  MaxTime,    \* bound on the clock
  MaxOwners,  \* MAX_OWNERS
  Overhead,   \* ENTRY_OVERHEAD_BYTES
  ObjectMax,  \* ResourceLimits.max_object_bytes
  StoreMax,   \* ResourceLimits.max_total_bytes
  BudgetMax,  \* ResourceBudget.max_total_bytes
  TTL,        \* ResourceLimits.time_to_live
  NoStore, NoCall, NoOwner

ASSUME StoreAssumption ==
  /\ Bodies \subseteq Nat
  /\ {MaxId, MaxTime, MaxOwners, Overhead, ObjectMax, StoreMax, BudgetMax} \subseteq Nat
  /\ TTL \in Nat \ {0}
  /\ Overhead <= MaxCharge /\ Overhead <= StoreMax
  /\ \A n \in Bodies : n + Overhead <= MaxCharge
  /\ NoStore \notin Stores
  /\ NoCall \notin Calls
  /\ NoOwner \notin Owners

Ids == 1 .. MaxId
NoId == 0

VARIABLES
  clock,     \* the process's monotonic clock
  used,      \* ResourceBudget.used
  registry,  \* OwnerStores.stores: the store registered for each identity
  entries,   \* State.entries of each store, ordered by payload number
  total,     \* State.total_bytes of each store
  lock,      \* the call holding each store's mutex
  storedAt,  \* Entry.stored_at of each payload
  charge,    \* body length and overhead of each payload
  nextId,    \* number of the next insert to acquire a store's lock
  pc,        \* what each call is doing
  owner,     \* the identity each call acts for
  store,     \* the store handle (Arc) each call holds
  now,       \* the clock reading each call took
  body,      \* the length of the body each call is inserting
  fresh,     \* the payload number of each call's insert
  pin,       \* the payload (RetainedBody clone) each call holds
  snapshot   \* stores reclaim_expired has upgraded and not visited yet

storeVars == <<entries, total, used, lock, storedAt, charge, nextId>>
callVars == <<pc, owner, store, now, body, fresh, pin, snapshot>>
vars == <<clock, registry, storeVars, callVars>>

Phases == {"idle", "ready", "locking", "reserving", "reclaiming", "retrying",
           "evicting", "committing", "reading"}

ShapeOK ==
  /\ clock \in 0 .. MaxTime
  /\ used \in Int
  /\ registry \in [Owners -> Stores \cup {NoStore}]
  /\ entries \in [Stores -> SUBSET Ids]
  /\ total \in [Stores -> Int]
  /\ lock \in [Stores -> Calls \cup {NoCall}]
  /\ storedAt \in [Ids -> 0 .. MaxTime]
  /\ charge \in [Ids -> 0 .. MaxCharge]
  /\ nextId \in 1 .. (MaxId + 1)
  /\ pc \in [Calls -> Phases]
  /\ owner \in [Calls -> Owners \cup {NoOwner}]
  /\ store \in [Calls -> Stores \cup {NoStore}]
  /\ now \in [Calls -> 0 .. MaxTime]
  /\ body \in [Calls -> Bodies \cup {0}]
  /\ fresh \in [Calls -> Ids \cup {NoId}]
  /\ pin \in [Calls -> Ids \cup {NoId}]
  /\ snapshot \in [Calls -> SUBSET Stores]

(* The counters are unsigned in the code: release must never take them     *)
(* below zero.                                                             *)
TypeOK == ShapeOK /\ used \in Nat /\ total \in [Stores -> Nat]

Init ==
  /\ clock = 0
  /\ used = 0
  /\ registry = [o \in Owners |-> NoStore]
  /\ entries = [s \in Stores |-> {}]
  /\ total = [s \in Stores |-> 0]
  /\ lock = [s \in Stores |-> NoCall]
  /\ storedAt = [i \in Ids |-> 0]
  /\ charge = [i \in Ids |-> 0]
  /\ nextId = 1
  /\ pc = [c \in Calls |-> "idle"]
  /\ owner = [c \in Calls |-> NoOwner]
  /\ store = [c \in Calls |-> NoStore]
  /\ now = [c \in Calls |-> 0]
  /\ body = [c \in Calls |-> 0]
  /\ fresh = [c \in Calls |-> NoId]
  /\ pin = [c \in Calls |-> NoId]
  /\ snapshot = [c \in Calls |-> {}]

-----------------------------------------------------------------------------
(* Helpers *)

(* Instant::duration_since saturates at zero.                              *)
Age(at, t) == IF t > at THEN t - at ELSE 0

(* The entries `expire` removes: the prefix of the insertion order that is *)
(* past its lifetime, up to the first entry that is not.                   *)
Expired(s, t) ==
  {i \in entries[s] : \A j \in entries[s] : j <= i => Age(storedAt[j], t) >= TTL}

(* The entry `evict_oldest` removes.                                       *)
Oldest(s) == {i \in entries[s] : \A j \in entries[s] : i <= j}

(* The entries the store's own cap evicts, once the expired ones are gone, *)
(* to admit an insert charged n: a prefix of the insertion order, each     *)
(* evicted because total_bytes was still too high when it was the oldest.  *)
Overflow(s, stale, n) ==
  {i \in entries[s] \ stale :
     total[s] - Total({j \in entries[s] : j < i}, charge) + n > StoreMax}

Pinned(i) == \E c \in Calls : pin[c] = i
Registered == {s \in Stores : \E o \in Owners : registry[o] = s}
(* Mutant: requests that hold a store are not counted.                     *)
NeverInUse == {}

InUse == {s \in Stores : \E c \in Calls : store[c] = s}
Upgraded == UNION {snapshot[c] : c \in Calls}
LiveStores == Registered \cup InUse \cup Upgraded

(* Stores drop the payloads in gone.  A payload's bytes return to the      *)
(* budget only if no reader still holds it (Payload::drop).                *)
Drop(gone) ==
  /\ entries' = [s \in Stores |-> entries[s] \ gone[s]]
  /\ total' = [s \in Stores |-> total[s] - Total(gone[s], charge)]
  /\ used' = used - Total({i \in UNION {gone[s] : s \in Stores} : ~Pinned(i)}, charge)

(* Mutant: dropped payloads are not released.                              *)
DropWithoutRelease(s, gone) ==
  /\ entries' = [entries EXCEPT ![s] = @ \ gone]
  /\ total' = [total EXCEPT ![s] = @ - Total(gone, charge)]
  /\ UNCHANGED used

DropFrom(s, gone) == Drop([t \in Stores |-> IF t = s THEN gone ELSE {}])

Goto(c, phase) == pc' = [pc EXCEPT ![c] = phase]

(* A store operation returns: its arguments and clock reading are gone.    *)
EndCall(c) ==
  /\ now' = [now EXCEPT ![c] = 0]
  /\ body' = [body EXCEPT ![c] = 0]
  /\ Goto(c, "ready")

-----------------------------------------------------------------------------
(* Requests and the registry of identities *)

(* OwnerStores::get, for an identity that already has a store.             *)
GetExisting(c, o) ==
  /\ pc[c] = "idle" /\ pin[c] = NoId
  /\ registry[o] # NoStore
  /\ owner' = [owner EXCEPT ![c] = o]
  /\ store' = [store EXCEPT ![c] = registry[o]]
  /\ Goto(c, "ready")
  /\ UNCHANGED <<clock, registry, storeVars, now, body, fresh, pin, snapshot>>

(* OwnerStores::get, for an identity without a store: stores no request    *)
(* holds are expired, and dropped when that leaves them empty.  A store    *)
(* the budget's reclaim has upgraded may look held (seen) or not,          *)
(* depending on when its count was read.                                   *)
Idle(seen) == Registered \ (InUse \cup seen)
Collected(seen) == [s \in Stores |-> IF s \in Idle(seen) THEN Expired(s, clock) ELSE {}]
Dead(seen) == {s \in Idle(seen) : Expired(s, clock) = entries[s]}
Kept(seen) == [o \in Owners |-> IF registry[o] \in Dead(seen) THEN NoStore ELSE registry[o]]
Unused == Stores \ LiveStores

RegistryFull(c, seen) ==
  /\ Cardinality(Registered \ Dead(seen)) >= MaxOwners
  /\ registry' = Kept(seen)
  /\ UNCHANGED <<pc, owner, store>>

Register(c, o, seen) ==
  /\ Cardinality(Registered \ Dead(seen)) < MaxOwners
  /\ \E s \in Unused \cup (Dead(seen) \ Upgraded) :
       /\ registry' = [Kept(seen) EXCEPT ![o] = s]
       /\ store' = [store EXCEPT ![c] = s]
  /\ owner' = [owner EXCEPT ![c] = o]
  /\ Goto(c, "ready")

GetNew(c, o) ==
  /\ pc[c] = "idle" /\ pin[c] = NoId
  /\ registry[o] = NoStore
  /\ \E seen \in SUBSET (Upgraded \ InUse) :
       /\ Drop(Collected(seen))
       /\ RegistryFull(c, seen) \/ Register(c, o, seen)
  /\ UNCHANGED <<clock, lock, storedAt, charge, nextId, now, body, fresh, pin, snapshot>>

(* The request ends and drops its store handle; a body it is still         *)
(* streaming stays pinned.                                                 *)
Leave(c) ==
  /\ pc[c] = "ready"
  /\ owner' = [owner EXCEPT ![c] = NoOwner]
  /\ store' = [store EXCEPT ![c] = NoStore]
  /\ Goto(c, "idle")
  /\ UNCHANGED <<clock, registry, storeVars, now, body, fresh, pin, snapshot>>

(* A reader drops its clone of a payload; the last holder returns its      *)
(* bytes to the budget.                                                    *)
DropBody(c) ==
  /\ pin[c] # NoId
  /\ pc[c] \in {"idle", "ready"}
  /\ pin' = [pin EXCEPT ![c] = NoId]
  /\ used' = IF \/ \E s \in Stores : pin[c] \in entries[s]
                \/ \E d \in Calls \ {c} : pin[d] = pin[c]
             THEN used
             ELSE used - charge[pin[c]]
  /\ UNCHANGED <<clock, registry, entries, total, lock, storedAt, charge, nextId,
                 pc, owner, store, now, body, fresh, snapshot>>

-----------------------------------------------------------------------------
(* insert_at *)

Admissible(n) == n <= ObjectMax /\ n + Overhead <= StoreMax

(* `insert` reads the clock; insert_at refuses a body no eviction could    *)
(* make room for before it touches the store.                              *)
StartInsert(c, n) ==
  /\ pc[c] = "ready" /\ pin[c] = NoId
  /\ Admissible(n)
  /\ nextId + Cardinality({d \in Calls : pc[d] = "locking"}) <= MaxId
  /\ now' = [now EXCEPT ![c] = clock]
  /\ body' = [body EXCEPT ![c] = n]
  /\ Goto(c, "locking")
  /\ UNCHANGED <<clock, registry, storeVars, owner, store, fresh, pin, snapshot>>

(* The lock is taken, expired entries go, then as many of the oldest as    *)
(* the store's own cap requires.                                           *)
LockAndMakeRoom(c) ==
  LET s == store[c]
      stale == Expired(s, now[c])
      n == body[c] + Overhead
  IN /\ pc[c] = "locking"
     /\ lock[s] = NoCall
     /\ nextId <= MaxId
     /\ lock' = [lock EXCEPT ![s] = c]
     /\ fresh' = [fresh EXCEPT ![c] = nextId]
     /\ charge' = [charge EXCEPT ![nextId] = n]
     /\ nextId' = nextId + 1
     /\ DropFrom(s, stale \cup Overflow(s, stale, n))
     /\ Goto(c, "reserving")
     /\ UNCHANGED <<clock, registry, storedAt, owner, store, now, body, pin, snapshot>>

Fits(n) == used + n <= BudgetMax

(* ResourceBudget::reserve: the compare-and-swap loop adds the charge when *)
(* it fits, whatever was read before.                                      *)
Reserve(c) ==
  /\ pc[c] \in {"reserving", "retrying"}
  /\ Fits(charge[fresh[c]])
  /\ used' = used + charge[fresh[c]]
  /\ Goto(c, "committing")
  /\ UNCHANGED <<clock, registry, entries, total, lock, storedAt, charge, nextId,
                 owner, store, now, body, fresh, pin, snapshot>>

(* The first refusal starts reclaim_expired, which upgrades every live     *)
(* store; a later one falls through to evicting the store's own entries.   *)
ReserveFails(c) ==
  /\ pc[c] \in {"reserving", "retrying"}
  /\ ~Fits(charge[fresh[c]])
  /\ \/ /\ pc[c] = "reserving"
        /\ snapshot' = [snapshot EXCEPT ![c] = LiveStores]
        /\ Goto(c, "reclaiming")
     \/ /\ pc[c] = "retrying"
        /\ Goto(c, "evicting")
        /\ UNCHANGED snapshot
  /\ UNCHANGED <<clock, registry, storeVars, owner, store, now, body, fresh, pin>>

(* Mutant: reclaim drops every payload of a store it can lock.             *)
ReclaimEverything(s, t) == IF lock[s] = NoCall THEN entries[s] ELSE {}

(* try_lock: a store anyone holds, the caller's own included, is skipped.  *)
Reclaimed(s, t) == IF lock[s] = NoCall THEN Expired(s, t) ELSE {}

(* Mutant: reclaim waits for the lock of each store it visits.             *)
WaitAndReclaimOne(c) ==
  /\ pc[c] = "reclaiming"
  /\ \E s \in snapshot[c] :
       /\ lock[s] = NoCall \/ s = store[c]
       /\ DropFrom(s, Reclaimed(s, now[c]))
       /\ snapshot' = [snapshot EXCEPT ![c] = @ \ {s}]
  /\ UNCHANGED <<clock, registry, lock, storedAt, charge, nextId,
                 pc, owner, store, now, body, fresh, pin>>

(* reclaim_expired visits one upgraded store.                              *)
ReclaimOne(c) ==
  /\ pc[c] = "reclaiming"
  /\ \E s \in snapshot[c] :
       /\ DropFrom(s, Reclaimed(s, now[c]))
       /\ snapshot' = [snapshot EXCEPT ![c] = @ \ {s}]
  /\ UNCHANGED <<clock, registry, lock, storedAt, charge, nextId,
                 pc, owner, store, now, body, fresh, pin>>

ReclaimDone(c) ==
  /\ pc[c] = "reclaiming" /\ snapshot[c] = {}
  /\ Goto(c, "retrying")
  /\ UNCHANGED <<clock, registry, storeVars, owner, store, now, body, fresh, pin, snapshot>>

(* One turn of the last loop: drop the oldest own entry and reserve again. *)
EvictOldest(c) ==
  /\ pc[c] = "evicting"
  /\ entries[store[c]] # {}
  /\ DropFrom(store[c], Oldest(store[c]))
  /\ Goto(c, "retrying")
  /\ UNCHANGED <<clock, registry, lock, storedAt, charge, nextId,
                 owner, store, now, body, fresh, pin, snapshot>>

(* StoreError::BudgetExhausted: nothing of its own is left to evict.       *)
Refuse(c) ==
  /\ pc[c] = "evicting"
  /\ entries[store[c]] = {}
  /\ lock' = [lock EXCEPT ![store[c]] = NoCall]
  /\ fresh' = [fresh EXCEPT ![c] = NoId]
  /\ EndCall(c)
  /\ UNCHANGED <<clock, registry, entries, total, used, storedAt, charge, nextId,
                 owner, store, pin, snapshot>>

(* Mutant: the call's clock reading, as it is.                             *)
UnclampedStamp(s, t) == t

(* The payload's age: the call's clock reading, moved forward to that of   *)
(* the newest entry.                                                       *)
Stamp(s, t) ==
  IF entries[s] = {} THEN t
  ELSE LET newest == CHOOSE i \in entries[s] : \A j \in entries[s] : j <= i
       IN IF storedAt[newest] > t THEN storedAt[newest] ELSE t

(* The payload becomes an entry, the lock is released, and the call holds  *)
(* the returned resource.                                                  *)
Commit(c) ==
  LET s == store[c] IN
  /\ pc[c] = "committing"
  /\ storedAt' = [storedAt EXCEPT ![fresh[c]] = Stamp(s, now[c])]
  /\ entries' = [entries EXCEPT ![s] = @ \cup {fresh[c]}]
  /\ total' = [total EXCEPT ![s] = @ + charge[fresh[c]]]
  /\ pin' = [pin EXCEPT ![c] = fresh[c]]
  /\ lock' = [lock EXCEPT ![s] = NoCall]
  /\ fresh' = [fresh EXCEPT ![c] = NoId]
  /\ EndCall(c)
  /\ UNCHANGED <<clock, registry, used, charge, nextId, owner, store, snapshot>>

-----------------------------------------------------------------------------
(* read_at *)

StartRead(c) ==
  /\ pc[c] = "ready" /\ pin[c] = NoId
  /\ now' = [now EXCEPT ![c] = clock]
  /\ Goto(c, "reading")
  /\ UNCHANGED <<clock, registry, storeVars, owner, store, body, fresh, pin, snapshot>>

(* Mutant: references are looked up in every identity's store.             *)
ReadableAnywhere(s) == UNION {entries[r] : r \in Stores}

Readable(s) == entries[s]

(* Expired entries go first; the payload asked for is then held if it is   *)
(* still an entry of the caller's own store.  Any reference may be asked   *)
(* for, another identity's included.  Listing and paging expire and hold   *)
(* nothing: to the store they are reads of a reference it does not hold.   *)
Read(c, i) ==
  LET s == store[c]
      gone == Expired(s, now[c])
  IN /\ pc[c] = "reading"
     /\ lock[s] = NoCall
     /\ DropFrom(s, gone)
     /\ pin' = [pin EXCEPT ![c] = IF i \in Readable(s) \ gone THEN i ELSE NoId]
     /\ EndCall(c)
     /\ UNCHANGED <<clock, registry, lock, storedAt, charge, nextId,
                    owner, store, fresh, snapshot>>

Tick ==
  /\ clock < MaxTime
  /\ clock' = clock + 1
  /\ UNCHANGED <<registry, storeVars, callVars>>

-----------------------------------------------------------------------------

(* The steps an insert takes between acquiring and releasing its lock.     *)
HolderStep(c) ==
  \/ Reserve(c) \/ ReserveFails(c) \/ ReclaimOne(c) \/ ReclaimDone(c)
  \/ EvictOldest(c) \/ Refuse(c) \/ Commit(c)

CallStep(c) ==
  \/ \E o \in Owners : GetExisting(c, o) \/ GetNew(c, o)
  \/ Leave(c)
  \/ DropBody(c)
  \/ \E n \in Bodies : StartInsert(c, n)
  \/ LockAndMakeRoom(c)
  \/ StartRead(c)
  \/ \E i \in Ids : Read(c, i)

Next ==
  \/ \E c \in Calls : CallStep(c) \/ HolderStep(c)
  \/ Tick

Spec == Init /\ [][Next]_vars

(* A thread that holds a store's lock runs: nothing in insert_at awaits.   *)
FairSpec == Spec /\ \A c \in Calls : WF_vars(HolderStep(c))

-----------------------------------------------------------------------------
(* Properties *)

(* Payloads the shared budget must be paying for: stored, held by a        *)
(* reader, or reserved by an insert that has not committed yet.            *)
Reserved(c) == pc[c] = "committing"
Charged ==
  {i \in Ids : \/ \E s \in Stores : i \in entries[s]
               \/ Pinned(i)
               \/ \E c \in Calls : Reserved(c) /\ fresh[c] = i}

(* ResourceBudget.used is exactly the bytes of the payloads that exist:    *)
(* nothing is released twice, forgotten, or released while a reader still  *)
(* holds it.                                                               *)
BudgetExact == used = Total(Charged, charge)

(* Whatever the interleaving of inserts of different identities, what the  *)
(* process retains fits the shared budget.                                 *)
BudgetBounded == used <= BudgetMax

(* Each store's own running total is exact and within its cap.             *)
StoreBounded ==
  \A s \in Stores : total[s] = Total(entries[s], charge) /\ total[s] <= StoreMax

(* Insertion order is age order in every store, although clock readings    *)
(* are taken before the lock: what lets expiry stop at the first live      *)
(* entry.                                                                  *)
AgeOrder ==
  \A s \in Stores : \A i, j \in entries[s] : i < j => storedAt[i] <= storedAt[j]

(* A request's store is the one registered for its identity: reclaiming an *)
(* idle store never orphans one into which a request can still insert.     *)
NoOrphanStore ==
  \A c \in Calls : store[c] # NoStore => owner[c] # NoOwner /\ registry[owner[c]] = store[c]

(* What the steps maintain for the properties above to be inductive.       *)
Holding == {"reserving", "reclaiming", "retrying", "evicting", "committing"}

Handles ==
  \A c \in Calls :
    IF pc[c] = "idle" THEN store[c] = NoStore
    ELSE store[c] \in Stores /\ owner[c] \in Owners /\ registry[owner[c]] = store[c]

Exclusive == \A c \in Calls : pc[c] \in Holding => lock[store[c]] = c

FreshReferences ==
  /\ \A c \in Calls :
       IF pc[c] \in Holding THEN fresh[c] \in Ids /\ fresh[c] < nextId ELSE fresh[c] = NoId
  /\ \A c \in Calls, s \in Stores : fresh[c] \notin entries[s]
  /\ \A c, d \in Calls : pc[c] \in Holding =>
       /\ pin[d] # fresh[c]
       /\ c # d => fresh[d] # fresh[c]

References ==
  /\ \A s \in Stores : \A i \in entries[s] : i < nextId
  /\ \A s, t \in Stores : s # t => entries[s] \cap entries[t] = {}
  /\ \A c \in Calls : pin[c] < nextId

InsertOrder ==
  \A c \in Calls : pc[c] \in Holding => \A i \in entries[store[c]] : i < fresh[c]

PinFree == \A c \in Calls : pc[c] \notin {"idle", "ready"} => pin[c] = NoId

Admitted == \A c \in Calls : pc[c] = "locking" => body[c] \in Bodies /\ Admissible(body[c])

RoomMade ==
  \A c \in Calls : pc[c] \in Holding => total[store[c]] + charge[fresh[c]] <= StoreMax

Structure ==
  Handles /\ Exclusive /\ FreshReferences /\ References /\ InsertOrder /\ PinFree /\ Admitted

(* An entry that has not outlived its lifetime leaves a store only when an *)
(* insert into that same store evicts it, and everything older with it:    *)
(* one identity's inserts never cost another identity its live payloads,   *)
(* nor itself a newer payload before an older one.                         *)
OnlyOwnEviction ==
  [][\A s \in Stores : \A i \in entries[s] \ entries'[s] :
       \/ Age(storedAt[i], clock) >= TTL
       \/ /\ \E c \in Calls : store[c] = s /\ lock'[s] = c
          /\ \A j \in entries[s] : j < i => j \notin entries'[s]]_vars

(* A payload handed to a request was within its lifetime when the request  *)
(* read the clock: reads do not serve, or revive, an expired payload that  *)
(* expiry stopped short of.                                                *)
NoExpiredServed ==
  [][\A c \in Calls : pin'[c] \notin {NoId, pin[c]} =>
       Age(storedAt'[pin'[c]], now[c]) < TTL]_vars

(* A store's lock is always released: reclaiming other stores' expired     *)
(* entries in the middle of an insert waits for nobody.                    *)
LockReleased == \A s \in Stores : lock[s] # NoCall ~> lock[s] = NoCall

(* The stores, locks and budget counter implement the payload ledger.      *)
Ended == {i \in Ids : i < nextId /\ \A c \in Calls : fresh[c] # i}

Ledger == INSTANCE PayloadLedger WITH
  visible <- [o \in Owners |-> IF registry[o] = NoStore THEN {} ELSE entries[registry[o]]],
  caller <- owner,
  reading <- pin,
  spent <- Ended,
  weight <- [i \in Ids |-> IF i \in Ended THEN charge[i] ELSE 0]

ImplementsLedger == Ledger!LedgerSpec
=============================================================================
