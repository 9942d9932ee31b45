------------------------- MODULE RetainedStoreProofs -------------------------
(***************************************************************************)
(* The retained stores, for every number of identities, stores, requests   *)
(* and payloads, and every value of the limits: the shared budget is exact *)
(* and never exceeded, every store stays within its cap and in age order,  *)
(* no request inserts into a store its identity has lost, and only an      *)
(* identity's own inserts evict what it retains.  Last, that they implement*)
(* the payload ledger.                                                     *)
(***************************************************************************)
EXTENDS RetainedStore, FiniteSetTheorems, WellFoundedInduction, TLAPS

-----------------------------------------------------------------------------
(* What the byte accounting of Weights computes, for every finite set *)

(* A finite set of payloads occupies finitely many byte units, so its      *)
(* total is a natural number.                                              *)
LEMMA UnitsFinite ==
  ASSUME NEW S, IsFiniteSet(S), NEW w
  PROVE  IsFiniteSet(Units(S, w)) /\ Total(S, w) \in Nat
<1>1. IsFiniteSet(1 .. MaxCharge)
  BY FS_Interval, MaxChargeAssumption
<1>2. IsFiniteSet(S \X (1 .. MaxCharge))
  BY <1>1, FS_Product
<1>3. Units(S, w) \in SUBSET (S \X (1 .. MaxCharge))
  BY DEF Units
<1>4. IsFiniteSet(Units(S, w))
  BY <1>2, <1>3, FS_Subset
<1> QED
  BY <1>4, FS_CardinalityType DEF Total

(* Nothing weighs nothing.                                                 *)
LEMMA TotalEmpty ==
  ASSUME NEW w
  PROVE  Total({}, w) = 0
<1>1. Units({}, w) = {}
  BY DEF Units
<1> QED
  BY <1>1, FS_EmptySet DEF Total

(* Only the weights of the set's own members matter.                       *)
LEMMA TotalSame ==
  ASSUME NEW S, NEW v, NEW w, \A i \in S : v[i] = w[i]
  PROVE  Total(S, v) = Total(S, w)
<1>1. Units(S, v) = Units(S, w)
  <2>1. \A u \in S \X (1 .. MaxCharge) : v[u[1]] = w[u[1]]
    OBVIOUS
  <2> QED
    BY <2>1 DEF Units
<1> QED
  BY <1>1 DEF Total

(* One payload's total is its weight.                                      *)
LEMMA TotalSingleton ==
  ASSUME NEW i, NEW w, w[i] \in 0 .. MaxCharge
  PROVE  Total({i}, w) = w[i]
<1>1. Units({i}, w) = {i} \X (1 .. w[i])
  BY MaxChargeAssumption DEF Units
<1>2. IsFiniteSet({i}) /\ Cardinality({i}) = 1
  BY FS_Singleton
<1>3. IsFiniteSet(1 .. w[i]) /\ Cardinality(1 .. w[i]) = w[i]
  <2>1. w[i] \in Int /\ w[i] >= 0
    BY MaxChargeAssumption
  <2>2. IsFiniteSet(1 .. w[i])
        /\ Cardinality(1 .. w[i]) = IF 1 > w[i] THEN 0 ELSE w[i] - 1 + 1
    BY <2>1, FS_Interval
  <2> QED
    BY <2>1, <2>2
<1>4. Cardinality({i} \X (1 .. w[i])) = Cardinality({i}) * Cardinality(1 .. w[i])
  BY <1>2, <1>3, FS_Product
<1>5. \A n \in Int : 1 * n = n
  OBVIOUS
<1>6. w[i] \in Int
  BY MaxChargeAssumption
<1>7. Cardinality({i} \X (1 .. w[i])) = w[i]
  BY <1>2, <1>3, <1>4, <1>5, <1>6, Zenon
<1> QED
  BY <1>1, <1>7, Zenon DEF Total

(* Removing part of a set removes the part's total.                        *)
LEMMA TotalMinus ==
  ASSUME NEW S, IsFiniteSet(S), NEW T, T \subseteq S, NEW w
  PROVE  /\ Total(S \ T, w) = Total(S, w) - Total(T, w)
         /\ Total(T, w) <= Total(S, w)
         /\ Total(T, w) \in Nat
<1>1. IsFiniteSet(T)
  BY FS_Subset
<1>2. Units(S \ T, w) = Units(S, w) \ Units(T, w)
  BY DEF Units
<1>3. Units(T, w) \subseteq Units(S, w)
  BY DEF Units
<1>4. Units(S, w) \cap Units(T, w) = Units(T, w)
  BY <1>3
<1>5. IsFiniteSet(Units(S, w)) /\ IsFiniteSet(Units(T, w))
  BY <1>1, UnitsFinite
<1>6. Cardinality(Units(S, w) \ Units(T, w))
        = Cardinality(Units(S, w)) - Cardinality(Units(S, w) \cap Units(T, w))
  BY <1>5, FS_Difference
<1>7. Cardinality(Units(T, w)) <= Cardinality(Units(S, w))
  BY <1>3, <1>5, FS_Subset
<1> QED
  BY <1>1, <1>2, <1>4, <1>6, <1>7, UnitsFinite DEF Total

(* Adding a payload adds its weight.                                       *)
LEMMA TotalAdd ==
  ASSUME NEW S, IsFiniteSet(S), NEW i, i \notin S, NEW w, w[i] \in 0 .. MaxCharge
  PROVE  /\ Total(S \cup {i}, w) = Total(S, w) + w[i]
         /\ Total(S, w) \in Nat
<1>1. IsFiniteSet(S \cup {i})
  BY FS_AddElement
<1>2. (S \cup {i}) \ {i} = S
  OBVIOUS
<1>3. Total(S, w) = Total(S \cup {i}, w) - Total({i}, w)
  BY <1>1, <1>2, TotalMinus
<1>4. Total({i}, w) = w[i]
  BY TotalSingleton
<1>5. Total(S, w) \in Nat /\ Total(S \cup {i}, w) \in Nat /\ w[i] \in Int
  BY <1>1, UnitsFinite, MaxChargeAssumption
<1> QED
  BY <1>3, <1>4, <1>5

-----------------------------------------------------------------------------
(* The constants *)

(* The assumptions on the constants, one constant at a time.               *)
LEMMA Constants ==
  /\ MaxId \in Nat /\ MaxTime \in Nat /\ MaxOwners \in Nat /\ Overhead \in Nat
  /\ ObjectMax \in Nat /\ StoreMax \in Nat /\ BudgetMax \in Nat /\ MaxCharge \in Nat
  /\ TTL \in Nat /\ TTL > 0
  /\ Overhead <= MaxCharge /\ Overhead <= StoreMax
  /\ \A n \in Bodies : n \in Nat /\ n + Overhead \in 0 .. MaxCharge
BY StoreAssumption, MaxChargeAssumption

(* Payload numbers are finitely many, so every set of them has a total.    *)
LEMMA IdsFinite ==
  /\ IsFiniteSet(Ids)
  /\ \A S \in SUBSET Ids : IsFiniteSet(S) /\ \A w : Total(S, w) \in Nat
<1>1. IsFiniteSet(Ids)
  BY FS_Interval, Constants DEF Ids
<1> QED
  BY <1>1, FS_Subset, UnitsFinite

(* A nonempty set of payloads has an oldest and a newest member.           *)
LEMMA SmallestExists ==
  ASSUME NEW S \in SUBSET Ids, S # {}
  PROVE  \E i \in S : \A j \in S : i <= j
<1>1. IsWellFoundedOn(OpToRel(<, Nat), Nat)
  BY NatLessThanWellFounded
<1>2. S \subseteq Nat
  BY DEF Ids
<1>3. PICK i \in S : \A j \in S : ~ (<<j, i>> \in OpToRel(<, Nat))
  BY <1>1, <1>2, WFMin
<1>4. i \in S
  OBVIOUS
<1>5. ASSUME NEW j \in S, j < i
      PROVE  FALSE
  <2>1. <<j, i>> \in Nat \X Nat /\ <<j, i>>[1] < <<j, i>>[2]
    BY <1>2, <1>4, <1>5
  <2> QED
    BY <1>3, <2>1, Zenon DEF OpToRel
<1>6. \A j \in S : i <= j
  BY <1>2, <1>4, <1>5
<1> QED
  BY <1>4, <1>6

LEMMA LargestExists ==
  ASSUME NEW S \in SUBSET Ids, S # {}
  PROVE  \E i \in S : \A j \in S : j <= i
<1> DEFINE T == {k \in Ids : MaxId + 1 - k \in S}
<1>1. MaxId \in Nat
  BY Constants
<1>2. \A i \in S : MaxId + 1 - i \in T
  BY <1>1 DEF Ids
<1>3. PICK k \in T : \A j \in T : k <= j
  BY <1>2, SmallestExists
<1>4. \A j \in S : k <= MaxId + 1 - j
  BY <1>2, <1>3
<1> QED
  BY <1>1, <1>3, <1>4 DEF Ids

(* Dropping payloads keeps the tables and counters in their types.         *)
LEMMA DropShape ==
  ASSUME ShapeOK, NEW gone, \A s \in Stores : gone[s] \in SUBSET Ids, Drop(gone)
  PROVE  /\ used' \in Int
         /\ entries' \in [Stores -> SUBSET Ids]
         /\ total' \in [Stores -> Int]
<1>1. \A s \in Stores : Total(gone[s], charge) \in Nat
  BY IdsFinite
<1>2. {i \in UNION {gone[s] : s \in Stores} : ~Pinned(i)} \in SUBSET Ids
  OBVIOUS
<1>3. Total({i \in UNION {gone[s] : s \in Stores} : ~Pinned(i)}, charge) \in Nat
  BY <1>2, IdsFinite, Zenon
<1> QED
  BY <1>1, <1>3 DEF Drop, ShapeOK

LEMMA DropFromShape ==
  ASSUME ShapeOK, NEW s, NEW gone \in SUBSET Ids, DropFrom(s, gone)
  PROVE  /\ used' \in Int
         /\ entries' \in [Stores -> SUBSET Ids]
         /\ total' \in [Stores -> Int]
BY DropShape DEF DropFrom

LEMMA ShapeInit == Init => ShapeOK
BY Constants DEF Init, ShapeOK, Phases, Ids, NoId

LEMMA ShapeNext ==
  ASSUME ShapeOK, Handles, FreshReferences, [Next]_vars
  PROVE  ShapeOK'
<1> USE Constants DEF NoId
<1>1. ASSUME NEW c \in Calls, NEW o \in Owners, GetExisting(c, o)
      PROVE  ShapeOK'
  BY <1>1 DEF ShapeOK, GetExisting, Goto, storeVars, Phases
<1>2. ASSUME NEW c \in Calls, NEW o \in Owners, GetNew(c, o)
      PROVE  ShapeOK'
  <2>1. PICK seen \in SUBSET (Upgraded \ InUse) :
          Drop(Collected(seen)) /\ (RegistryFull(c, seen) \/ Register(c, o, seen))
    BY <1>2 DEF GetNew
  <2>2. \A s \in Stores : Collected(seen)[s] \in SUBSET Ids
    BY DEF Collected, Expired, ShapeOK
  <2>3. used' \in Int /\ entries' \in [Stores -> SUBSET Ids] /\ total' \in [Stores -> Int]
    BY <2>1, <2>2, DropShape
  <2>4. Kept(seen) \in [Owners -> Stores \cup {NoStore}]
    BY DEF ShapeOK, Kept
  <2>5. Unused \cup (Dead(seen) \ Upgraded) \subseteq Stores
    BY DEF Unused, Dead, Idle, Registered
  <2>6. /\ registry' \in [Owners -> Stores \cup {NoStore}]
        /\ pc' \in [Calls -> Phases]
        /\ owner' \in [Calls -> Owners \cup {NoOwner}]
        /\ store' \in [Calls -> Stores \cup {NoStore}]
    <3>1. CASE RegistryFull(c, seen)
      BY <2>4, <3>1 DEF RegistryFull, ShapeOK
    <3>2. CASE Register(c, o, seen)
      BY <2>4, <2>5, <3>2 DEF Register, ShapeOK, Goto, Phases
    <3> QED
      BY <2>1, <3>1, <3>2
  <2> QED
    BY <1>2, <2>3, <2>6 DEF GetNew, ShapeOK
<1>3. ASSUME NEW c \in Calls, Leave(c)
      PROVE  ShapeOK'
  BY <1>3 DEF ShapeOK, Leave, Goto, storeVars, Phases
<1>4. ASSUME NEW c \in Calls, DropBody(c)
      PROVE  ShapeOK'
  <2>1. charge[pin[c]] \in Int
    BY <1>4 DEF DropBody, ShapeOK
  <2> QED
    BY <1>4, <2>1 DEF ShapeOK, DropBody
<1>5. ASSUME NEW c \in Calls, NEW n \in Bodies, StartInsert(c, n)
      PROVE  ShapeOK'
  BY <1>5 DEF ShapeOK, StartInsert, Goto, storeVars, Phases
<1>6. ASSUME NEW c \in Calls, LockAndMakeRoom(c)
      PROVE  ShapeOK'
  <2>1. used' \in Int /\ entries' \in [Stores -> SUBSET Ids] /\ total' \in [Stores -> Int]
    <3>1. Expired(store[c], now[c])
            \cup Overflow(store[c], Expired(store[c], now[c]), body[c] + Overhead)
              \in SUBSET Ids
      BY <1>6 DEF LockAndMakeRoom, Expired, Overflow, ShapeOK, Handles
    <3> QED
      BY <1>6, <3>1, DropFromShape DEF LockAndMakeRoom
  <2>2. body[c] + Overhead \in 0 .. MaxCharge
    <3>1. body[c] \in Bodies \cup {0}
      BY DEF ShapeOK
    <3> QED
      BY <3>1
  <2>3. nextId \in Ids /\ nextId + 1 \in 1 .. (MaxId + 1)
    BY <1>6 DEF LockAndMakeRoom, ShapeOK, Ids
  <2>4. /\ charge' \in [Ids -> 0 .. MaxCharge]
        /\ fresh' \in [Calls -> Ids \cup {NoId}]
        /\ nextId' \in 1 .. (MaxId + 1)
        /\ lock' \in [Stores -> Calls \cup {NoCall}]
        /\ pc' \in [Calls -> Phases]
    BY <1>6, <2>2, <2>3 DEF ShapeOK, LockAndMakeRoom, Goto, Phases
  <2> QED
    BY <1>6, <2>1, <2>4 DEF ShapeOK, LockAndMakeRoom
<1>7. ASSUME NEW c \in Calls, Reserve(c)
      PROVE  ShapeOK'
  <2>1. charge[fresh[c]] \in Int
    BY <1>7 DEF Reserve, FreshReferences, Holding, ShapeOK
  <2> QED
    BY <1>7, <2>1 DEF ShapeOK, Reserve, Goto, Phases
<1>8. ASSUME NEW c \in Calls, ReserveFails(c)
      PROVE  ShapeOK'
  <2>1. LiveStores \subseteq Stores
    BY DEF LiveStores, Registered, InUse, Upgraded, ShapeOK
  <2> QED
    BY <1>8, <2>1 DEF ShapeOK, ReserveFails, Goto, storeVars, Phases
<1>9. ASSUME NEW c \in Calls, ReclaimOne(c)
      PROVE  ShapeOK'
  <2>1. PICK s \in snapshot[c] : /\ DropFrom(s, Reclaimed(s, now[c]))
                                 /\ snapshot' = [snapshot EXCEPT ![c] = @ \ {s}]
    BY <1>9 DEF ReclaimOne
  <2>2. s \in Stores /\ Reclaimed(s, now[c]) \in SUBSET Ids
    BY DEF Reclaimed, Expired, ShapeOK
  <2>3. used' \in Int /\ entries' \in [Stores -> SUBSET Ids] /\ total' \in [Stores -> Int]
    BY <2>1, <2>2, DropFromShape
  <2> QED
    BY <1>9, <2>1, <2>3 DEF ShapeOK, ReclaimOne
<1>10. ASSUME NEW c \in Calls, ReclaimDone(c)
       PROVE  ShapeOK'
  BY <1>10 DEF ShapeOK, ReclaimDone, Goto, storeVars, Phases
<1>11. ASSUME NEW c \in Calls, EvictOldest(c)
       PROVE  ShapeOK'
  <2>1. used' \in Int /\ entries' \in [Stores -> SUBSET Ids] /\ total' \in [Stores -> Int]
    <3>1. Oldest(store[c]) \in SUBSET Ids
      BY <1>11 DEF EvictOldest, Oldest, ShapeOK, Handles
    <3> QED
      BY <1>11, <3>1, DropFromShape DEF EvictOldest
  <2> QED
    BY <1>11, <2>1 DEF ShapeOK, EvictOldest, Goto, Phases
<1>12. ASSUME NEW c \in Calls, Refuse(c)
       PROVE  ShapeOK'
  <2>1. /\ pc' \in [Calls -> Phases]
        /\ now' \in [Calls -> 0 .. MaxTime]
        /\ body' \in [Calls -> Bodies \cup {0}]
    BY <1>12 DEF ShapeOK, Refuse, EndCall, Goto, Phases
  <2>2. /\ lock' \in [Stores -> Calls \cup {NoCall}]
        /\ fresh' \in [Calls -> Ids \cup {NoId}]
    BY <1>12 DEF ShapeOK, Refuse
  <2> QED
    BY <1>12, <2>1, <2>2 DEF ShapeOK, Refuse
<1>13. ASSUME NEW c \in Calls, Commit(c)
       PROVE  ShapeOK'
  <2>1. PICK s : s = store[c]
    OBVIOUS
  <2>2. s \in Stores /\ fresh[c] \in Ids
    BY <1>13, <2>1 DEF Commit, Handles, FreshReferences, Holding
  <2>3. Stamp(s, now[c]) \in 0 .. MaxTime
    <3>1. CASE entries[s] = {}
      BY <3>1 DEF Stamp, ShapeOK
    <3>2. CASE entries[s] # {}
      <4>1. PICK i \in entries[s] : \A j \in entries[s] : j <= i
        BY <2>2, <3>2, LargestExists DEF ShapeOK
      <4> DEFINE newest == CHOOSE k \in entries[s] : \A j \in entries[s] : j <= k
      <4>2. newest \in entries[s]
        BY <4>1
      <4> HIDE DEF newest
      <4>3. storedAt[newest] \in 0 .. MaxTime
        BY <2>2, <4>2 DEF ShapeOK
      <4>4. now[c] \in 0 .. MaxTime
        BY DEF ShapeOK
      <4> QED
        BY <3>2, <4>3, <4>4 DEF Stamp, newest
    <3> QED
      BY <3>1, <3>2
  <2>4. charge[fresh[c]] \in Int
    BY <2>2 DEF ShapeOK
  <2>5. /\ storedAt' \in [Ids -> 0 .. MaxTime]
        /\ entries' \in [Stores -> SUBSET Ids]
        /\ total' \in [Stores -> Int]
        /\ pin' \in [Calls -> Ids \cup {NoId}]
        /\ lock' \in [Stores -> Calls \cup {NoCall}]
        /\ fresh' \in [Calls -> Ids \cup {NoId}]
    BY <1>13, <2>1, <2>2, <2>3, <2>4 DEF Commit, ShapeOK
  <2>6. /\ pc' \in [Calls -> Phases]
        /\ now' \in [Calls -> 0 .. MaxTime]
        /\ body' \in [Calls -> Bodies \cup {0}]
    BY <1>13 DEF ShapeOK, Commit, EndCall, Goto, Phases
  <2> QED
    BY <1>13, <2>5, <2>6 DEF ShapeOK, Commit
<1>14. ASSUME NEW c \in Calls, StartRead(c)
       PROVE  ShapeOK'
  BY <1>14 DEF ShapeOK, StartRead, Goto, storeVars, Phases
<1>15. ASSUME NEW c \in Calls, NEW i \in Ids, Read(c, i)
       PROVE  ShapeOK'
  <2>1. Expired(store[c], now[c]) \in SUBSET Ids
    BY <1>15 DEF Read, Expired, ShapeOK, Handles
  <2>2. used' \in Int /\ entries' \in [Stores -> SUBSET Ids] /\ total' \in [Stores -> Int]
    BY <1>15, <2>1, DropFromShape DEF Read
  <2> QED
    BY <1>15, <2>2 DEF ShapeOK, Read, EndCall, Goto, Phases
<1>16. CASE Tick
  BY <1>16 DEF ShapeOK, Tick, storeVars, callVars
<1>17. CASE UNCHANGED vars
  BY <1>17 DEF ShapeOK, vars, storeVars, callVars
<1> QED
  BY <1>1, <1>2, <1>3, <1>4, <1>5, <1>6, <1>7, <1>8, <1>9, <1>10, <1>11, <1>12,
     <1>13, <1>14, <1>15, <1>16, <1>17
     DEF Next, CallStep, HolderStep
-----------------------------------------------------------------------------

(* Dropping payloads only removes entries.                                 *)
LEMMA DropShrinks ==
  ASSUME NEW gone, Drop(gone)
  PROVE  \A s \in Stores : entries'[s] \subseteq entries[s]
BY DEF Drop

LEMMA DropFromShrinks ==
  ASSUME NEW r, NEW gone, DropFrom(r, gone)
  PROVE  \A s \in Stores : entries'[s] \subseteq entries[s]
BY DropShrinks DEF DropFrom

(* A step that leaves inserts as they are, and only removes entries, keeps *)
(* what is known of their payload numbers.                                 *)
LEMMA FreshKept ==
  ASSUME FreshReferences, InsertOrder, Handles,
         fresh' = fresh, nextId' = nextId, store' = store, pin' = pin,
         \A s \in Stores : entries'[s] \subseteq entries[s],
         \A d \in Calls : pc'[d] \in Holding <=> pc[d] \in Holding
  PROVE  FreshReferences' /\ InsertOrder'
<1>1. \A d \in Calls : pc[d] \in Holding => store[d] \in Stores
  BY DEF Handles, Holding
<1> HIDE DEF Holding
<1> QED
  BY <1>1 DEF FreshReferences, InsertOrder

LEMMA StructureInit == Init => Structure
BY Constants
   DEF Init, Structure, Handles, Exclusive, FreshReferences, References, InsertOrder,
       PinFree, Admitted, Holding, Ids, NoId

LEMMA StructureNext ==
  ASSUME ShapeOK, Structure, [Next]_vars
  PROVE  Structure'
<1> USE DEF NoId
<1>0. /\ Handles /\ Exclusive /\ FreshReferences /\ References /\ InsertOrder
      /\ PinFree /\ Admitted
  BY DEF Structure
<1>a. MaxId \in Nat
  BY Constants
<1>1. ASSUME NEW c \in Calls, NEW o \in Owners, GetExisting(c, o)
      PROVE  Structure'
  BY <1>0, <1>a, <1>1 DEF Ids, Structure, Handles, Exclusive, FreshReferences,
    References, InsertOrder, PinFree, Admitted, Holding, ShapeOK, GetExisting, Goto,
       storeVars, Phases
<1>2. ASSUME NEW c \in Calls, NEW o \in Owners, GetNew(c, o)
      PROVE  Structure'
  <2>1. PICK seen \in SUBSET (Upgraded \ InUse) :
          Drop(Collected(seen)) /\ (RegistryFull(c, seen) \/ Register(c, o, seen))
    BY <1>2 DEF GetNew
  <2>2. \A s \in Stores : entries'[s] \subseteq entries[s]
    BY <2>1, DropShrinks
  <2>3. /\ pc[c] = "idle" /\ registry[o] = NoStore /\ store[c] = NoStore
        /\ UNCHANGED <<lock, nextId, now, body, fresh, pin, snapshot>>
    BY <1>0, <1>2 DEF GetNew, Handles
  <2>4. \A d \in Calls : store[d] \in Stores => store[d] \notin Dead(seen)
    BY DEF Dead, Idle, InUse
  <2>5. \A d \in Calls \ {c} : pc'[d] = pc[d] /\ store'[d] = store[d] /\ owner'[d] = owner[d]
    BY <2>1 DEF RegistryFull, Register, Goto, ShapeOK
  <2>6. \/ pc'[c] = "idle" /\ store'[c] = NoStore
        \/ /\ pc'[c] = "ready" /\ owner'[c] = o
           /\ store'[c] \in Stores /\ registry'[o] = store'[c]
    <3>1. CASE RegistryFull(c, seen)
      BY <2>3, <3>1 DEF RegistryFull
    <3>2. CASE Register(c, o, seen)
      <4>1. PICK s \in Unused \cup (Dead(seen) \ Upgraded) :
               /\ registry' = [Kept(seen) EXCEPT ![o] = s]
               /\ store' = [store EXCEPT ![c] = s]
        BY <3>2 DEF Register
      <4>2. s \in Stores
        BY DEF Unused, Dead, Idle, Registered
      <4>3. registry'[o] = s /\ store'[c] = s
        BY <4>1 DEF Kept, ShapeOK
      <4>4. owner'[c] = o /\ pc'[c] = "ready"
        BY <3>2 DEF Register, Goto, ShapeOK
      <4> QED
        BY <4>2, <4>3, <4>4
    <3> QED
      BY <2>1, <3>1, <3>2
  <2>7. \A q \in Owners \ {o} : registry[q] \notin Dead(seen) => registry'[q] = registry[q]
    BY <2>1 DEF RegistryFull, Register, Kept
  <2>8. Handles'
    <3>1. ASSUME NEW d \in Calls \ {c}, pc[d] # "idle"
          PROVE  registry'[owner[d]] = store[d]
      <4>1. store[d] \in Stores /\ owner[d] \in Owners /\ registry[owner[d]] = store[d]
        BY <1>0, <3>1 DEF Handles
      <4>2. owner[d] # o
        BY <2>3, <4>1, StoreAssumption
      <4> QED
        BY <2>4, <2>7, <4>1, <4>2
    <3> QED
      BY <1>0, <2>5, <2>6, <3>1 DEF Handles
  <2>9. \A d \in Calls : /\ pc'[d] \in Holding => pc[d] \in Holding /\ d # c
                         /\ pc[d] \in Holding => pc'[d] \in Holding
    BY <2>3, <2>5, <2>6 DEF Holding
  <2>10. Exclusive'
    BY <1>0, <2>3, <2>5, <2>9 DEF Exclusive, Holding
  <2>11. FreshReferences'
    BY <1>0, <2>2, <2>3, <2>9 DEF FreshReferences
  <2>12. References'
    BY <1>0, <2>2, <2>3 DEF References
  <2>13. InsertOrder'
    <3>1. \A d \in Calls : pc[d] \in Holding => store[d] \in Stores
      BY <1>0 DEF Handles, Holding
    <3> QED
      BY <1>0, <2>2, <2>3, <2>5, <2>9, <3>1 DEF InsertOrder
  <2>14. PinFree'
    BY <1>0, <2>3, <2>5, <2>6 DEF PinFree
  <2>15. Admitted'
    BY <1>0, <2>3, <2>5, <2>6 DEF Admitted, Admissible
  <2> QED
    BY <2>8, <2>10, <2>11, <2>12, <2>13, <2>14, <2>15 DEF Structure
<1>3. ASSUME NEW c \in Calls, Leave(c)
      PROVE  Structure'
  BY <1>0, <1>a, <1>3 DEF Ids, Structure, Handles, Exclusive, FreshReferences,
    References, InsertOrder, PinFree, Admitted, Holding, ShapeOK, Leave, Goto, storeVars, Phases
<1>4. ASSUME NEW c \in Calls, DropBody(c)
      PROVE  Structure'
  BY <1>0, <1>a, <1>4 DEF Ids, Structure, Handles, Exclusive, FreshReferences,
    References, InsertOrder, PinFree, Admitted, Holding, ShapeOK, DropBody
<1>5. ASSUME NEW c \in Calls, NEW n \in Bodies, StartInsert(c, n)
      PROVE  Structure'
  BY <1>0, <1>a, <1>5 DEF Ids, Structure, Handles, Exclusive, FreshReferences,
    References, InsertOrder, PinFree, Admitted, Holding, ShapeOK, StartInsert, Goto,
       storeVars, Phases
<1>6. ASSUME NEW c \in Calls, LockAndMakeRoom(c)
      PROVE  Structure'
  <2>1. \A s \in Stores : entries'[s] \subseteq entries[s]
    BY <1>6, DropFromShrinks DEF LockAndMakeRoom
  <2>2. Handles'
    BY <1>0, <1>6, <2>1 DEF ShapeOK, LockAndMakeRoom, Goto, Phases, Handles
  <2>a. store[c] \in Stores /\ pc[c] = "locking" /\ nextId \in Ids /\ pin[c] = NoId
    BY <1>0, <1>6 DEF LockAndMakeRoom, ShapeOK, Handles, PinFree, Ids
  <2>b. \A d \in Calls : /\ pc'[d] = IF d = c THEN "reserving" ELSE pc[d]
                         /\ fresh'[d] = IF d = c THEN nextId ELSE fresh[d]
    BY <1>6 DEF LockAndMakeRoom, ShapeOK, Goto
  <2>c. /\ lock[store[c]] = NoCall
        /\ \A s \in Stores : lock'[s] = IF s = store[c] THEN c ELSE lock[s]
    BY <1>6, <2>a DEF LockAndMakeRoom, ShapeOK
  <2>d. /\ nextId' = nextId + 1
        /\ UNCHANGED <<store, pin, owner, registry, body>>
    BY <1>6 DEF LockAndMakeRoom
  <2>e. NoCall \notin Calls
    BY StoreAssumption
  <2>f. \A d \in Calls : pc[d] \in Holding => store[d] \in Stores
    BY <1>0 DEF Handles, Holding
  <2>3. Exclusive'
    BY <1>0, <2>a, <2>b, <2>c, <2>d, <2>e, <2>f DEF Exclusive
  <2>4. FreshReferences'
    <3>1. ASSUME NEW d \in Calls
          PROVE  IF pc'[d] \in Holding THEN fresh'[d] \in Ids /\ fresh'[d] < nextId'
                                       ELSE fresh'[d] = NoId
      <4>1. CASE d = c
        BY <1>a, <2>a, <2>b, <2>d, <4>1 DEF Holding, Ids
      <4>2. CASE d # c
        BY <1>0, <1>a, <2>a, <2>b, <2>d, <4>2 DEF FreshReferences, Ids
      <4> QED
        BY <4>1, <4>2
    <3>2. \A d \in Calls, s \in Stores : fresh'[d] \notin entries'[s]
      BY <1>0, <1>a, <2>1, <2>a, <2>b DEF FreshReferences, References, Ids
    <3>3. ASSUME NEW d \in Calls, NEW e \in Calls, pc'[d] \in Holding
          PROVE  /\ pin'[e] # fresh'[d]
                 /\ d # e => fresh'[e] # fresh'[d]
      <4>1. pin[e] < nextId /\ fresh[e] < nextId /\ fresh[d] < nextId
        BY <1>0, <2>a DEF References, FreshReferences, Ids
      <4>2. CASE d = c \/ e = c
        BY <1>0, <2>a, <2>b, <2>d, <3>3, <4>1, <4>2 DEF FreshReferences, Ids
      <4>3. CASE d # c /\ e # c
        BY <1>0, <2>b, <2>d, <3>3, <4>3 DEF FreshReferences
      <4> QED
        BY <4>2, <4>3
    <3> QED
      BY <3>1, <3>2, <3>3 DEF FreshReferences
  <2>5. References'
    <3>1. \A s \in Stores : \A i \in entries'[s] : i < nextId'
      BY <1>0, <1>a, <2>1, <2>a, <2>d DEF ShapeOK, References, Ids
    <3>2. \A s, r \in Stores : s # r => entries'[s] \cap entries'[r] = {}
      BY <1>0, <2>1 DEF References
    <3>3. \A d \in Calls : pin'[d] < nextId'
      <4>1. \A d \in Calls : pin[d] \in Int
        BY DEF ShapeOK, Ids
      <4> QED
        BY <1>0, <1>a, <2>a, <2>d, <4>1 DEF References, Ids
    <3> QED
      BY <3>1, <3>2, <3>3 DEF References
  <2>6. InsertOrder'
    BY <1>0, <2>1, <2>a, <2>b, <2>d, <2>f DEF InsertOrder, References
  <2>7. PinFree'
    BY <1>0, <2>a, <2>b, <2>d DEF PinFree
  <2>8. Admitted'
    BY <1>0, <1>6, <2>1 DEF ShapeOK, LockAndMakeRoom, Goto, Phases, Admitted, Admissible
  <2> QED
    BY <2>2, <2>3, <2>4, <2>5, <2>6, <2>7, <2>8 DEF Structure
<1>7. ASSUME NEW c \in Calls, Reserve(c)
      PROVE  Structure'
  BY <1>0, <1>a, <1>7 DEF Ids, Structure, Handles, Exclusive, FreshReferences,
    References, InsertOrder, PinFree, Admitted, Holding, ShapeOK, Reserve, Goto, Phases
<1>8. ASSUME NEW c \in Calls, ReserveFails(c)
      PROVE  Structure'
  <2>1. Handles'
    BY <1>0, <1>8 DEF ShapeOK, ReserveFails, Goto, storeVars, Phases, Handles
  <2>2. Exclusive'
    BY <1>0, <1>8 DEF ShapeOK, ReserveFails, Goto, storeVars, Phases, Exclusive, Handles,
       Holding
  <2>a. \A d \in Calls : pc'[d] \in Holding <=> pc[d] \in Holding
    BY <1>8 DEF ReserveFails, ShapeOK, Goto, Holding
  <2>b. UNCHANGED <<entries, fresh, nextId, store, pin>>
    BY <1>8 DEF ReserveFails, storeVars
  <2>3. FreshReferences'
    BY <1>0, <2>a, <2>b, FreshKept
  <2>4. References'
    BY <1>0, <1>8 DEF ShapeOK, ReserveFails, Goto, storeVars, Phases, References,
       FreshReferences, Holding
  <2>5. InsertOrder'
    BY <1>0, <2>a, <2>b, FreshKept
  <2>6. PinFree'
    BY <1>0, <1>8 DEF ShapeOK, ReserveFails, Goto, storeVars, Phases, PinFree, FreshReferences
  <2>7. Admitted'
    BY <1>0, <1>8 DEF ShapeOK, ReserveFails, Goto, storeVars, Phases, Admitted, Admissible
  <2> QED
    BY <2>1, <2>2, <2>3, <2>4, <2>5, <2>6, <2>7 DEF Structure
<1>9. ASSUME NEW c \in Calls, ReclaimOne(c)
      PROVE  Structure'
  <2>1. \A s \in Stores : entries'[s] \subseteq entries[s]
    BY <1>9, DropFromShrinks DEF ReclaimOne
  <2>2. Handles'
    BY <1>0, <1>9, <2>1 DEF ShapeOK, ReclaimOne, Handles
  <2>3. Exclusive'
    BY <1>0, <1>9, <2>1 DEF ShapeOK, ReclaimOne, Exclusive, Handles, Holding
  <2>4. FreshReferences'
    BY <1>0, <1>9, <2>1 DEF ShapeOK, ReclaimOne, FreshReferences, Holding
  <2>5. References'
    BY <1>0, <1>9, <2>1 DEF ShapeOK, ReclaimOne, References, FreshReferences, Holding
  <2>6. InsertOrder'
    BY <1>0, <1>9, <2>1 DEF ShapeOK, ReclaimOne, InsertOrder, Handles, FreshReferences,
       References, Holding
  <2>7. PinFree'
    BY <1>0, <1>9, <2>1 DEF ShapeOK, ReclaimOne, PinFree, FreshReferences
  <2>8. Admitted'
    BY <1>0, <1>9, <2>1 DEF ShapeOK, ReclaimOne, Admitted, Admissible
  <2> QED
    BY <2>2, <2>3, <2>4, <2>5, <2>6, <2>7, <2>8 DEF Structure
<1>10. ASSUME NEW c \in Calls, ReclaimDone(c)
       PROVE  Structure'
  BY <1>0, <1>a, <1>10 DEF Ids, Structure, Handles, Exclusive, FreshReferences,
    References, InsertOrder, PinFree, Admitted, Holding, ShapeOK, ReclaimDone, Goto,
       storeVars, Phases
<1>11. ASSUME NEW c \in Calls, EvictOldest(c)
       PROVE  Structure'
  <2>1. \A s \in Stores : entries'[s] \subseteq entries[s]
    BY <1>11, DropFromShrinks DEF EvictOldest
  <2>2. Handles'
    BY <1>0, <1>11, <2>1 DEF ShapeOK, EvictOldest, Goto, Phases, Handles
  <2>3. Exclusive'
    BY <1>0, <1>11, <2>1 DEF ShapeOK, EvictOldest, Goto, Phases, Exclusive, Handles, Holding
  <2>a. \A d \in Calls : pc'[d] \in Holding <=> pc[d] \in Holding
    BY <1>11 DEF EvictOldest, ShapeOK, Goto, Holding
  <2>b. UNCHANGED <<fresh, nextId, store, pin>>
    BY <1>11 DEF EvictOldest
  <2>4. FreshReferences'
    BY <1>0, <2>1, <2>a, <2>b, FreshKept
  <2>5. References'
    BY <1>0, <1>11, <2>1 DEF ShapeOK, EvictOldest, Goto, Phases, References,
       FreshReferences, Holding
  <2>6. InsertOrder'
    BY <1>0, <2>1, <2>a, <2>b, FreshKept
  <2>7. PinFree'
    BY <1>0, <1>11, <2>1 DEF ShapeOK, EvictOldest, Goto, Phases, PinFree, FreshReferences
  <2>8. Admitted'
    BY <1>0, <1>11, <2>1 DEF ShapeOK, EvictOldest, Goto, Phases, Admitted, Admissible
  <2> QED
    BY <2>2, <2>3, <2>4, <2>5, <2>6, <2>7, <2>8 DEF Structure
<1>12. ASSUME NEW c \in Calls, Refuse(c)
       PROVE  Structure'
  <2>1. Handles'
    BY <1>0, <1>12 DEF ShapeOK, Refuse, EndCall, Goto, Phases, Handles
  <2>2. Exclusive'
    BY <1>0, <1>12 DEF ShapeOK, Refuse, EndCall, Goto, Phases, Exclusive, Handles, Holding
  <2>3. FreshReferences'
    <3>1. \A d \in Calls : /\ pc'[d] = IF d = c THEN "ready" ELSE pc[d]
                           /\ fresh'[d] = IF d = c THEN NoId ELSE fresh[d]
      <4>1. pc' = [pc EXCEPT ![c] = "ready"] /\ fresh' = [fresh EXCEPT ![c] = NoId]
        BY <1>12 DEF Refuse, EndCall, Goto
      <4>2. DOMAIN pc = Calls /\ DOMAIN fresh = Calls
        BY DEF ShapeOK
      <4>3. pc = [d \in Calls |-> pc[d]] /\ fresh = [d \in Calls |-> fresh[d]]
        BY DEF ShapeOK
      <4> QED
        BY <4>1, <4>2, <4>3
    <3>2. UNCHANGED <<entries, nextId, pin>>
      BY <1>12 DEF Refuse
    <3>3. pc[c] \in Holding /\ fresh[c] \in Ids
      BY <1>0, <1>12 DEF Refuse, FreshReferences, Holding
    <3>4. \A s \in Stores : NoId \notin entries[s]
      BY <1>a DEF ShapeOK, Ids
    <3> QED
      <4>1. \A d \in Calls : IF pc'[d] \in Holding THEN fresh'[d] \in Ids /\ fresh'[d] < nextId'
                                                    ELSE fresh'[d] = NoId
        BY <1>0, <3>1, <3>2 DEF FreshReferences, Holding
      <4>2. \A d \in Calls, s \in Stores : fresh'[d] \notin entries'[s]
        BY <1>0, <3>1, <3>2, <3>4 DEF FreshReferences
      <4>3. NoId \notin Ids
        BY DEF Ids
      <4>4. \A d, e \in Calls : pc'[d] \in Holding =>
              /\ pin'[e] # fresh'[d]
              /\ d # e => fresh'[e] # fresh'[d]
        BY <1>0, <3>1, <3>2, <4>3 DEF FreshReferences, Holding
      <4> QED
        BY <4>1, <4>2, <4>4 DEF FreshReferences
  <2>4. References'
    BY <1>0, <1>12 DEF ShapeOK, Refuse, EndCall, Goto, Phases, References, FreshReferences,
       Holding
  <2>5. InsertOrder'
    BY <1>0, <1>12 DEF ShapeOK, Refuse, EndCall, Goto, Phases, InsertOrder, Handles,
       FreshReferences, References, Holding
  <2>6. PinFree'
    BY <1>0, <1>12 DEF ShapeOK, Refuse, EndCall, Goto, Phases, PinFree, FreshReferences
  <2>7. Admitted'
    BY <1>0, <1>12 DEF ShapeOK, Refuse, EndCall, Goto, Phases, Admitted, Admissible
  <2> QED
    BY <2>1, <2>2, <2>3, <2>4, <2>5, <2>6, <2>7 DEF Structure
<1>13. ASSUME NEW c \in Calls, Commit(c)
       PROVE  Structure'
  <2>1. Handles'
    BY <1>0, <1>13 DEF ShapeOK, Commit, EndCall, Goto, Phases, Handles
  <2>2. Exclusive'
    BY <1>0, <1>13 DEF ShapeOK, Commit, EndCall, Goto, Phases, Exclusive, Handles, Holding
  <2>a. store[c] \in Stores /\ pc[c] = "committing" /\ fresh[c] \in Ids /\ fresh[c] < nextId
    BY <1>0, <1>13 DEF Commit, Handles, FreshReferences, Holding
  <2>b. \A d \in Calls : /\ pc'[d] = IF d = c THEN "ready" ELSE pc[d]
                         /\ fresh'[d] = IF d = c THEN NoId ELSE fresh[d]
                         /\ pin'[d] = IF d = c THEN fresh[c] ELSE pin[d]
    BY <1>13 DEF Commit, EndCall, Goto, ShapeOK
  <2>c. /\ nextId' = nextId
        /\ \A s \in Stores : entries'[s] \subseteq entries[s] \cup {fresh[c]}
    BY <1>13 DEF Commit, ShapeOK
  <2>3. FreshReferences'
    <3>1. \A d \in Calls : IF pc'[d] \in Holding THEN fresh'[d] \in Ids /\ fresh'[d] < nextId'
                                                  ELSE fresh'[d] = NoId
      BY <1>0, <2>a, <2>b, <2>c DEF FreshReferences, Holding
    <3>2. \A d \in Calls, s \in Stores : fresh'[d] \notin entries'[s]
      <4>1. \A s \in Stores : NoId \notin entries[s]
        BY <1>a DEF ShapeOK, Ids
      <4>2. pc[c] \in Holding /\ NoId \notin Ids
        BY <2>a DEF Holding, Ids
      <4> QED
        BY <1>0, <2>a, <2>b, <2>c, <4>1, <4>2 DEF FreshReferences
    <3>3. \A d, e \in Calls : pc'[d] \in Holding =>
            /\ pin'[e] # fresh'[d]
            /\ d # e => fresh'[e] # fresh'[d]
      BY <1>0, <1>a, <2>a, <2>b, <2>c DEF FreshReferences, Holding, Ids
    <3> QED
      BY <3>1, <3>2, <3>3 DEF FreshReferences
  <2>4. References'
    BY <1>0, <1>13 DEF ShapeOK, Commit, EndCall, Goto, Phases, References, FreshReferences,
       Holding
  <2>5. InsertOrder'
    <3>1. ASSUME NEW d \in Calls, pc'[d] \in Holding
          PROVE  \A i \in entries'[store'[d]] : i < fresh'[d]
      <4>1. d # c /\ pc[d] \in Holding /\ fresh'[d] = fresh[d]
        BY <2>b, <3>1 DEF Holding
      <4>2. store[d] # store[c]
        BY <1>0, <2>a, <4>1 DEF Exclusive, Holding
      <4>3. store[d] \in Stores /\ store' = store
        BY <1>0, <1>13, <4>1 DEF Commit, Handles, Holding
      <4>4. entries'[store[d]] = entries[store[d]]
        BY <1>13, <4>2, <4>3 DEF Commit, ShapeOK
      <4> QED
        BY <1>0, <4>1, <4>3, <4>4 DEF InsertOrder
    <3> QED
      BY <3>1 DEF InsertOrder
  <2>6. PinFree'
    BY <1>0, <1>13 DEF ShapeOK, Commit, EndCall, Goto, Phases, PinFree, FreshReferences
  <2>7. Admitted'
    BY <1>0, <1>13 DEF ShapeOK, Commit, EndCall, Goto, Phases, Admitted, Admissible
  <2> QED
    BY <2>1, <2>2, <2>3, <2>4, <2>5, <2>6, <2>7 DEF Structure
<1>14. ASSUME NEW c \in Calls, StartRead(c)
       PROVE  Structure'
  BY <1>0, <1>a, <1>14 DEF Ids, Structure, Handles, Exclusive, FreshReferences,
    References, InsertOrder, PinFree, Admitted, Holding, ShapeOK, StartRead, Goto,
       storeVars, Phases
<1>15. ASSUME NEW c \in Calls, NEW i \in Ids, Read(c, i)
       PROVE  Structure'
  <2>1. \A s \in Stores : entries'[s] \subseteq entries[s]
    BY <1>15, DropFromShrinks DEF Read
  <2>2. Handles'
    BY <1>0, <1>15, <2>1 DEF ShapeOK, Read, Readable, EndCall, Goto, Phases, Handles
  <2>3. Exclusive'
    BY <1>0, <1>15, <2>1 DEF ShapeOK, Read, Readable, EndCall, Goto, Phases, Exclusive,
       Handles, Holding
  <2>a. store[c] \in Stores /\ pc[c] = "reading" /\ UNCHANGED <<fresh, nextId>>
    BY <1>0, <1>15 DEF Read, Handles
  <2>b. \A d \in Calls : /\ pc'[d] = IF d = c THEN "ready" ELSE pc[d]
                         /\ d # c => pin'[d] = pin[d]
    BY <1>15 DEF Read, EndCall, Goto, ShapeOK
  <2>c. pin'[c] = NoId \/ pin'[c] \in entries[store[c]]
    BY <1>15 DEF Read, Readable, ShapeOK
  <2>4. FreshReferences'
    <3>1. \A d \in Calls : IF pc'[d] \in Holding THEN fresh'[d] \in Ids /\ fresh'[d] < nextId'
                                                  ELSE fresh'[d] = NoId
      BY <1>0, <2>a, <2>b DEF FreshReferences, Holding
    <3>2. \A d \in Calls, s \in Stores : fresh'[d] \notin entries'[s]
      BY <1>0, <2>1, <2>a DEF FreshReferences
    <3>3. \A d, e \in Calls : pc'[d] \in Holding =>
            /\ pin'[e] # fresh'[d]
            /\ d # e => fresh'[e] # fresh'[d]
      BY <1>0, <1>a, <2>a, <2>b, <2>c DEF FreshReferences, Holding, Ids
    <3> QED
      BY <3>1, <3>2, <3>3 DEF FreshReferences
  <2>5. References'
    <3>1. \A d \in Calls : pin'[d] < nextId'
      <4>1. NoId < nextId
        BY <1>a DEF ShapeOK
      <4> QED
        BY <1>0, <2>a, <2>b, <2>c, <4>1 DEF References
    <3> QED
      BY <1>0, <2>1, <2>a, <3>1 DEF References
  <2>6. InsertOrder'
    BY <1>0, <1>15, <2>1 DEF ShapeOK, Read, Readable, EndCall, Goto, Phases, InsertOrder,
       Handles, FreshReferences, References, Holding
  <2>7. PinFree'
    BY <1>0, <1>15, <2>1 DEF ShapeOK, Read, Readable, EndCall, Goto, Phases, PinFree,
       FreshReferences
  <2>8. Admitted'
    BY <1>0, <1>15, <2>1 DEF ShapeOK, Read, Readable, EndCall, Goto, Phases, Admitted,
       Admissible
  <2> QED
    BY <2>2, <2>3, <2>4, <2>5, <2>6, <2>7, <2>8 DEF Structure
<1>16. CASE Tick
  BY <1>0, <1>a, <1>16 DEF Ids, Structure, Handles, Exclusive, FreshReferences,
    References, InsertOrder, PinFree, Admitted, Holding, ShapeOK, Tick, storeVars, callVars
<1>17. CASE UNCHANGED vars
  BY <1>0, <1>a, <1>17 DEF Ids, Structure, Handles, Exclusive, FreshReferences,
    References, InsertOrder, PinFree, Admitted, Holding, ShapeOK, vars, storeVars, callVars
<1> QED
  BY <1>1, <1>2, <1>3, <1>4, <1>5, <1>6, <1>7, <1>8, <1>9, <1>10, <1>11, <1>12,
     <1>13, <1>14, <1>15, <1>16, <1>17
     DEF Next, CallStep, HolderStep

-----------------------------------------------------------------------------
(* The byte accounting *)

(* Payloads whose bytes a drop returns to the budget.                      *)
Released(gone) == {i \in UNION {gone[s] : s \in Stores} : ~Pinned(i)}

LEMMA ChargedIds == ShapeOK => Charged \in SUBSET Ids
BY DEF Charged

LEMMA ChargeBounds ==
  ASSUME ShapeOK, NEW i \in Ids
  PROVE  charge[i] \in Nat /\ charge[i] \in 0 .. MaxCharge
BY Constants DEF ShapeOK

(* Dropping stored payloads lowers the counters by exactly their bytes.    *)
LEMMA DropAccounting ==
  ASSUME ShapeOK, BudgetExact, StoreBounded,
         NEW gone, \A s \in Stores : gone[s] \subseteq entries[s], Drop(gone)
  PROVE  /\ used' = Total(Charged \ Released(gone), charge)
         /\ used' <= used
         /\ \A s \in Stores : /\ total'[s] = Total(entries'[s], charge)
                              /\ total'[s] <= total[s]
<1>1. Released(gone) \subseteq Charged
  BY DEF Released, Charged, ShapeOK
<1>2. IsFiniteSet(Charged) /\ used \in Nat
  BY ChargedIds, IdsFinite DEF BudgetExact
<1>3. /\ Total(Charged \ Released(gone), charge) = used - Total(Released(gone), charge)
      /\ Total(Released(gone), charge) \in Nat
  BY <1>1, <1>2, TotalMinus DEF BudgetExact
<1>4. used' = used - Total(Released(gone), charge)
  BY DEF Drop, Released
<1>5. ASSUME NEW s \in Stores
      PROVE  /\ total'[s] = Total(entries'[s], charge)
             /\ total'[s] <= total[s]
  <2>1. entries[s] \in SUBSET Ids
    BY DEF ShapeOK
  <2>2. IsFiniteSet(entries[s]) /\ total[s] \in Nat /\ total[s] = Total(entries[s], charge)
    BY <2>1, IdsFinite DEF StoreBounded
  <2>3. /\ Total(entries[s] \ gone[s], charge) = total[s] - Total(gone[s], charge)
        /\ Total(gone[s], charge) \in Nat
    BY <2>2, TotalMinus
  <2>4. entries'[s] = entries[s] \ gone[s] /\ total'[s] = total[s] - Total(gone[s], charge)
    BY DEF Drop
  <2> QED
    BY <2>2, <2>3, <2>4
<1> QED
  BY <1>2, <1>3, <1>4, <1>5

(* When readers and reservations stay as they are, the payloads a drop     *)
(* releases are exactly those that stop being charged: a payload is stored *)
(* in one store only, and one being inserted in none.                      *)
LEMMA DropCharged ==
  ASSUME ShapeOK, References, FreshReferences,
         NEW gone, \A s \in Stores : gone[s] \subseteq entries[s], Drop(gone),
         \A i \in Ids : Pinned(i) => Pinned(i)',
         \A i \in Ids : Pinned(i)' => Pinned(i) \/ \E s \in Stores : i \in entries'[s],
         \A c \in Calls : pc'[c] = "committing" <=> pc[c] = "committing",
         \A c \in Calls : pc[c] = "committing" => fresh'[c] = fresh[c]
  PROVE  Charged' = Charged \ Released(gone)
<1> DEFINE Stored(i) == \E s \in Stores : i \in entries[s]
           Pending(i) == \E c \in Calls : pc[c] = "committing" /\ fresh[c] = i
<1>1. Charged = {i \in Ids : Stored(i) \/ Pinned(i) \/ Pending(i)}
  BY DEF Charged, Reserved
<1>2. Charged' = {i \in Ids : Stored(i)' \/ Pinned(i)' \/ Pending(i)}
  BY DEF Charged, Reserved
<1>3. \A i \in Ids : Stored(i)' <=> Stored(i) /\ \A s \in Stores : i \notin gone[s]
  <2>1. \A s \in Stores : entries'[s] = entries[s] \ gone[s]
    BY DEF Drop
  <2>2. \A s, t \in Stores : s # t => entries[s] \cap entries[t] = {}
    BY DEF References
  <2> QED
    BY <2>1, <2>2
<1>4. \A i \in Ids : i \in Released(gone) <=> ~Pinned(i) /\ \E s \in Stores : i \in gone[s]
  BY DEF Released
<1>5. \A i \in Ids, s \in Stores : i \in gone[s] => Stored(i) /\ ~Pending(i)
  BY DEF FreshReferences
<1>6. \A i \in Ids : Pinned(i)' => Pinned(i) \/ Stored(i)'
  OBVIOUS
<1> HIDE DEF Stored, Pending
<1>7. \A i \in Ids : i \in Charged' <=> i \in Charged /\ i \notin Released(gone)
  BY <1>1, <1>2, <1>3, <1>4, <1>5, <1>6
<1>8. Charged \subseteq Ids /\ Charged' \subseteq Ids
  BY <1>1, <1>2
<1> QED
  BY <1>7, <1>8

(* A drop that leaves readers, reservations and charges alone keeps the    *)
(* accounts.                                                               *)
LEMMA DropKeepsAccounts ==
  ASSUME ShapeOK, References, FreshReferences, BudgetExact, StoreBounded,
         NEW gone, \A s \in Stores : gone[s] \subseteq entries[s], Drop(gone),
         \A i \in Ids : Pinned(i) => Pinned(i)',
         \A i \in Ids : Pinned(i)' => Pinned(i) \/ \E s \in Stores : i \in entries'[s],
         \A c \in Calls : pc'[c] = "committing" <=> pc[c] = "committing",
         \A c \in Calls : pc[c] = "committing" => fresh'[c] = fresh[c],
         charge' = charge
  PROVE  BudgetExact' /\ StoreBounded' /\ used' <= used
<1>1. Charged' = Charged \ Released(gone)
  BY DropCharged
<1>2. BudgetExact' /\ used' <= used
  BY <1>1, DropAccounting DEF BudgetExact
<1>3. ASSUME NEW s \in Stores
      PROVE  total'[s] = Total(entries'[s], charge') /\ total'[s] <= StoreMax
  <2>1. total[s] \in Int /\ total[s] <= StoreMax /\ entries[s] \in SUBSET Ids
    BY DEF StoreBounded, ShapeOK
  <2>2. total'[s] = Total(entries'[s], charge) /\ total'[s] <= total[s]
    BY DropAccounting
  <2>3. entries'[s] \in SUBSET Ids
    BY <2>1 DEF Drop
  <2>4. total'[s] \in Int
    BY <2>2, <2>3, IdsFinite
  <2> QED
    BY <2>1, <2>2, <2>4, Constants
<1> QED
  BY <1>2, <1>3 DEF StoreBounded

LEMMA DropFromKeepsAccounts ==
  ASSUME ShapeOK, References, FreshReferences, BudgetExact, StoreBounded,
         NEW r \in Stores, NEW gone, gone \subseteq entries[r], DropFrom(r, gone),
         \A i \in Ids : Pinned(i) => Pinned(i)',
         \A i \in Ids : Pinned(i)' => Pinned(i) \/ \E s \in Stores : i \in entries'[s],
         \A c \in Calls : pc'[c] = "committing" <=> pc[c] = "committing",
         \A c \in Calls : pc[c] = "committing" => fresh'[c] = fresh[c],
         charge' = charge
  PROVE  BudgetExact' /\ StoreBounded' /\ used' <= used
<1> DEFINE g == [t \in Stores |-> IF t = r THEN gone ELSE {}]
<1>1. Drop(g)
  BY DEF DropFrom
<1>2. \A s \in Stores : g[s] \subseteq entries[s]
  OBVIOUS
<1> HIDE DEF g
<1> QED
  BY <1>1, <1>2, DropKeepsAccounts

(* Steps that touch neither the stores nor the budget keep the accounts.   *)
LEMMA AccountsUntouched ==
  ASSUME ShapeOK, BudgetExact, StoreBounded,
         UNCHANGED <<entries, total, used, charge, pin>>,
         \A c \in Calls : pc'[c] = "committing" <=> pc[c] = "committing",
         \A c \in Calls : pc[c] = "committing" => fresh'[c] = fresh[c]
  PROVE  BudgetExact' /\ StoreBounded'
<1>1. Charged' = Charged
  BY DEF Charged, Pinned, Reserved
<1> QED
  BY <1>1 DEF BudgetExact, StoreBounded

(* Once the expired entries and those the cap evicts are gone, the new     *)
(* payload fits the store: what remains is part of a suffix that fits.     *)
LEMMA RoomAfterOverflow ==
  ASSUME ShapeOK, StoreBounded, NEW s \in Stores, NEW stale, NEW n \in Nat, n <= StoreMax
  PROVE  Total(entries[s] \ (stale \cup Overflow(s, stale, n)), charge) + n <= StoreMax
<1> DEFINE rest == entries[s] \ (stale \cup Overflow(s, stale, n))
<1>1. entries[s] \in SUBSET Ids /\ IsFiniteSet(entries[s])
  BY IdsFinite DEF ShapeOK
<1>2. CASE rest = {}
  <2>1. Total(rest, charge) = 0
    BY <1>2, TotalEmpty
  <2> QED
    BY <2>1
<1>3. CASE rest # {}
  <2>1. PICK m \in rest : \A j \in rest : m <= j
    BY <1>1, <1>3, SmallestExists
  <2> DEFINE older == {j \in entries[s] : j < m}
  <2>2. ~(total[s] - Total(older, charge) + n > StoreMax)
    BY <2>1 DEF Overflow
  <2>3. Total(entries[s] \ older, charge) = total[s] - Total(older, charge)
    BY <1>1, TotalMinus DEF StoreBounded
  <2>4. rest \subseteq entries[s] \ older
    BY <1>1, <2>1 DEF Ids
  <2>5. IsFiniteSet(entries[s] \ older)
    BY <1>1, FS_Difference
  <2> HIDE DEF rest, older
  <2>6. Total(rest, charge) <= Total(entries[s] \ older, charge) /\ Total(rest, charge) \in Nat
    BY <2>4, <2>5, TotalMinus
  <2>7. Total(entries[s] \ older, charge) \in Nat
    BY <2>5, UnitsFinite
  <2>8. total[s] - Total(older, charge) + n <= StoreMax
    BY <2>2, <2>3, <2>7, Constants
  <2> QED
    BY <2>3, <2>6, <2>7, <2>8, Constants DEF rest
<1> QED
  BY <1>2, <1>3

LEMMA AccountsNext ==
  ASSUME ShapeOK, Structure, BudgetExact, BudgetBounded, StoreBounded, RoomMade, [Next]_vars
  PROVE  BudgetExact' /\ BudgetBounded' /\ StoreBounded'
<1> USE DEF NoId
<1>0. /\ Handles /\ Exclusive /\ FreshReferences /\ References /\ InsertOrder
      /\ PinFree /\ Admitted
  BY DEF Structure
<1>a. used \in Nat /\ used <= BudgetMax /\ BudgetMax \in Nat /\ MaxId \in Nat
  BY ChargedIds, IdsFinite, Constants DEF BudgetExact, BudgetBounded
<1>b. (BudgetExact' /\ StoreBounded' /\ used' <= used) => BudgetBounded'
  <2>1. ShapeOK'
    BY <1>0, ShapeNext
  <2> QED
    BY <1>a, <2>1 DEF BudgetBounded, ShapeOK
<1>1. ASSUME NEW c \in Calls, NEW o \in Owners, GetExisting(c, o)
      PROVE  BudgetExact' /\ StoreBounded' /\ used' <= used
  <2>1. UNCHANGED <<entries, total, used, charge, pin, fresh>>
    BY <1>1 DEF GetExisting, storeVars
  <2>2. \A d \in Calls : pc'[d] = "committing" <=> pc[d] = "committing"
    BY <1>1 DEF GetExisting, ShapeOK, Goto
  <2> QED
    BY <1>a, <2>1, <2>2, AccountsUntouched
<1>2. ASSUME NEW c \in Calls, NEW o \in Owners, GetNew(c, o)
      PROVE  BudgetExact' /\ StoreBounded' /\ used' <= used
  <2>1. PICK seen \in SUBSET (Upgraded \ InUse) :
          Drop(Collected(seen)) /\ (RegistryFull(c, seen) \/ Register(c, o, seen))
    BY <1>2 DEF GetNew
  <2>2. UNCHANGED <<charge, pin, fresh>> /\ pc[c] = "idle"
    BY <1>2 DEF GetNew
  <2>3. \A s \in Stores : Collected(seen)[s] \subseteq entries[s]
    BY DEF Collected, Expired
  <2>4. \A d \in Calls : pc'[d] = "committing" <=> pc[d] = "committing"
    BY <2>1, <2>2 DEF RegistryFull, Register, ShapeOK, Goto
  <2>5. \A i : Pinned(i)' <=> Pinned(i)
    BY <2>2 DEF Pinned
  <2> QED
    BY <1>0, <2>1, <2>2, <2>3, <2>4, <2>5, DropKeepsAccounts
<1>3. ASSUME NEW c \in Calls, Leave(c)
      PROVE  BudgetExact' /\ StoreBounded' /\ used' <= used
  <2>1. UNCHANGED <<entries, total, used, charge, pin, fresh>>
    BY <1>3 DEF Leave, storeVars
  <2>2. \A d \in Calls : pc'[d] = "committing" <=> pc[d] = "committing"
    BY <1>3 DEF Leave, ShapeOK, Goto
  <2> QED
    BY <1>a, <2>1, <2>2, AccountsUntouched
<1>4. ASSUME NEW c \in Calls, DropBody(c)
      PROVE  BudgetExact' /\ StoreBounded' /\ used' <= used
  <2>1. /\ pin[c] \in Ids
        /\ UNCHANGED <<entries, total, charge, pc, fresh>>
        /\ \A d \in Calls : pin'[d] = IF d = c THEN NoId ELSE pin[d]
    BY <1>4 DEF DropBody, ShapeOK
  <2>2. StoreBounded'
    BY <2>1 DEF StoreBounded
  <2>3. NoId \notin Ids
    BY DEF Ids
  <2>4. CASE (\E s \in Stores : pin[c] \in entries[s]) \/ \E d \in Calls \ {c} : pin[d] = pin[c]
    <3>1. Charged' = Charged
      BY <2>1, <2>3, <2>4 DEF Charged, Pinned, Reserved
    <3>2. used' = used
      BY <1>4, <2>4 DEF DropBody
    <3> QED
      BY <1>a, <2>1, <2>2, <3>1, <3>2 DEF BudgetExact
  <2>5. CASE ~((\E s \in Stores : pin[c] \in entries[s]) \/ \E d \in Calls \ {c} : pin[d] = pin[c])
    <3>1. \A d \in Calls : pc[d] = "committing" => fresh[d] # pin[c]
      BY <1>0 DEF FreshReferences, Holding
    <3>2. Charged' = Charged \ {pin[c]}
      BY <2>1, <2>3, <2>5, <3>1 DEF Charged, Pinned, Reserved
    <3>3. used' = used - charge[pin[c]]
      BY <1>4, <2>5 DEF DropBody
    <3>4. pin[c] \in Charged
      BY <2>1 DEF Charged, Pinned
    <3>5. Total({pin[c]}, charge) = charge[pin[c]] /\ charge[pin[c]] \in Nat
      BY <2>1, ChargeBounds, TotalSingleton
    <3>6. Total(Charged \ {pin[c]}, charge) = Total(Charged, charge) - Total({pin[c]}, charge)
      <4>1. IsFiniteSet(Charged) /\ {pin[c]} \subseteq Charged
        BY <3>4, ChargedIds, IdsFinite
      <4> QED
        BY <4>1, TotalMinus
    <3> QED
      BY <1>a, <2>1, <2>2, <3>2, <3>3, <3>5, <3>6 DEF BudgetExact
  <2> QED
    BY <2>4, <2>5
<1>5. ASSUME NEW c \in Calls, NEW n \in Bodies, StartInsert(c, n)
      PROVE  BudgetExact' /\ StoreBounded' /\ used' <= used
  <2>1. UNCHANGED <<entries, total, used, charge, pin, fresh>>
    BY <1>5 DEF StartInsert, storeVars
  <2>2. \A d \in Calls : pc'[d] = "committing" <=> pc[d] = "committing"
    BY <1>5 DEF StartInsert, ShapeOK, Goto
  <2> QED
    BY <1>a, <2>1, <2>2, AccountsUntouched
<1>6. ASSUME NEW c \in Calls, LockAndMakeRoom(c)
      PROVE  BudgetExact' /\ StoreBounded' /\ used' <= used
  <2> DEFINE gone == Expired(store[c], now[c])
                       \cup Overflow(store[c], Expired(store[c], now[c]), body[c] + Overhead)
             g == [t \in Stores |-> IF t = store[c] THEN gone ELSE {}]
  <2>1. /\ Drop(g) /\ UNCHANGED pin
        /\ store[c] \in Stores /\ \A s \in Stores : g[s] \subseteq entries[s]
    BY <1>0, <1>6 DEF LockAndMakeRoom, DropFrom, Expired, Overflow, Handles
  <2> HIDE DEF gone, g
  <2>2. /\ pc[c] = "locking"
        /\ \A d \in Calls : pc'[d] = "committing" <=> pc[d] = "committing"
    BY <1>6 DEF LockAndMakeRoom, ShapeOK, Goto
  <2>3. \A d \in Calls : pc[d] = "committing" => fresh'[d] = fresh[d]
    BY <1>6 DEF LockAndMakeRoom, ShapeOK
  <2>4. \A i \in Ids : i < nextId => charge'[i] = charge[i]
    BY <1>6 DEF LockAndMakeRoom, ShapeOK
  <2>5. \A i : Pinned(i)' <=> Pinned(i)
    BY <2>1 DEF Pinned
  <2>6. Charged' = Charged \ Released(g)
    BY <1>0, <2>1, <2>2, <2>3, <2>5, DropCharged
  <2>7. \A i \in Charged : i \in Ids /\ i < nextId
    BY <1>0 DEF Charged, Pinned, Reserved, References, FreshReferences, Holding
  <2>8. Total(Charged', charge') = Total(Charged', charge)
    BY <2>4, <2>6, <2>7, TotalSame
  <2>9. /\ used' = Total(Charged \ Released(g), charge)
        /\ used' <= used
        /\ \A s \in Stores : total'[s] = Total(entries'[s], charge) /\ total'[s] <= total[s]
    BY <2>1, DropAccounting
  <2>10. ASSUME NEW s \in Stores
         PROVE  total'[s] = Total(entries'[s], charge') /\ total'[s] <= StoreMax
    <3>1. entries'[s] \subseteq entries[s] /\ entries[s] \in SUBSET Ids
      BY <2>1, DropShrinks DEF ShapeOK
    <3>2. \A i \in entries'[s] : charge'[i] = charge[i]
      BY <1>0, <2>4, <3>1 DEF References
    <3>3. Total(entries'[s], charge') = Total(entries'[s], charge)
      BY <3>2, TotalSame
    <3>4. Total(entries'[s], charge) \in Nat /\ total[s] \in Int /\ total[s] <= StoreMax
      BY <3>1, IdsFinite DEF ShapeOK, StoreBounded
    <3> QED
      BY <2>9, <3>3, <3>4, Constants
  <2> QED
    BY <2>6, <2>8, <2>9, <2>10 DEF BudgetExact, StoreBounded
<1>7. ASSUME NEW c \in Calls, Reserve(c)
      PROVE  BudgetExact' /\ StoreBounded' /\ used' <= BudgetMax
  <2>1. /\ UNCHANGED <<entries, total, charge, pin, fresh>>
        /\ used' = used + charge[fresh[c]] /\ used + charge[fresh[c]] <= BudgetMax
        /\ pc[c] \in Holding /\ pc[c] # "committing"
    BY <1>7 DEF Reserve, Fits, Holding
  <2>2. \A d \in Calls : pc'[d] = IF d = c THEN "committing" ELSE pc[d]
    BY <1>7 DEF Reserve, ShapeOK, Goto
  <2>3. fresh[c] \in Ids
    BY <1>0, <2>1 DEF FreshReferences
  <2>4. fresh[c] \notin Charged
    <3>1. \A d \in Calls : pc[d] = "committing" => fresh[d] # fresh[c]
      BY <1>0, <2>1 DEF FreshReferences
    <3> QED
      BY <1>0, <2>1, <3>1 DEF FreshReferences, Charged, Pinned, Reserved
  <2>5. Charged' = Charged \cup {fresh[c]}
    BY <2>1, <2>2, <2>3 DEF Charged, Pinned, Reserved
  <2>6. IsFiniteSet(Charged) /\ charge[fresh[c]] \in 0 .. MaxCharge
    BY <2>3, ChargedIds, IdsFinite, ChargeBounds
  <2>7. Total(Charged \cup {fresh[c]}, charge) = Total(Charged, charge) + charge[fresh[c]]
    BY <2>4, <2>6, TotalAdd
  <2> QED
    BY <2>1, <2>5, <2>7 DEF BudgetExact, StoreBounded
<1>8. ASSUME NEW c \in Calls, ReserveFails(c)
      PROVE  BudgetExact' /\ StoreBounded' /\ used' <= used
  <2>1. UNCHANGED <<entries, total, used, charge, pin, fresh>>
    BY <1>8 DEF ReserveFails, storeVars
  <2>2. \A d \in Calls : pc'[d] = "committing" <=> pc[d] = "committing"
    BY <1>8 DEF ReserveFails, ShapeOK, Goto
  <2> QED
    BY <1>a, <2>1, <2>2, AccountsUntouched
<1>9. ASSUME NEW c \in Calls, ReclaimOne(c)
      PROVE  BudgetExact' /\ StoreBounded' /\ used' <= used
  <2>1. PICK s \in snapshot[c] : DropFrom(s, Reclaimed(s, now[c]))
    BY <1>9 DEF ReclaimOne
  <2>2. s \in Stores /\ Reclaimed(s, now[c]) \subseteq entries[s]
    BY DEF Reclaimed, Expired, ShapeOK
  <2>3. UNCHANGED <<charge, pin, fresh, pc>>
    BY <1>9 DEF ReclaimOne
  <2>4. \A i : Pinned(i)' <=> Pinned(i)
    BY <2>3 DEF Pinned
  <2> QED
    BY <1>0, <2>1, <2>2, <2>3, <2>4, DropFromKeepsAccounts
<1>10. ASSUME NEW c \in Calls, ReclaimDone(c)
       PROVE  BudgetExact' /\ StoreBounded' /\ used' <= used
  <2>1. UNCHANGED <<entries, total, used, charge, pin, fresh>>
    BY <1>10 DEF ReclaimDone, storeVars
  <2>2. \A d \in Calls : pc'[d] = "committing" <=> pc[d] = "committing"
    BY <1>10 DEF ReclaimDone, ShapeOK, Goto
  <2> QED
    BY <1>a, <2>1, <2>2, AccountsUntouched
<1>11. ASSUME NEW c \in Calls, EvictOldest(c)
       PROVE  BudgetExact' /\ StoreBounded' /\ used' <= used
  <2>1. /\ DropFrom(store[c], Oldest(store[c])) /\ UNCHANGED <<charge, pin, fresh>>
        /\ store[c] \in Stores /\ Oldest(store[c]) \subseteq entries[store[c]]
    BY <1>0, <1>11 DEF EvictOldest, Oldest, Handles
  <2>2. \A d \in Calls : pc'[d] = "committing" <=> pc[d] = "committing"
    BY <1>11 DEF EvictOldest, ShapeOK, Goto
  <2>3. \A i : Pinned(i)' <=> Pinned(i)
    BY <2>1 DEF Pinned
  <2> QED
    BY <1>0, <2>1, <2>2, <2>3, DropFromKeepsAccounts
<1>12. ASSUME NEW c \in Calls, Refuse(c)
       PROVE  BudgetExact' /\ StoreBounded' /\ used' <= used
  <2>1. UNCHANGED <<entries, total, used, charge, pin>> /\ pc[c] = "evicting"
    BY <1>12 DEF Refuse
  <2>2. \A d \in Calls : pc'[d] = "committing" <=> pc[d] = "committing"
    BY <1>12 DEF Refuse, ShapeOK, EndCall, Goto
  <2>3. \A d \in Calls : pc[d] = "committing" => fresh'[d] = fresh[d]
    BY <1>12 DEF Refuse, ShapeOK
  <2> QED
    BY <1>a, <2>1, <2>2, <2>3, AccountsUntouched
<1>13. ASSUME NEW c \in Calls, Commit(c)
       PROVE  BudgetExact' /\ StoreBounded' /\ used' <= used
  <2>1. /\ pc[c] = "committing" /\ store[c] \in Stores /\ pin[c] = NoId
        /\ fresh[c] \in Ids /\ UNCHANGED <<used, charge>>
    BY <1>0, <1>13 DEF Commit, Handles, FreshReferences, PinFree, Holding
  <2>2. \A d \in Calls : /\ pc'[d] = IF d = c THEN "ready" ELSE pc[d]
                         /\ d # c => fresh'[d] = fresh[d]
                         /\ pin'[d] = IF d = c THEN fresh[c] ELSE pin[d]
    BY <1>13 DEF Commit, EndCall, Goto, ShapeOK
  <2>3. \A s \in Stores : entries'[s] = IF s = store[c] THEN entries[s] \cup {fresh[c]}
                                        ELSE entries[s]
    BY <1>13 DEF Commit, ShapeOK
  <2>4. \A s \in Stores : total'[s] = IF s = store[c] THEN total[s] + charge[fresh[c]]
                                      ELSE total[s]
    BY <1>13 DEF Commit, ShapeOK
  <2>5. Charged' = Charged
    <3>1. ASSUME NEW i \in Ids
          PROVE  i \in Charged' <=> i \in Charged
      <4>1. CASE i = fresh[c]
        BY <2>1, <2>2, <4>1 DEF Charged, Pinned, Reserved
      <4>2. CASE i # fresh[c]
        <5>1. (\E s \in Stores : i \in entries'[s]) <=> \E s \in Stores : i \in entries[s]
          BY <2>3, <4>2
        <5>2. Pinned(i)' <=> Pinned(i)
          <6>1. i # NoId
            BY DEF Ids
          <6> QED
            BY <2>1, <2>2, <4>2, <6>1 DEF Pinned
        <5>3. (\E d \in Calls : Reserved(d) /\ fresh[d] = i)'
                <=> \E d \in Calls : Reserved(d) /\ fresh[d] = i
          BY <2>2, <4>2 DEF Reserved
        <5> QED
          BY <5>1, <5>2, <5>3 DEF Charged
      <4> QED
        BY <4>1, <4>2
    <3> QED
      BY <3>1 DEF Charged
  <2>6. ASSUME NEW s \in Stores
        PROVE  total'[s] = Total(entries'[s], charge) /\ total'[s] <= StoreMax
    <3>1. entries[s] \in SUBSET Ids /\ IsFiniteSet(entries[s])
      BY IdsFinite DEF ShapeOK
    <3>2. fresh[c] \notin entries[s] /\ charge[fresh[c]] \in 0 .. MaxCharge
      BY <1>0, <2>1, ChargeBounds DEF FreshReferences
    <3>3. Total(entries[s] \cup {fresh[c]}, charge) = Total(entries[s], charge) + charge[fresh[c]]
      BY <3>1, <3>2, TotalAdd
    <3>4. s = store[c] => total[s] + charge[fresh[c]] <= StoreMax
      BY <2>1 DEF RoomMade, Holding
    <3> QED
      BY <2>3, <2>4, <3>3, <3>4 DEF StoreBounded
  <2> QED
    BY <1>a, <2>1, <2>5, <2>6 DEF BudgetExact, StoreBounded
<1>14. ASSUME NEW c \in Calls, StartRead(c)
       PROVE  BudgetExact' /\ StoreBounded' /\ used' <= used
  <2>1. UNCHANGED <<entries, total, used, charge, pin, fresh>>
    BY <1>14 DEF StartRead, storeVars
  <2>2. \A d \in Calls : pc'[d] = "committing" <=> pc[d] = "committing"
    BY <1>14 DEF StartRead, ShapeOK, Goto
  <2> QED
    BY <1>a, <2>1, <2>2, AccountsUntouched
<1>15. ASSUME NEW c \in Calls, NEW i \in Ids, Read(c, i)
       PROVE  BudgetExact' /\ StoreBounded' /\ used' <= used
  <2> DEFINE gone == Expired(store[c], now[c])
  <2>1. /\ DropFrom(store[c], gone) /\ UNCHANGED <<charge, fresh>>
        /\ store[c] \in Stores /\ gone \subseteq entries[store[c]]
    BY <1>0, <1>15 DEF Read, Expired, Handles
  <2>2. \A d \in Calls : pc'[d] = "committing" <=> pc[d] = "committing"
    BY <1>15 DEF Read, ShapeOK, EndCall, Goto
  <2>3. /\ \A d \in Calls : d # c => pin'[d] = pin[d]
        /\ pin[c] = NoId
        /\ pin'[c] = NoId \/ pin'[c] \in entries[store[c]] \ gone
    BY <1>0, <1>15 DEF Read, Readable, PinFree, ShapeOK
  <2>4. entries'[store[c]] = entries[store[c]] \ gone
    BY <2>1 DEF DropFrom, Drop
  <2>5. NoId \notin Ids
    BY DEF Ids
  <2> HIDE DEF gone
  <2>6. \A j \in Ids : /\ Pinned(j) => Pinned(j)'
                       /\ Pinned(j)' => Pinned(j) \/ \E s \in Stores : j \in entries'[s]
    BY <2>1, <2>3, <2>4, <2>5 DEF Pinned
  <2> QED
    BY <1>0, <2>1, <2>2, <2>6, DropFromKeepsAccounts
<1>16. CASE Tick
  BY <1>16, AccountsUntouched DEF Tick, storeVars, callVars, BudgetBounded
<1>17. CASE UNCHANGED vars
  BY <1>17, AccountsUntouched DEF vars, storeVars, callVars, BudgetBounded
<1>18. \A c \in Calls : Reserve(c) => BudgetExact' /\ BudgetBounded' /\ StoreBounded'
  BY <1>7 DEF BudgetBounded
<1> QED
  BY <1>b, <1>1, <1>2, <1>3, <1>4, <1>5, <1>6, <1>8, <1>9, <1>10, <1>11, <1>12, <1>13,
     <1>14, <1>15, <1>16, <1>17, <1>18
     DEF Next, CallStep, HolderStep
-----------------------------------------------------------------------------

(* The room an insert has made under its store's lock stays until it       *)
(* commits: while the lock is held, no other insert adds to that store.    *)
LEMMA RoomNext ==
  ASSUME ShapeOK, Structure, BudgetExact, StoreBounded, RoomMade, [Next]_vars
  PROVE  RoomMade'
<1> USE DEF NoId
<1>0. /\ Handles /\ Exclusive /\ FreshReferences /\ References /\ InsertOrder
      /\ PinFree /\ Admitted
  BY DEF Structure
<1>a. ShapeOK' /\ StoreMax \in Nat
  BY <1>0, ShapeNext, Constants
<1>b. \A d \in Calls : pc[d] \in Holding =>
        /\ store[d] \in Stores /\ fresh[d] \in Ids /\ fresh[d] < nextId
        /\ total[store[d]] \in Int /\ charge[fresh[d]] \in Int
        /\ total[store[d]] + charge[fresh[d]] <= StoreMax
  <2>1. \A d \in Calls : pc[d] \in Holding => store[d] \in Stores
    BY <1>0 DEF Handles, Holding
  <2>2. \A d \in Calls : pc[d] \in Holding => fresh[d] \in Ids /\ fresh[d] < nextId
    BY <1>0 DEF FreshReferences
  <2>3. /\ \A s \in Stores : total[s] \in Int
        /\ \A i \in Ids : charge[i] \in Int
    BY ChargeBounds DEF ShapeOK
  <2> QED
    BY <2>1, <2>2, <2>3 DEF RoomMade
(* Steps that do not raise the totals, and leave inserts as they are.      *)
<1>c. ASSUME \A s \in Stores : total'[s] <= total[s],
             \A d \in Calls : pc'[d] \in Holding =>
               /\ pc[d] \in Holding /\ store'[d] = store[d] /\ fresh'[d] = fresh[d]
               /\ charge'[fresh[d]] = charge[fresh[d]]
      PROVE  RoomMade'
  <2>1. ASSUME NEW d \in Calls, pc'[d] \in Holding
        PROVE  total'[store'[d]] + charge'[fresh'[d]] <= StoreMax
    <3>1. /\ pc[d] \in Holding /\ store'[d] = store[d] /\ fresh'[d] = fresh[d]
          /\ charge'[fresh[d]] = charge[fresh[d]]
      BY <1>c, <2>1
    <3>2. total'[store[d]] <= total[store[d]] /\ total'[store[d]] \in Int
      BY <1>a, <1>b, <1>c, <3>1 DEF ShapeOK
    <3> QED
      BY <1>a, <1>b, <3>1, <3>2
  <2> QED
    BY <2>1 DEF RoomMade
<1>d. ASSUME NEW r \in Stores, NEW gone, gone \subseteq entries[r], DropFrom(r, gone)
      PROVE  \A s \in Stores : total'[s] <= total[s]
  <2> DEFINE g == [s \in Stores |-> IF s = r THEN gone ELSE {}]
  <2>1. Drop(g) /\ \A s \in Stores : g[s] \subseteq entries[s]
    BY <1>d DEF DropFrom
  <2> HIDE DEF g
  <2> QED
    BY <2>1, DropAccounting
<1>e. (total' = total) => \A s \in Stores : total'[s] <= total[s]
  BY DEF ShapeOK
<1>1. ASSUME NEW c \in Calls, NEW o \in Owners, GetExisting(c, o)
      PROVE  RoomMade'
  <2>1. UNCHANGED <<total, charge>>
    BY <1>1 DEF GetExisting, storeVars
  <2>2. \A d \in Calls : pc'[d] \in Holding =>
          pc[d] \in Holding /\ store'[d] = store[d] /\ fresh'[d] = fresh[d]
    BY <1>1 DEF GetExisting, storeVars, ShapeOK, EndCall, Goto, Holding
  <2> QED
    BY <1>c, <1>e, <2>1, <2>2
<1>2. ASSUME NEW c \in Calls, NEW o \in Owners, GetNew(c, o)
      PROVE  RoomMade'
  <2>1. PICK seen \in SUBSET (Upgraded \ InUse) :
          Drop(Collected(seen)) /\ (RegistryFull(c, seen) \/ Register(c, o, seen))
    BY <1>2 DEF GetNew
  <2>2. \A s \in Stores : Collected(seen)[s] \subseteq entries[s]
    BY DEF Collected, Expired
  <2>3. \A s \in Stores : total'[s] <= total[s]
    BY <2>1, <2>2, DropAccounting
  <2>4. UNCHANGED <<charge, fresh>> /\ pc[c] = "idle"
    BY <1>2 DEF GetNew
  <2>5. \A d \in Calls : pc'[d] \in Holding => pc[d] \in Holding /\ store'[d] = store[d]
    BY <2>1, <2>4 DEF RegistryFull, Register, ShapeOK, Goto, Holding
  <2> QED
    BY <1>c, <2>3, <2>4, <2>5
<1>3. ASSUME NEW c \in Calls, Leave(c)
      PROVE  RoomMade'
  <2>1. UNCHANGED <<total, charge>>
    BY <1>3 DEF Leave, storeVars
  <2>2. \A d \in Calls : pc'[d] \in Holding =>
          pc[d] \in Holding /\ store'[d] = store[d] /\ fresh'[d] = fresh[d]
    BY <1>3 DEF Leave, storeVars, ShapeOK, EndCall, Goto, Holding
  <2> QED
    BY <1>c, <1>e, <2>1, <2>2
<1>4. ASSUME NEW c \in Calls, DropBody(c)
      PROVE  RoomMade'
  <2>1. UNCHANGED <<total, charge>>
    BY <1>4 DEF DropBody
  <2>2. \A d \in Calls : pc'[d] \in Holding =>
          pc[d] \in Holding /\ store'[d] = store[d] /\ fresh'[d] = fresh[d]
    BY <1>4 DEF DropBody, ShapeOK, EndCall, Goto, Holding
  <2> QED
    BY <1>c, <1>e, <2>1, <2>2
<1>5. ASSUME NEW c \in Calls, NEW n \in Bodies, StartInsert(c, n)
      PROVE  RoomMade'
  <2>1. UNCHANGED <<total, charge>>
    BY <1>5 DEF StartInsert, storeVars
  <2>2. \A d \in Calls : pc'[d] \in Holding =>
          pc[d] \in Holding /\ store'[d] = store[d] /\ fresh'[d] = fresh[d]
    BY <1>5 DEF StartInsert, storeVars, ShapeOK, EndCall, Goto, Holding
  <2> QED
    BY <1>c, <1>e, <2>1, <2>2
<1>6. ASSUME NEW c \in Calls, LockAndMakeRoom(c)
      PROVE  RoomMade'
  <2> DEFINE s == store[c]
             n == body[c] + Overhead
             gone == Expired(s, now[c]) \cup Overflow(s, Expired(s, now[c]), n)
  <2>1. s \in Stores /\ n \in Nat /\ n <= StoreMax /\ nextId \in Ids
    <3>1. s \in Stores /\ body[c] \in Bodies /\ Admissible(body[c]) /\ nextId <= MaxId
      BY <1>0, <1>6 DEF LockAndMakeRoom, Handles, Admitted
    <3>2. nextId \in Ids
      BY <3>1, Constants DEF ShapeOK, Ids
    <3> QED
      BY <3>1, <3>2, Constants DEF Admissible
  <2>2. gone \subseteq entries[s] /\ DropFrom(s, gone)
    BY <1>6 DEF LockAndMakeRoom, Expired, Overflow
  <2>3. \A r \in Stores : total'[r] <= total[r]
    BY <1>d, <2>1, <2>2
  <2>4. total'[s] + n <= StoreMax
    <3>1. Total(entries[s] \ gone, charge) + n <= StoreMax
      BY <2>1, RoomAfterOverflow
    <3>2. total'[s] = total[s] - Total(gone, charge)
      BY <2>1, <2>2 DEF DropFrom, Drop
    <3>3. Total(entries[s] \ gone, charge) = total[s] - Total(gone, charge)
      <4>1. IsFiniteSet(entries[s]) /\ total[s] = Total(entries[s], charge)
        BY <2>1, IdsFinite DEF ShapeOK, StoreBounded
      <4> QED
        BY <2>2, <4>1, TotalMinus
    <3> QED
      BY <3>1, <3>2, <3>3
  <2> HIDE DEF s, n, gone
  <2>5. /\ \A d \in Calls : /\ pc'[d] = IF d = c THEN "reserving" ELSE pc[d]
                            /\ fresh'[d] = IF d = c THEN nextId ELSE fresh[d]
        /\ store' = store
        /\ \A i \in Ids : charge'[i] = IF i = nextId THEN n ELSE charge[i]
    BY <1>6 DEF LockAndMakeRoom, ShapeOK, Goto, n
  <2>6. ASSUME NEW d \in Calls, pc'[d] \in Holding
        PROVE  total'[store'[d]] + charge'[fresh'[d]] <= StoreMax
    <3>1. CASE d = c
      <4>1. store'[d] = s /\ fresh'[d] = nextId /\ charge'[nextId] = n
        BY <2>1, <2>5, <3>1 DEF s
      <4> QED
        BY <2>4, <4>1
    <3>2. CASE d # c
      <4>1. pc[d] \in Holding /\ fresh'[d] = fresh[d] /\ store'[d] = store[d]
        BY <2>5, <2>6, <3>2
      <4>2. fresh[d] \in Ids /\ fresh[d] # nextId
        BY <1>b, <4>1 DEF ShapeOK
      <4>3. charge'[fresh[d]] = charge[fresh[d]]
        BY <2>5, <4>2
      <4>4. total'[store[d]] <= total[store[d]] /\ total'[store[d]] \in Int
        BY <1>a, <1>b, <2>3, <4>1 DEF ShapeOK
      <4> QED
        BY <1>a, <1>b, <4>1, <4>3, <4>4
    <3> QED
      BY <3>1, <3>2
  <2> QED
    BY <2>6 DEF RoomMade
<1>7. ASSUME NEW c \in Calls, Reserve(c)
      PROVE  RoomMade'
  <2>1. UNCHANGED <<total, charge>>
    BY <1>7 DEF Reserve
  <2>2. \A d \in Calls : pc'[d] \in Holding =>
          pc[d] \in Holding /\ store'[d] = store[d] /\ fresh'[d] = fresh[d]
    BY <1>7 DEF Reserve, ShapeOK, EndCall, Goto, Holding
  <2> QED
    BY <1>c, <1>e, <2>1, <2>2
<1>8. ASSUME NEW c \in Calls, ReserveFails(c)
      PROVE  RoomMade'
  <2>1. UNCHANGED <<total, charge>>
    BY <1>8 DEF ReserveFails, storeVars
  <2>2. \A d \in Calls : pc'[d] \in Holding =>
          pc[d] \in Holding /\ store'[d] = store[d] /\ fresh'[d] = fresh[d]
    BY <1>8 DEF ReserveFails, storeVars, ShapeOK, EndCall, Goto, Holding
  <2> QED
    BY <1>c, <1>e, <2>1, <2>2
<1>9. ASSUME NEW c \in Calls, ReclaimOne(c)
      PROVE  RoomMade'
  <2>1. PICK s \in snapshot[c] : DropFrom(s, Reclaimed(s, now[c]))
    BY <1>9 DEF ReclaimOne
  <2>2. s \in Stores /\ Reclaimed(s, now[c]) \subseteq entries[s]
    BY DEF Reclaimed, Expired, ShapeOK
  <2>3. UNCHANGED <<charge, fresh, pc, store>>
    BY <1>9 DEF ReclaimOne
  <2>4. \A r \in Stores : total'[r] <= total[r]
    BY <1>d, <2>1, <2>2
  <2> QED
    BY <1>c, <2>3, <2>4
<1>10. ASSUME NEW c \in Calls, ReclaimDone(c)
       PROVE  RoomMade'
  <2>1. UNCHANGED <<total, charge>>
    BY <1>10 DEF ReclaimDone, storeVars
  <2>2. \A d \in Calls : pc'[d] \in Holding =>
          pc[d] \in Holding /\ store'[d] = store[d] /\ fresh'[d] = fresh[d]
    BY <1>10 DEF ReclaimDone, storeVars, ShapeOK, EndCall, Goto, Holding
  <2> QED
    BY <1>c, <1>e, <2>1, <2>2
<1>11. ASSUME NEW c \in Calls, EvictOldest(c)
       PROVE  RoomMade'
  <2>1. \A r \in Stores : total'[r] <= total[r]
    <3>1. store[c] \in Stores /\ Oldest(store[c]) \subseteq entries[store[c]]
      BY <1>0, <1>11 DEF EvictOldest, Handles, Oldest
    <3> QED
      BY <1>d, <1>11, <3>1 DEF EvictOldest
  <2>2. \A d \in Calls : pc'[d] \in Holding =>
          pc[d] \in Holding /\ store'[d] = store[d] /\ fresh'[d] = fresh[d]
    BY <1>11 DEF EvictOldest, ShapeOK, EndCall, Goto, Holding
  <2>3. charge' = charge
    BY <1>11 DEF EvictOldest
  <2> QED
    BY <1>c, <2>1, <2>2, <2>3
<1>12. ASSUME NEW c \in Calls, Refuse(c)
       PROVE  RoomMade'
  <2>1. UNCHANGED <<total, charge>>
    BY <1>12 DEF Refuse
  <2>2. \A d \in Calls : pc'[d] \in Holding =>
          pc[d] \in Holding /\ store'[d] = store[d] /\ fresh'[d] = fresh[d]
    BY <1>12 DEF Refuse, ShapeOK, EndCall, Goto, Holding
  <2> QED
    BY <1>c, <1>e, <2>1, <2>2
<1>13. ASSUME NEW c \in Calls, Commit(c)
       PROVE  RoomMade'
  <2>1. ASSUME NEW d \in Calls, pc'[d] \in Holding
        PROVE  total'[store'[d]] + charge'[fresh'[d]] <= StoreMax
    <3>1. d # c /\ pc[d] \in Holding /\ pc[c] \in Holding /\ store[c] \in Stores
      BY <1>b, <1>13, <2>1 DEF Commit, EndCall, Goto, ShapeOK, Holding
    <3>2. store[d] # store[c] /\ store[d] \in Stores
      BY <1>0, <1>b, <3>1 DEF Exclusive
    <3>3. /\ total'[store[d]] = total[store[d]] /\ fresh'[d] = fresh[d]
          /\ UNCHANGED <<charge, store>>
      BY <1>13, <3>1, <3>2 DEF Commit, ShapeOK
    <3> QED
      BY <1>b, <3>1, <3>3
  <2> QED
    BY <2>1 DEF RoomMade
<1>14. ASSUME NEW c \in Calls, StartRead(c)
       PROVE  RoomMade'
  <2>1. UNCHANGED <<total, charge>>
    BY <1>14 DEF StartRead, storeVars
  <2>2. \A d \in Calls : pc'[d] \in Holding =>
          pc[d] \in Holding /\ store'[d] = store[d] /\ fresh'[d] = fresh[d]
    BY <1>14 DEF StartRead, storeVars, ShapeOK, EndCall, Goto, Holding
  <2> QED
    BY <1>c, <1>e, <2>1, <2>2
<1>15. ASSUME NEW c \in Calls, NEW i \in Ids, Read(c, i)
       PROVE  RoomMade'
  <2>1. \A r \in Stores : total'[r] <= total[r]
    <3>1. store[c] \in Stores /\ Expired(store[c], now[c]) \subseteq entries[store[c]]
      BY <1>0, <1>15 DEF Read, Handles, Expired
    <3> QED
      BY <1>d, <1>15, <3>1 DEF Read
  <2>2. \A d \in Calls : pc'[d] \in Holding =>
          pc[d] \in Holding /\ store'[d] = store[d] /\ fresh'[d] = fresh[d]
    BY <1>15 DEF Read, ShapeOK, EndCall, Goto, Holding
  <2>3. charge' = charge
    BY <1>15 DEF Read
  <2> QED
    BY <1>c, <2>1, <2>2, <2>3
<1>16. CASE Tick
  BY <1>c, <1>e, <1>16 DEF Tick, storeVars, callVars
<1>17. CASE UNCHANGED vars
  BY <1>c, <1>e, <1>17 DEF vars, storeVars, callVars
<1> QED
  BY <1>1, <1>2, <1>3, <1>4, <1>5, <1>6, <1>7, <1>8, <1>9, <1>10, <1>11, <1>12, <1>13,
     <1>14, <1>15, <1>16, <1>17
     DEF Next, CallStep, HolderStep
-----------------------------------------------------------------------------

(* The stamp of a new payload is at least the clock reading its insert     *)
(* took, and at least the age of every entry already in the store.         *)
LEMMA StampBounds ==
  ASSUME ShapeOK, AgeOrder, NEW s \in Stores, NEW t \in 0 .. MaxTime
  PROVE  /\ Stamp(s, t) \in Nat /\ Stamp(s, t) >= t
         /\ \A i \in entries[s] : storedAt[i] <= Stamp(s, t)
<1>1. MaxTime \in Nat /\ \A i \in entries[s] : i \in Ids /\ storedAt[i] \in 0 .. MaxTime
  BY Constants DEF ShapeOK
<1>2. CASE entries[s] = {}
  BY <1>1, <1>2 DEF Stamp
<1>3. CASE entries[s] # {}
  <2> DEFINE newest == CHOOSE i \in entries[s] : \A j \in entries[s] : j <= i
  <2>1. \E i \in entries[s] : \A j \in entries[s] : j <= i
    BY <1>1, <1>3, LargestExists
  <2>2. newest \in entries[s] /\ \A j \in entries[s] : j <= newest
    BY <2>1
  <2>3. Stamp(s, t) = IF storedAt[newest] > t THEN storedAt[newest] ELSE t
    BY <1>3 DEF Stamp
  <2> HIDE DEF newest
  <2>4. \A j \in entries[s] : storedAt[j] <= storedAt[newest]
    <3>1. ASSUME NEW j \in entries[s]
          PROVE  storedAt[j] <= storedAt[newest]
      <4>1. j < newest \/ j = newest
        BY <1>1, <2>2 DEF Ids
      <4>2. CASE j < newest
        BY <2>2, <4>2 DEF AgeOrder
      <4>3. CASE j = newest
        BY <1>1, <2>2, <4>3
      <4> QED
        BY <4>1, <4>2, <4>3
    <3> QED
      BY <3>1
  <2> QED
    BY <1>1, <2>2, <2>3, <2>4
<1> QED
  BY <1>2, <1>3

(* Every step but Commit keeps the ages of the payloads and adds none.     *)
LEMMA OnlyCommitAdds ==
  ASSUME ShapeOK, Handles, [Next]_vars
  PROVE  \/ \E c \in Calls : Commit(c)
         \/ storedAt' = storedAt /\ \A s \in Stores : entries'[s] \subseteq entries[s]
<1> USE DEF storeVars, callVars
<1>1. ASSUME NEW c \in Calls, CallStep(c)
      PROVE  storedAt' = storedAt /\ \A s \in Stores : entries'[s] \subseteq entries[s]
  <2>1. ASSUME NEW o \in Owners, GetNew(c, o)
        PROVE  storedAt' = storedAt /\ \A s \in Stores : entries'[s] \subseteq entries[s]
    BY <2>1, DropShrinks DEF GetNew
  <2>2. CASE LockAndMakeRoom(c)
    BY <2>2, DropFromShrinks DEF LockAndMakeRoom
  <2>3. ASSUME NEW i \in Ids, Read(c, i)
        PROVE  storedAt' = storedAt /\ \A s \in Stores : entries'[s] \subseteq entries[s]
    BY <2>3, DropFromShrinks DEF Read
  <2> QED
    BY <1>1, <2>1, <2>2, <2>3
       DEF CallStep, GetExisting, Leave, DropBody, StartInsert, StartRead
<1>2. ASSUME NEW c \in Calls, HolderStep(c), ~Commit(c)
      PROVE  storedAt' = storedAt /\ \A s \in Stores : entries'[s] \subseteq entries[s]
  <2>1. CASE ReclaimOne(c)
    BY <2>1, DropFromShrinks DEF ReclaimOne
  <2>2. CASE EvictOldest(c)
    BY <2>2, DropFromShrinks DEF EvictOldest
  <2> QED
    BY <1>2, <2>1, <2>2 DEF HolderStep, Reserve, ReserveFails, ReclaimDone, Refuse
<1> QED
  BY <1>1, <1>2 DEF Next, Tick, vars

LEMMA AgeOrderNext ==
  ASSUME ShapeOK, Structure, AgeOrder, [Next]_vars
  PROVE  AgeOrder'
<1>0. Handles /\ FreshReferences /\ References /\ InsertOrder
  BY DEF Structure
<1>1. CASE storedAt' = storedAt /\ \A s \in Stores : entries'[s] \subseteq entries[s]
  BY <1>1 DEF AgeOrder
<1>2. ASSUME NEW c \in Calls, Commit(c)
      PROVE  AgeOrder'
  <2>1. /\ store[c] \in Stores /\ fresh[c] \in Ids /\ now[c] \in 0 .. MaxTime
        /\ \A s \in Stores : fresh[c] \notin entries[s]
        /\ \A i \in entries[store[c]] : i < fresh[c]
    BY <1>0, <1>2 DEF Commit, Handles, FreshReferences, InsertOrder, Holding, ShapeOK
  <2>2. \A s \in Stores : entries'[s] = IF s = store[c] THEN entries[s] \cup {fresh[c]}
                                        ELSE entries[s]
    BY <1>2 DEF Commit, ShapeOK
  <2>3. \A i \in Ids : storedAt'[i] = IF i = fresh[c] THEN Stamp(store[c], now[c])
                                      ELSE storedAt[i]
    BY <1>2 DEF Commit, ShapeOK
  <2>4. /\ Stamp(store[c], now[c]) \in Nat
        /\ \A i \in entries[store[c]] : storedAt[i] <= Stamp(store[c], now[c])
    BY <2>1, StampBounds
  <2>5. ASSUME NEW s \in Stores, NEW i \in entries'[s], NEW j \in entries'[s], i < j
        PROVE  storedAt'[i] <= storedAt'[j]
    <3>1. i \in Ids /\ j \in Ids /\ \A k \in entries[s] : k \in Ids /\ k # fresh[c]
      <4>1. entries[s] \in SUBSET Ids
        BY DEF ShapeOK
      <4> QED
        BY <2>1, <2>2, <4>1
    <3>2. CASE i # fresh[c] /\ j # fresh[c]
      <4>1. i \in entries[s] /\ j \in entries[s]
        BY <2>2, <3>2
      <4> QED
        BY <2>3, <2>5, <3>1, <3>2, <4>1 DEF AgeOrder
    <3>3. CASE i = fresh[c]
      <4>1. s = store[c] /\ j \in entries[s]
        <5>1. j # fresh[c]
          BY <2>5, <3>1, <3>3 DEF Ids
        <5>2. s = store[c]
          BY <2>2, <3>1, <3>3
        <5> QED
          BY <2>2, <5>1, <5>2
      <4> QED
        BY <2>1, <2>5, <3>1, <3>3, <4>1, Constants DEF Ids
    <3>4. CASE i # fresh[c] /\ j = fresh[c]
      <4>1. s = store[c] /\ i \in entries[s]
        BY <2>1, <2>2, <3>4
      <4> QED
        BY <2>3, <2>4, <3>1, <3>4, <4>1
    <3> QED
      BY <3>2, <3>3, <3>4
  <2> QED
    BY <2>5 DEF AgeOrder
<1> QED
  BY <1>0, <1>1, <1>2, OnlyCommitAdds
-----------------------------------------------------------------------------

(* The inductive invariant: the shape of the state, who holds what, the    *)
(* accounts, and the order of ages.                                        *)
IInv ==
  /\ ShapeOK
  /\ Structure
  /\ BudgetExact
  /\ BudgetBounded
  /\ StoreBounded
  /\ RoomMade
  /\ AgeOrder

LEMMA IInvInit == Init => IInv
<1> SUFFICES ASSUME Init PROVE IInv
  OBVIOUS
<1>1. ShapeOK /\ Structure
  BY ShapeInit, StructureInit
<1>2. \A w : Total({}, w) = 0
  BY TotalEmpty
<1>3. Charged = {}
  BY DEF Init, Charged, Pinned, Reserved, Ids, NoId
<1>4. BudgetExact /\ BudgetBounded
  BY <1>2, <1>3, Constants DEF Init, BudgetExact, BudgetBounded
<1>5. StoreBounded
  BY <1>2, Constants DEF Init, StoreBounded
<1>6. RoomMade /\ AgeOrder
  BY DEF Init, RoomMade, AgeOrder, Holding
<1> QED
  BY <1>1, <1>4, <1>5, <1>6 DEF IInv

LEMMA IInvNext == IInv /\ [Next]_vars => IInv'
<1> SUFFICES ASSUME IInv, [Next]_vars PROVE IInv'
  OBVIOUS
<1>1. ShapeOK' /\ Structure'
  BY ShapeNext, StructureNext DEF IInv, Structure
<1>2. BudgetExact' /\ BudgetBounded' /\ StoreBounded' /\ RoomMade'
  BY AccountsNext, RoomNext DEF IInv
<1>3. AgeOrder'
  BY AgeOrderNext DEF IInv
<1> QED
  BY <1>1, <1>2, <1>3 DEF IInv

LEMMA Invariance == Spec => []IInv
BY IInvInit, IInvNext, PTL DEF Spec

(* The tables and counters keep their types; in particular the unsigned    *)
(* counters of resources.rs never go below zero.                           *)
THEOREM TypeCorrect == Spec => []TypeOK
<1>1. IInv => TypeOK
  <2> SUFFICES ASSUME IInv PROVE TypeOK
    OBVIOUS
  <2>1. ShapeOK /\ used \in Nat
    BY ChargedIds, IdsFinite DEF IInv, BudgetExact
  <2>2. \A s \in Stores : total[s] \in Nat
    <3>1. \A s \in Stores : total[s] = Total(entries[s], charge) /\ entries[s] \in SUBSET Ids
      BY <2>1 DEF IInv, StoreBounded, ShapeOK
    <3> QED
      BY <3>1, IdsFinite
  <2> QED
    BY <2>1, <2>2 DEF TypeOK, ShapeOK
<1> QED
  BY <1>1, Invariance, PTL

(* ResourceBudget.used is exactly the bytes of the payloads that exist, in *)
(* a store, in a reader's hands or reserved by an insert.                  *)
THEOREM BudgetIsExact == Spec => []BudgetExact
<1>1. IInv => BudgetExact
  BY DEF IInv
<1> QED
  BY <1>1, Invariance, PTL

(* The retained bytes of all identities together never exceed the shared   *)
(* budget.                                                                 *)
THEOREM BudgetIsBounded == Spec => []BudgetBounded
<1>1. IInv => BudgetBounded
  BY DEF IInv
<1> QED
  BY <1>1, Invariance, PTL

(* Each store's running total is exact and within its cap.                 *)
THEOREM StoresAreBounded == Spec => []StoreBounded
<1>1. IInv => StoreBounded
  BY DEF IInv
<1> QED
  BY <1>1, Invariance, PTL

(* In every store, insertion order is age order.                           *)
THEOREM AgesAreOrdered == Spec => []AgeOrder
<1>1. IInv => AgeOrder
  BY DEF IInv
<1> QED
  BY <1>1, Invariance, PTL

(* A request that holds a store holds the one registered for its identity. *)
THEOREM NoStoreIsOrphaned == Spec => []NoOrphanStore
<1>1. IInv => NoOrphanStore
  BY StoreAssumption DEF IInv, Structure, Handles, NoOrphanStore
<1> QED
  BY <1>1, Invariance, PTL

(* A payload handed to a request was within its lifetime when the request  *)
(* read the clock, although expiry looks only at the oldest entries: ages  *)
(* are in order.                                                           *)
THEOREM NoExpiredIsServed == Spec => NoExpiredServed
<1> DEFINE Step == \A c \in Calls : pin'[c] \notin {NoId, pin[c]} =>
                     Age(storedAt'[pin'[c]], now[c]) < TTL
<1>1. IInv /\ [Next]_vars => [Step]_vars
  <2> SUFFICES ASSUME IInv, Next, NEW d \in Calls, pin'[d] \notin {NoId, pin[d]}
               PROVE  Age(storedAt'[pin'[d]], now[d]) < TTL
    OBVIOUS
  <2>0. /\ ShapeOK /\ Handles /\ FreshReferences /\ AgeOrder
        /\ MaxTime \in Nat /\ TTL \in Nat /\ TTL > 0
    BY Constants DEF IInv, Structure
  <2>1. \/ Commit(d)
        \/ \E i \in Ids : Read(d, i)
    <3>1. \A c \in Calls : DropBody(c) => pin'[d] \in {NoId, pin[d]}
      BY <2>0 DEF DropBody, ShapeOK
    <3>2. \A c \in Calls : Commit(c) => c = d
      BY <2>0 DEF Commit, ShapeOK
    <3>3. \A c \in Calls, i \in Ids : Read(c, i) => c = d
      BY <2>0 DEF Read, ShapeOK
    <3> QED
      BY <3>1, <3>2, <3>3
         DEF Next, CallStep, HolderStep, GetExisting, GetNew, Leave, StartInsert,
             LockAndMakeRoom, Reserve, ReserveFails, ReclaimOne, ReclaimDone,
             EvictOldest, Refuse, StartRead, Tick, storeVars, callVars
  <2>2. CASE Commit(d)
    <3>1. /\ pin'[d] = fresh[d] /\ fresh[d] \in Ids /\ store[d] \in Stores
          /\ now[d] \in 0 .. MaxTime
      BY <2>0, <2>2 DEF Commit, ShapeOK, FreshReferences, Handles, Holding
    <3>2. storedAt'[fresh[d]] = Stamp(store[d], now[d])
      BY <2>0, <2>2, <3>1 DEF Commit, ShapeOK
    <3>3. Stamp(store[d], now[d]) \in Nat /\ Stamp(store[d], now[d]) >= now[d]
      BY <2>0, <3>1, StampBounds
    <3> QED
      BY <2>0, <3>1, <3>2, <3>3 DEF Age
  <2>3. ASSUME NEW i \in Ids, Read(d, i)
        PROVE  Age(storedAt'[pin'[d]], now[d]) < TTL
    <3>1. /\ pin'[d] = i /\ i \in entries[store[d]] \ Expired(store[d], now[d])
          /\ storedAt' = storedAt /\ store[d] \in Stores
      BY <2>0, <2>3 DEF Read, Readable, ShapeOK, Handles
    <3>2. PICK j \in entries[store[d]] : j <= i /\ ~(Age(storedAt[j], now[d]) >= TTL)
      BY <3>1 DEF Expired
    <3>3. /\ i \in Ids /\ j \in Ids /\ now[d] \in Int
          /\ storedAt[i] \in Int /\ storedAt[j] \in Int
      BY <2>0, <3>1, <3>2 DEF ShapeOK
    <3>4. storedAt[j] <= storedAt[i]
      BY <2>0, <3>1, <3>2, <3>3 DEF AgeOrder, Ids
    <3> QED
      BY <2>0, <3>1, <3>2, <3>3, <3>4 DEF Age
  <2> QED
    BY <2>1, <2>2, <2>3
<1> QED
  BY <1>1, Invariance, PTL DEF Spec, NoExpiredServed
-----------------------------------------------------------------------------
(* Which payloads a step drops *)

(* A clock reading is not ahead of the clock.                              *)
NowPast == \A c \in Calls : now[c] <= clock

LEMMA NowPastNext == IInv /\ NowPast /\ [Next]_vars => NowPast'
<1> SUFFICES ASSUME IInv, NowPast, [Next]_vars PROVE NowPast'
  OBVIOUS
<1>0. ShapeOK /\ MaxTime \in Nat
  BY Constants DEF IInv
<1>1. clock \in Nat /\ \A c \in Calls : now[c] \in Nat
  BY <1>0 DEF ShapeOK
<1>2. \/ now' = now /\ clock' \in {clock, clock + 1}
      \/ clock' = clock /\ \E c \in Calls : \E t \in {0, clock} : now' = [now EXCEPT ![c] = t]
  BY DEF Next, CallStep, HolderStep, GetExisting, GetNew, Leave, DropBody, StartInsert,
         LockAndMakeRoom, Reserve, ReserveFails, ReclaimOne, ReclaimDone, EvictOldest, Refuse,
         Commit, StartRead, Read, Tick, EndCall, vars, callVars, storeVars
<1>3. now \in [Calls -> 0 .. MaxTime]
  BY <1>0 DEF ShapeOK
<1> QED
  BY <1>1, <1>2, <1>3 DEF NowPast

LEMMA NowPastAlways == Spec => []NowPast
<1>1. Init => NowPast
  BY DEF Init, NowPast
<1> QED
  BY <1>1, NowPastNext, Invariance, PTL DEF Spec

(* What expiry removes at a reading of the past has expired by now.        *)
LEMMA ExpiredIsOld ==
  ASSUME ShapeOK, NEW s \in Stores, NEW t \in 0 .. MaxTime, t <= clock, NEW i \in Expired(s, t)
  PROVE  Age(storedAt[i], clock) >= TTL
<1>1. MaxTime \in Nat /\ TTL \in Nat /\ clock \in Nat /\ i \in entries[s] /\ i \in Ids
  BY Constants DEF ShapeOK, Expired
<1>2. storedAt[i] \in Nat /\ t \in Nat
  BY <1>1 DEF ShapeOK
<1>3. Age(storedAt[i], t) >= TTL
  BY <1>1 DEF Expired, Ids
<1> QED
  BY <1>1, <1>2, <1>3 DEF Age

(* What the cap evicts is a prefix of the entries that have not expired.   *)
LEMMA OverflowIsPrefix ==
  ASSUME ShapeOK, NEW s \in Stores, NEW stale, NEW n \in Nat,
         NEW i \in Overflow(s, stale, n), NEW j \in entries[s], j < i, j \notin stale
  PROVE  j \in Overflow(s, stale, n)
<1> DEFINE below(k) == {x \in entries[s] : x < k}
<1>1. entries[s] \in SUBSET Ids /\ IsFiniteSet(entries[s]) /\ total[s] \in Int
  BY IdsFinite DEF ShapeOK
<1>2. i \in Ids /\ j \in Ids /\ i \in Int /\ j \in Int
  BY <1>1 DEF Overflow, Ids
<1>3. below(j) \subseteq below(i) /\ IsFiniteSet(below(i)) /\ IsFiniteSet(below(j))
  <2>1. \A x \in entries[s] : x \in Int
    BY <1>1 DEF Ids
  <2>2. below(j) \subseteq below(i)
    BY <1>2, <2>1
  <2> QED
    BY <1>1, <2>2, FS_Subset
<1>4. total[s] - Total(below(i), charge) + n > StoreMax
  BY DEF Overflow
<1> HIDE DEF below
<1>5. Total(below(j), charge) <= Total(below(i), charge)
  BY <1>3, TotalMinus
<1>6. Total(below(i), charge) \in Nat /\ Total(below(j), charge) \in Nat
  BY <1>3, UnitsFinite
<1>7. total[s] - Total(below(j), charge) + n > StoreMax
  BY <1>1, <1>4, <1>5, <1>6, Constants
<1> QED
  BY <1>7 DEF Overflow, below

(* One identity's inserts never cost another its live payloads, nor itself *)
(* a newer one before an older one (insert_at, evict_oldest,               *)
(* reclaim_expired).                                                       *)
THEOREM OnlyOwnIsEvicted == Spec => OnlyOwnEviction
<1> DEFINE Allowed(s, i) ==
             \/ Age(storedAt[i], clock) >= TTL
             \/ /\ \E c \in Calls : store[c] = s /\ lock'[s] = c
                /\ \A j \in entries[s] : j < i => j \notin entries'[s]
           Step == \A s \in Stores : \A i \in entries[s] \ entries'[s] : Allowed(s, i)
<1>1. IInv /\ NowPast /\ [Next]_vars => [Step]_vars
  <2> SUFFICES ASSUME IInv, NowPast, Next, NEW s \in Stores, NEW i \in entries[s] \ entries'[s]
               PROVE  Allowed(s, i)
    OBVIOUS
  <2>0. /\ ShapeOK /\ Handles /\ Exclusive /\ MaxTime \in Nat
        /\ clock \in 0 .. MaxTime /\ clock <= clock
        /\ \A c \in Calls : now[c] \in 0 .. MaxTime /\ now[c] <= clock
        /\ i \in Ids /\ \A j \in entries[s] : j \in Ids
    BY Constants DEF IInv, Structure, ShapeOK, NowPast
  <2>1. ASSUME NEW c \in Calls, NEW o \in Owners, GetNew(c, o) PROVE Allowed(s, i)
    <3>1. PICK seen : Drop(Collected(seen))
      BY <2>1 DEF GetNew
    <3>2. i \in Expired(s, clock)
      BY <3>1 DEF Drop, Collected
    <3> QED
      BY <2>0, <3>2, ExpiredIsOld
  <2>2. ASSUME NEW c \in Calls, LockAndMakeRoom(c) PROVE Allowed(s, i)
    <3> DEFINE stale == Expired(store[c], now[c])
               n == body[c] + Overhead
               over == Overflow(store[c], stale, n)
    <3>1. DropFrom(store[c], stale \cup over) /\ lock' = [lock EXCEPT ![store[c]] = c]
      BY <2>2 DEF LockAndMakeRoom
    <3>2. s = store[c] /\ i \in stale \cup over
      BY <2>0, <3>1 DEF DropFrom, Drop
    <3>3. CASE i \in stale
      BY <2>0, <3>2, <3>3, ExpiredIsOld
    <3>4. CASE i \in over
      <4>1. n \in Nat
        BY <2>0, <2>2, Constants DEF ShapeOK
      <4>2. ASSUME NEW j \in entries[s], j < i PROVE j \in stale \cup over
        BY <2>0, <3>2, <3>4, <4>1, <4>2, OverflowIsPrefix
      <4>3. \A j \in entries[s] : j < i => j \notin entries'[s]
        BY <3>1, <3>2, <4>2 DEF DropFrom, Drop
      <4>4. lock'[s] = c
        BY <2>0, <3>1, <3>2 DEF ShapeOK
      <4> QED
        BY <3>2, <4>3, <4>4
    <3> QED
      BY <3>2, <3>3, <3>4
  <2>3. ASSUME NEW c \in Calls, NEW k \in Ids, Read(c, k) PROVE Allowed(s, i)
    <3>1. DropFrom(store[c], Expired(store[c], now[c]))
      BY <2>3 DEF Read
    <3>2. s = store[c] /\ i \in Expired(s, now[c])
      BY <2>0, <3>1 DEF DropFrom, Drop
    <3> QED
      BY <2>0, <3>2, ExpiredIsOld
  <2>4. ASSUME NEW c \in Calls, ReclaimOne(c) PROVE Allowed(s, i)
    <3>1. PICK r \in snapshot[c] : DropFrom(r, Reclaimed(r, now[c]))
      BY <2>4 DEF ReclaimOne
    <3>2. s = r /\ i \in Expired(s, now[c])
      BY <2>0, <3>1 DEF Reclaimed, DropFrom, Drop
    <3> QED
      BY <2>0, <3>2, ExpiredIsOld
  <2>5. ASSUME NEW c \in Calls, EvictOldest(c) PROVE Allowed(s, i)
    <3>1. DropFrom(store[c], Oldest(store[c])) /\ lock' = lock
      BY <2>5 DEF EvictOldest
    <3>2. s = store[c] /\ i \in Oldest(s)
      BY <2>0, <3>1 DEF DropFrom, Drop
    <3>3. lock[s] = c
      BY <2>0, <2>5, <3>2 DEF Exclusive, Holding, EvictOldest
    <3>4. \A j \in entries[s] : ~(j < i)
      BY <2>0, <3>2 DEF Oldest, Ids
    <3> QED
      BY <3>1, <3>2, <3>3, <3>4
  <2>6. ASSUME NEW c \in Calls, Commit(c) PROVE FALSE
    BY <2>0, <2>6 DEF Commit, ShapeOK
  <2> QED
    BY <2>1, <2>2, <2>3, <2>4, <2>5, <2>6
       DEF Next, CallStep, HolderStep, GetExisting, Leave, DropBody, StartInsert, Reserve,
           ReserveFails, ReclaimDone, Refuse, StartRead, Tick, storeVars
<1> QED
  BY <1>1, Invariance, NowPastAlways, PTL DEF Spec, OnlyOwnEviction

-----------------------------------------------------------------------------
(* The refinement: the retained stores implement the payload ledger.  Every*)
(* step of a request, under whatever locks and evictions, is a step of the *)
(* ledger or changes nothing the ledger sees.                              *)

(* What the ledger sees of the stores.                                     *)
Visible == [o \in Owners |-> IF registry[o] = NoStore THEN {} ELSE entries[registry[o]]]
Weight == [i \in Ids |-> IF i \in Ended THEN charge[i] ELSE 0]

-----------------------------------------------------------------------------
(* The registry *)

(* Identities have stores of their own, only registered stores have        *)
(* entries, and a request that has not begun acts for nobody.              *)
Apart == \A o, p \in Owners : registry[o] = registry[p] /\ registry[o] # NoStore => o = p
Bare == \A s \in Stores : entries[s] # {} => \E o \in Owners : registry[o] = s
Nobody == \A c \in Calls : pc[c] = "idle" => owner[c] = NoOwner

RegistryInv == Apart /\ Bare /\ Nobody

LEMMA RegistryInit == Init => RegistryInv
BY DEF Init, RegistryInv, Apart, Bare, Nobody

(* What registering an identity does to the registry and the entries.      *)
LEMMA GetNewEffect ==
  ASSUME ShapeOK, RegistryInv, NEW c \in Calls, NEW o \in Owners, GetNew(c, o)
  PROVE  /\ Apart' /\ Bare'
         /\ \A s \in Stores : entries'[s] \subseteq entries[s]
         /\ \A p \in Owners : \/ registry'[p] \in {registry[p], NoStore}
                              \/ p = o /\ entries'[registry'[p]] = {}
<1>1. PICK seen \in SUBSET (Upgraded \ InUse) :
        /\ Drop(Collected(seen))
        /\ RegistryFull(c, seen) \/ Register(c, o, seen)
  BY DEF GetNew
<1>2. \A s \in Stores : entries'[s] \subseteq entries[s]
  BY <1>1, DropShrinks
<1>3. \A s \in Dead(seen) : s \in Stores /\ entries'[s] = {}
  BY <1>1 DEF Dead, Idle, Registered, Drop, Collected
<1>4. Kept(seen) \in [Owners -> Stores \cup {NoStore}]
  BY DEF Kept, ShapeOK
<1>5. \A p \in Owners : Kept(seen)[p] = IF registry[p] \in Dead(seen) THEN NoStore ELSE registry[p]
  BY DEF Kept
<1>6. registry[o] = NoStore /\ NoStore \notin Stores
  BY StoreAssumption DEF GetNew
<1>7. Kept(seen)[o] = NoStore
  BY <1>3, <1>5, <1>6
<1>8. CASE RegistryFull(c, seen)
  <2>1. registry' = Kept(seen)
    BY <1>8 DEF RegistryFull
  <2>2. Apart'
    BY <1>5, <2>1 DEF Apart, RegistryInv
  <2>3. Bare'
    <3>1. ASSUME NEW s \in Stores, entries'[s] # {} PROVE \E p \in Owners : registry'[p] = s
      <4>1. PICK p \in Owners : registry[p] = s
        BY <1>2, <3>1 DEF Bare, RegistryInv
      <4> QED
        BY <1>3, <1>5, <2>1, <3>1, <4>1
    <3> QED
      BY <3>1 DEF Bare
  <2> QED
    BY <1>2, <1>5, <2>1, <2>2, <2>3
<1>9. CASE Register(c, o, seen)
  <2>1. PICK s \in Unused \cup (Dead(seen) \ Upgraded) : registry' = [Kept(seen) EXCEPT ![o] = s]
    BY <1>9 DEF Register
  <2>2. s \in Stores /\ entries'[s] = {}
    BY <1>2, <1>3, <2>1 DEF Unused, LiveStores, Registered, Bare, RegistryInv
  <2>3. \A p \in Owners : registry'[p] = IF p = o THEN s ELSE Kept(seen)[p]
    BY <1>4, <2>1
  <2>4. \A p \in Owners : Kept(seen)[p] # s
    BY <1>5, <1>6, <2>1, <2>2 DEF Unused, LiveStores, Registered
  <2>5. Apart'
    BY <1>5, <2>3, <2>4 DEF Apart, RegistryInv
  <2>6. Bare'
    <3>1. ASSUME NEW r \in Stores, entries'[r] # {} PROVE \E p \in Owners : registry'[p] = r
      <4>1. PICK p \in Owners : registry[p] = r
        BY <1>2, <3>1 DEF Bare, RegistryInv
      <4>2. p # o /\ Kept(seen)[p] = r
        BY <1>3, <1>5, <1>6, <3>1, <4>1
      <4> QED
        BY <2>3, <4>2
    <3> QED
      BY <3>1 DEF Bare
  <2> QED
    BY <1>2, <1>5, <2>2, <2>3, <2>5, <2>6
<1> QED
  BY <1>1, <1>8, <1>9

(* A step that leaves the registry alone and only removes entries.         *)
LEMMA RegistryKept ==
  ASSUME RegistryInv, registry' = registry, \A s \in Stores : entries'[s] \subseteq entries[s]
  PROVE  Apart' /\ Bare'
BY DEF RegistryInv, Apart, Bare

LEMMA RegistryNext == IInv /\ RegistryInv /\ [Next]_vars => RegistryInv'
<1> SUFFICES ASSUME IInv, RegistryInv, [Next]_vars PROVE RegistryInv'
  OBVIOUS
<1>0. ShapeOK /\ Handles
  BY DEF IInv, Structure
<1>1. Nobody'
  <2>1. pc \in [Calls -> Phases] /\ owner \in [Calls -> Owners \cup {NoOwner}]
    BY <1>0 DEF ShapeOK
  <2>2. ASSUME NEW c \in Calls, NEW o \in Owners, GetExisting(c, o) \/ GetNew(c, o) PROVE Nobody'
    <3>1. \/ pc' = pc /\ owner' = owner
          \/ pc' = [pc EXCEPT ![c] = "ready"] /\ owner' = [owner EXCEPT ![c] = o]
      BY <2>2 DEF GetExisting, GetNew, RegistryFull, Register, Goto
    <3> QED
      BY <2>1, <3>1 DEF Nobody, RegistryInv
  <2>3. ASSUME NEW c \in Calls, Leave(c) PROVE Nobody'
    BY <2>1, <2>3 DEF Leave, Goto, Nobody, RegistryInv
  <2>4. ASSUME owner' = owner,
               pc' = pc \/ \E c \in Calls, phase \in Phases \ {"idle"} : pc' = [pc EXCEPT ![c] = phase]
        PROVE  Nobody'
    BY <2>1, <2>4 DEF Nobody, RegistryInv
  <2>5. ASSUME NEW c \in Calls,
               \/ DropBody(c) \/ LockAndMakeRoom(c) \/ StartRead(c) \/ HolderStep(c)
               \/ \E n \in Bodies : StartInsert(c, n)
               \/ \E i \in Ids : Read(c, i)
        PROVE  Nobody'
    <3>1. owner' = owner
      BY <2>5 DEF HolderStep, DropBody, StartInsert, LockAndMakeRoom, Reserve, ReserveFails,
                  ReclaimOne, ReclaimDone, EvictOldest, Refuse, Commit, StartRead, Read
    <3>2. \/ pc' = pc
          \/ \E phase \in {"ready", "locking", "reserving", "reclaiming", "retrying", "evicting",
                          "committing", "reading"} : pc' = [pc EXCEPT ![c] = phase]
      BY <2>5 DEF HolderStep, DropBody, StartInsert, LockAndMakeRoom, Reserve, ReserveFails, ReclaimOne,
                  ReclaimDone, EvictOldest, Refuse, Commit, StartRead, Read, EndCall, Goto
    <3> QED
      BY <2>4, <3>1, <3>2 DEF Phases
  <2>6. CASE Tick \/ UNCHANGED vars
    BY <2>4, <2>6 DEF Tick, vars, callVars
  <2> QED
    BY <2>2, <2>3, <2>5, <2>6 DEF Next, CallStep
<1>2. ASSUME NEW c \in Calls, NEW o \in Owners, GetNew(c, o) PROVE Apart' /\ Bare'
  BY <1>0, <1>2, GetNewEffect
<1>3. ASSUME NEW c \in Calls, Commit(c) PROVE Apart' /\ Bare'
  <2>1. /\ registry' = registry /\ store[c] \in Stores /\ owner[c] \in Owners
        /\ registry[owner[c]] = store[c]
    BY <1>0, <1>3 DEF Commit, Handles
  <2>2. \A s \in Stores : s # store[c] => entries'[s] = entries[s]
    BY <1>0, <1>3 DEF Commit, ShapeOK
  <2> QED
    BY <2>1, <2>2 DEF Apart, Bare, RegistryInv
<1>4. registry' = registry \/ \E c \in Calls, o \in Owners : GetNew(c, o)
  BY DEF Next, CallStep, HolderStep, GetExisting, Leave, DropBody, StartInsert, LockAndMakeRoom,
         Reserve, ReserveFails, ReclaimOne, ReclaimDone, EvictOldest, Refuse, Commit, StartRead,
         Read, Tick, vars
<1>5. \/ \E c \in Calls : Commit(c)
      \/ \A s \in Stores : entries'[s] \subseteq entries[s]
  BY <1>0, OnlyCommitAdds
<1> QED
  BY <1>1, <1>2, <1>3, <1>4, <1>5, RegistryKept DEF RegistryInv

LEMMA RegistryAlways == Spec => []RegistryInv
BY RegistryInit, RegistryNext, Invariance, PTL DEF Spec

-----------------------------------------------------------------------------
(* Steps of the ledger, in terms of the stores *)

LEMMA EndedKept ==
  ASSUME UNCHANGED <<fresh, nextId, charge>>
  PROVE  Ended' = Ended /\ Weight' = Weight
BY DEF Ended, Weight

(* Removing entries, or the stores themselves, forgets payloads.           *)
LEMMA VisibleShrinks ==
  ASSUME ShapeOK, ShapeOK', \A s \in Stores : entries'[s] \subseteq entries[s],
         \A p \in Owners : registry'[p] \in {registry[p], NoStore} \/ entries'[registry'[p]] = {}
  PROVE  Visible' \in [Owners -> SUBSET Ids] /\ \A p \in Owners : Visible'[p] \subseteq Visible[p]
<1>1. /\ registry \in [Owners -> Stores \cup {NoStore}] /\ registry' \in [Owners -> Stores \cup {NoStore}]
      /\ entries' \in [Stores -> SUBSET Ids]
  BY DEF ShapeOK
<1>2. Visible' = [p \in Owners |-> IF registry'[p] = NoStore THEN {} ELSE entries'[registry'[p]]]
  BY DEF Visible
<1>3. ASSUME NEW p \in Owners PROVE Visible'[p] \in SUBSET Ids /\ Visible'[p] \subseteq Visible[p]
  <2>1. CASE registry'[p] = NoStore
    BY <1>2, <2>1
  <2>2. CASE registry'[p] # NoStore
    <3>1. registry'[p] \in Stores /\ Visible'[p] = entries'[registry'[p]]
      BY <1>1, <1>2, <2>2
    <3>2. CASE entries'[registry'[p]] = {}
      BY <3>1, <3>2
    <3>3. CASE registry'[p] = registry[p]
      BY <1>1, <2>2, <3>1, <3>3 DEF Visible
    <3> QED
      BY <2>2, <3>2, <3>3
  <2> QED
    BY <2>1, <2>2
<1> QED
  BY <1>2, <1>3

LEMMA ForgetStep ==
  ASSUME Visible' \in [Owners -> SUBSET Ids], \A p \in Owners : Visible'[p] \subseteq Visible[p],
         UNCHANGED <<owner, pin>>, Ended' = Ended, Weight' = Weight
  PROVE  Ledger!Forget
BY DEF Ledger!Forget, Ledger!Forgetting, Visible, Weight

(* A step that only removes entries of the stores.                         *)
LEMMA Shrinking ==
  ASSUME ShapeOK, ShapeOK', \A s \in Stores : entries'[s] \subseteq entries[s],
         UNCHANGED <<registry, owner, pin, fresh, nextId, charge>>
  PROVE  Ledger!Forget
BY VisibleShrinks, EndedKept, ForgetStep

LEMMA StutterStep ==
  ASSUME UNCHANGED <<registry, entries, owner, pin, fresh, nextId, charge>>
  PROVE  UNCHANGED Ledger!ledger
BY EndedKept DEF Ledger!ledger, Visible, Weight

(* A request begins.                                                       *)
LEMMA EnterStep ==
  ASSUME ShapeOK, ShapeOK', RegistryInv, NEW c \in Calls, NEW o \in Owners,
         GetExisting(c, o) \/ GetNew(c, o)
  PROVE  Ledger!LedgerNext
<1>1. /\ \A s \in Stores : entries'[s] \subseteq entries[s]
      /\ \A p \in Owners : registry'[p] \in {registry[p], NoStore} \/ entries'[registry'[p]] = {}
  BY GetNewEffect DEF GetExisting, storeVars
<1>2. UNCHANGED <<pin, fresh, nextId, charge>> /\ pin[c] = NoId /\ owner[c] = NoOwner
  BY DEF GetExisting, GetNew, storeVars, RegistryInv, Nobody
<1>3. owner' = owner \/ owner' = [owner EXCEPT ![c] = o]
  BY DEF GetExisting, GetNew, RegistryFull, Register
<1>4. Visible' \in [Owners -> SUBSET Ids] /\ \A p \in Owners : Visible'[p] \subseteq Visible[p]
  BY <1>1, VisibleShrinks
<1>5. Ended' = Ended /\ Weight' = Weight
  BY <1>2, EndedKept
<1>6. CASE owner' = owner
  BY <1>2, <1>4, <1>5, <1>6, ForgetStep DEF Ledger!LedgerNext
<1>7. CASE owner' = [owner EXCEPT ![c] = o]
  <2>1. Ledger!Enter(c)
    BY <1>2, <1>4, <1>5, <1>7 DEF Ledger!Enter, Ledger!Forgetting, Visible, Weight
  <2> QED
    BY <2>1 DEF Ledger!LedgerNext
<1> QED
  BY <1>3, <1>6, <1>7

(* A request ends, or closes a payload.                                    *)
LEMMA LeaveStep ==
  ASSUME NEW c \in Calls, Leave(c) \/ DropBody(c)
  PROVE  Ledger!LedgerNext
<1>1. UNCHANGED <<registry, entries, fresh, nextId, charge>>
  BY DEF Leave, DropBody, storeVars
<1>2. Ended' = Ended /\ Weight' = Weight /\ Visible' = Visible
  BY <1>1, EndedKept DEF Visible
<1>3. CASE Leave(c)
  <2>1. Ledger!Exit(c)
    BY <1>2, <1>3 DEF Leave, Ledger!Exit, Visible, Weight
  <2> QED
    BY <2>1 DEF Ledger!LedgerNext
<1>4. CASE DropBody(c)
  <2>1. Ledger!Close(c)
    BY <1>2, <1>4 DEF DropBody, Ledger!Close, Visible, Weight
  <2> QED
    BY <2>1 DEF Ledger!LedgerNext
<1> QED
  BY <1>3, <1>4

(* A read opens what is left once the store has expired, or only expires.  *)
LEMMA ReadStep ==
  ASSUME ShapeOK, ShapeOK', Handles, PinFree, NEW c \in Calls, NEW i \in Ids, Read(c, i)
  PROVE  Ledger!LedgerNext
<1>1. /\ pin[c] = NoId /\ store[c] \in Stores /\ owner[c] \in Owners
      /\ registry[owner[c]] = store[c] /\ store[c] # NoStore
  BY StoreAssumption DEF Read, PinFree, Handles
<1>2. UNCHANGED <<registry, owner, fresh, nextId, charge>>
  BY DEF Read
<1>3. \A s \in Stores : entries'[s] \subseteq entries[s]
  BY DropFromShrinks DEF Read
<1>4. Visible' \in [Owners -> SUBSET Ids] /\ \A p \in Owners : Visible'[p] \subseteq Visible[p]
  BY <1>2, <1>3, VisibleShrinks
<1>5. Ended' = Ended /\ Weight' = Weight
  BY <1>2, EndedKept
<1>6. CASE pin' = pin
  BY <1>2, <1>4, <1>5, <1>6, ForgetStep DEF Ledger!LedgerNext
<1>7. CASE pin' # pin
  <2>1. pin' = [pin EXCEPT ![c] = i] /\ i \in entries[store[c]] \ Expired(store[c], now[c])
    BY <1>1, <1>7 DEF Read, Readable, ShapeOK
  <2>2. i \in entries'[store[c]]
    BY <1>1, <2>1 DEF Read, DropFrom, Drop
  <2>3. i \in Visible'[owner[c]]
    BY <1>1, <1>2, <2>2 DEF Visible
  <2>4. Ledger!Open(c, i)
    BY <1>1, <1>2, <1>4, <1>5, <2>1, <2>3 DEF Ledger!Open, Ledger!Forgetting, Visible, Weight
  <2> QED
    BY <2>4 DEF Ledger!LedgerNext
<1> QED
  BY <1>6, <1>7

(* An insert takes a number: nothing the ledger sees changes but what the  *)
(* store evicts.                                                           *)
LEMMA RoomStep ==
  ASSUME ShapeOK, ShapeOK', FreshReferences, NEW c \in Calls, LockAndMakeRoom(c)
  PROVE  Ledger!LedgerNext
<1>1. UNCHANGED <<registry, owner, pin>> /\ nextId' = nextId + 1 /\ fresh' = [fresh EXCEPT ![c] = nextId]
      /\ nextId \in Ids /\ nextId \in Int
  BY Constants DEF LockAndMakeRoom, ShapeOK, Ids
<1>2. fresh[c] = NoId /\ fresh \in [Calls -> Ids \cup {NoId}] /\ NoId \notin Ids
  <2>1. pc[c] \notin Holding
    BY DEF LockAndMakeRoom, Holding
  <2>2. fresh[c] = NoId
    BY <2>1 DEF FreshReferences
  <2> QED
    BY <2>2 DEF ShapeOK, Ids, NoId
<1>3. Ended' = Ended
  BY <1>1, <1>2 DEF Ended, Ids
<1>4. \A i \in Ended : charge'[i] = charge[i]
  BY <1>1 DEF LockAndMakeRoom, ShapeOK, Ended, Ids
<1>5. Weight' = Weight
  BY <1>3, <1>4 DEF Weight
<1>6. \A s \in Stores : entries'[s] \subseteq entries[s]
  BY DropFromShrinks DEF LockAndMakeRoom
<1>7. Visible' \in [Owners -> SUBSET Ids] /\ \A p \in Owners : Visible'[p] \subseteq Visible[p]
  BY <1>1, <1>6, VisibleShrinks
<1> QED
  BY <1>1, <1>3, <1>5, <1>7, ForgetStep DEF Ledger!LedgerNext

(* The number of an insert that ends, stored or not, is spent.             *)
LEMMA InsertEnds ==
  ASSUME ShapeOK, FreshReferences, NEW c \in Calls, pc[c] \in Holding,
         fresh' = [fresh EXCEPT ![c] = NoId], UNCHANGED <<nextId, charge>>
  PROVE  /\ fresh[c] \in Ids /\ fresh[c] \notin Ended /\ Ended' = Ended \cup {fresh[c]}
         /\ Weight' = [Weight EXCEPT ![fresh[c]] = charge[fresh[c]]]
<1>1. fresh \in [Calls -> Ids \cup {NoId}] /\ NoId \notin Ids
  BY DEF ShapeOK, Ids, NoId
<1>2. fresh[c] \in Ids /\ fresh[c] < nextId /\ \A d \in Calls : d # c => fresh[d] # fresh[c]
  BY DEF FreshReferences
<1>3. fresh[c] \notin Ended /\ Ended' = Ended \cup {fresh[c]}
  BY <1>1, <1>2 DEF Ended
<1> QED
  BY <1>2, <1>3 DEF Weight

LEMMA RefuseStep ==
  ASSUME ShapeOK, Handles, FreshReferences, NEW c \in Calls, Refuse(c)
  PROVE  Ledger!LedgerNext
<1>1. /\ UNCHANGED <<registry, entries, owner, pin, nextId, charge>>
      /\ fresh' = [fresh EXCEPT ![c] = NoId] /\ pc[c] \in Holding
  BY DEF Refuse, Holding
<1>2. owner[c] \in Owners
  BY DEF Handles, Refuse
<1>3. /\ fresh[c] \in Ids /\ fresh[c] \notin Ended /\ Ended' = Ended \cup {fresh[c]}
      /\ Weight' = [Weight EXCEPT ![fresh[c]] = charge[fresh[c]]]
  BY <1>1, InsertEnds
<1>4. charge[fresh[c]] \in 0 .. MaxCharge
  BY <1>3 DEF ShapeOK
<1>5. PICK i \in Ids : i = fresh[c]
  BY <1>3
<1>6. Ledger!Abandon(c, i)
  BY <1>1, <1>2, <1>3, <1>4, <1>5 DEF Ledger!Abandon, Visible, Weight
<1> QED
  BY <1>6 DEF Ledger!LedgerNext

(* Totals are the ledger's.                                                *)
LEMMA SameTotal == \A S, w : Ledger!Total(S, w) = Total(S, w)
BY DEF Ledger!Total, Ledger!Units, Ledger!Cardinality, Total, Units, Cardinality

(* What is held and what is being stored is paid for, once.                *)
LEMMA HeldFits ==
  ASSUME IInv, RegistryInv, NEW c \in Calls, pc[c] = "committing"
  PROVE  Ledger!Total(Ledger!Held, Weight) + charge[fresh[c]] <= BudgetMax
<1> DEFINE held == Ledger!Held
<1>1. /\ ShapeOK /\ FreshReferences /\ References /\ BudgetExact /\ BudgetBounded
  BY DEF IInv, Structure
<1>2. fresh[c] \in Ids /\ charge[fresh[c]] \in 0 .. MaxCharge
  BY <1>1 DEF FreshReferences, Holding, ShapeOK
<1>3. held = (UNION {Visible[o] : o \in Owners}) \cup {i \in Ids : \E d \in Calls : pin[d] = i}
  BY DEF Ledger!Held, Visible
<1>4. ASSUME NEW i \in held
      PROVE  i \in Charged /\ i \in Ended /\ i # fresh[c]
  <2>1. (\E s \in Stores : i \in entries[s]) \/ (i \in Ids /\ \E d \in Calls : pin[d] = i)
    BY <1>1, <1>3 DEF Visible, ShapeOK
  <2>2. i \in Ids
    BY <1>1, <2>1 DEF ShapeOK
  <2>3. i < nextId /\ \A d \in Calls : fresh[d] # i
    BY <1>1, <2>1, <2>2 DEF References, FreshReferences, Ids, NoId
  <2> QED
    BY <2>1, <2>2, <2>3 DEF Charged, Pinned, Ended
<1>5. fresh[c] \in Charged /\ Charged \in SUBSET Ids
  BY <1>1, <1>2, ChargedIds DEF Charged, Reserved
<1> HIDE DEF held
<1>6. held \subseteq Charged /\ IsFiniteSet(Charged) /\ IsFiniteSet(held) /\ fresh[c] \notin held
  BY <1>4, <1>5, IdsFinite, FS_Subset
<1>7. Total(held, Weight) = Total(held, charge)
  <2>1. \A i \in held : Weight[i] = charge[i]
    BY <1>4, <1>5 DEF Weight
  <2> QED
    BY <2>1, TotalSame
<1>8. Total(held \cup {fresh[c]}, charge) = Total(held, charge) + charge[fresh[c]]
  BY <1>2, <1>6, TotalAdd
<1>9. Total(held \cup {fresh[c]}, charge) <= Total(Charged, charge)
  BY <1>5, <1>6, TotalMinus
<1> QED
  BY <1>1, <1>7, <1>8, <1>9, SameTotal, IdsFinite, <1>5, <1>6, Constants
     DEF BudgetExact, BudgetBounded, held

LEMMA CommitStep ==
  ASSUME IInv, RegistryInv, NEW c \in Calls, Commit(c)
  PROVE  Ledger!LedgerNext
<1> DEFINE i == fresh[c]
<1>1. ShapeOK /\ Handles /\ FreshReferences /\ Apart
  BY DEF IInv, Structure, RegistryInv
<1>2. /\ UNCHANGED <<registry, owner, nextId, charge>> /\ pc[c] = "committing"
      /\ fresh' = [fresh EXCEPT ![c] = NoId] /\ pc[c] \in Holding
      /\ pin' = [pin EXCEPT ![c] = i]
      /\ entries' = [entries EXCEPT ![store[c]] = @ \cup {i}]
  BY DEF Commit, Holding
<1>3. owner[c] \in Owners /\ store[c] \in Stores /\ registry[owner[c]] = store[c] /\ store[c] # NoStore
  BY <1>1, <1>2, StoreAssumption DEF Handles
<1>4. /\ i \in Ids /\ i \notin Ended /\ Ended' = Ended \cup {i}
      /\ Weight' = [Weight EXCEPT ![i] = charge[i]]
  BY <1>1, <1>2, InsertEnds
<1>5. charge[i] \in 0 .. MaxCharge
  BY <1>1, <1>4 DEF ShapeOK
<1>6. Visible' = [Visible EXCEPT ![owner[c]] = @ \cup {i}]
  <2>1. Visible' = [o \in Owners |-> IF registry[o] = NoStore THEN {} ELSE entries'[registry[o]]]
    BY <1>2 DEF Visible
  <2>2. ASSUME NEW o \in Owners
        PROVE  Visible'[o] = IF o = owner[c] THEN Visible[o] \cup {i} ELSE Visible[o]
    <3>1. entries \in [Stores -> SUBSET Ids] /\ registry[o] \in Stores \cup {NoStore}
      BY <1>1 DEF ShapeOK
    <3>2. CASE o = owner[c]
      BY <1>2, <1>3, <2>1, <3>1, <3>2 DEF Visible
    <3>3. CASE o # owner[c]
      <4>1. registry[o] # store[c]
        BY <1>1, <1>3, <3>3 DEF Apart
      <4> QED
        BY <1>2, <2>1, <3>1, <3>3, <4>1 DEF Visible
    <3> QED
      BY <3>2, <3>3
  <2>3. Visible = [o \in Owners |-> Visible[o]]
    BY DEF Visible
  <2> QED
    BY <2>1, <2>2, <2>3
<1>7. Ledger!Total(Ledger!Held, Weight) + charge[i] <= BudgetMax
  BY <1>2, HeldFits
<1>8. PICK k \in Ids : k = i
  BY <1>4
<1> HIDE DEF i
<1>9. Ledger!Store(c, k)
  BY <1>2, <1>3, <1>4, <1>5, <1>6, <1>7, <1>8 DEF Ledger!Store, Visible, Weight
<1> QED
  BY <1>9 DEF Ledger!LedgerNext

-----------------------------------------------------------------------------
(* The refinement *)

LEMMA LedgerStarts == Init => Ledger!LedgerInit
<1> SUFFICES ASSUME Init PROVE Ledger!LedgerInit
  OBVIOUS
<1>1. Ended = {}
  BY DEF Init, Ended, Ids
<1>2. Visible = [o \in Owners |-> {}] /\ Weight = [i \in Ids |-> 0]
  BY <1>1 DEF Init, Visible, Weight
<1> QED
  BY <1>1, <1>2 DEF Init, Ledger!LedgerInit, Visible, Weight

LEMMA LedgerStep ==
  IInv /\ IInv' /\ RegistryInv /\ [Next]_vars => [Ledger!LedgerNext]_(Ledger!ledger)
<1> SUFFICES ASSUME IInv, IInv', RegistryInv, [Next]_vars
             PROVE  Ledger!LedgerNext \/ UNCHANGED Ledger!ledger
  OBVIOUS
<1>0. ShapeOK /\ ShapeOK' /\ Handles /\ FreshReferences /\ PinFree
  BY DEF IInv, Structure
<1>1. ASSUME NEW c \in Calls, NEW o \in Owners, GetExisting(c, o) \/ GetNew(c, o)
      PROVE  Ledger!LedgerNext
  BY <1>0, <1>1, EnterStep
<1>2. ASSUME NEW c \in Calls, Leave(c) \/ DropBody(c) PROVE Ledger!LedgerNext
  BY <1>2, LeaveStep
<1>3. ASSUME NEW c \in Calls, NEW i \in Ids, Read(c, i) PROVE Ledger!LedgerNext
  BY <1>0, <1>3, ReadStep
<1>4. ASSUME NEW c \in Calls, LockAndMakeRoom(c) PROVE Ledger!LedgerNext
  BY <1>0, <1>4, RoomStep
<1>5. ASSUME NEW c \in Calls, ReclaimOne(c) \/ EvictOldest(c) PROVE Ledger!LedgerNext
  <2>1. /\ \A s \in Stores : entries'[s] \subseteq entries[s]
        /\ UNCHANGED <<registry, owner, pin, fresh, nextId, charge>>
    BY <1>5, DropFromShrinks DEF ReclaimOne, EvictOldest
  <2> QED
    BY <1>0, <2>1, Shrinking DEF Ledger!LedgerNext
<1>6. ASSUME NEW c \in Calls, Refuse(c) PROVE Ledger!LedgerNext
  BY <1>0, <1>6, RefuseStep
<1>7. ASSUME NEW c \in Calls, Commit(c) PROVE Ledger!LedgerNext
  BY <1>7, CommitStep
<1>8. ASSUME NEW c \in Calls,
             \/ Reserve(c) \/ ReserveFails(c) \/ ReclaimDone(c) \/ StartRead(c)
             \/ \E n \in Bodies : StartInsert(c, n)
      PROVE  UNCHANGED Ledger!ledger
  <2>1. UNCHANGED <<registry, entries, owner, pin, fresh, nextId, charge>>
    BY <1>8 DEF Reserve, ReserveFails, ReclaimDone, StartRead, StartInsert, storeVars
  <2> QED
    BY <2>1, StutterStep
<1>9. CASE Tick \/ UNCHANGED vars
  <2>1. UNCHANGED <<registry, entries, owner, pin, fresh, nextId, charge>>
    BY <1>9 DEF Tick, vars, storeVars, callVars
  <2> QED
    BY <2>1, StutterStep
<1> QED
  BY <1>1, <1>2, <1>3, <1>4, <1>5, <1>6, <1>7, <1>8, <1>9 DEF Next, CallStep, HolderStep

(* The stores, their locks, evictions and the shared counter implement the *)
(* ledger (ResourceStore, ResourceBudget, OwnerStores).                    *)
THEOREM LedgerIsImplemented == Spec => ImplementsLedger
BY LedgerStarts, LedgerStep, Invariance, RegistryAlways, PTL
   DEF Spec, ImplementsLedger, Ledger!LedgerSpec
=============================================================================
