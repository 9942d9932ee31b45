--------------------------- MODULE DownloadsProofs ---------------------------
(***************************************************************************)
(* Proofs about Downloads: a body that ends is whole, a grant extends      *)
(* nothing and pins no identity's place, for every set of identities,      *)
(* stores, payloads, grants and downloads and every limit and lifetime.    *)
(***************************************************************************)
EXTENDS Downloads, TLAPS

-----------------------------------------------------------------------------
(* The invariant *)

(* An entry is in the store that retained it.                              *)
Homes == \A s \in Stores : \A p \in entries[s] : payload[p].home = s

(* A call in progress has a store; a store that anybody holds has kept its *)
(* place, and two identities have two stores.                              *)
Places ==
  /\ \A c \in Calls : call[c].at \in {"running", "reclaiming"} => call[c].store # NoStore
  /\ \A s \in Stores : HeldElsewhere(s) => Registered(s)
  /\ \A o, q \in Owners : registered[o] # NoStore /\ registered[o] = registered[q] => o = q

(* A grant that was not swept had not expired; at most one download reads, *)
(* with such a grant.                                                      *)
Readers ==
  /\ \A d \in Downloads : request[d].at # "none" => ~stream[d].open /\ request[d].since <= clock
  /\ \A d \in Downloads : request[d].at = "swept" => \A g \in grants : request[d].since <= ticket[g].expires
  /\ \A d \in Downloads : request[d].at = "reading" =>
       LET t == ticket[request[d].grant]
       IN request[d].grant \in Grants /\ t.store # NoStore /\ request[d].since - t.issued <= GrantTTL
  /\ \A d, e \in Downloads : request[d].at = "reading" /\ request[e].at = "reading" => d = e

(* A grant that was issued names a payload of its store, once and for all. *)
GrantsName ==
  /\ \A g \in grants : ticket[g].store # NoStore
  /\ \A g \in Grants : ticket[g].store # NoStore =>
       /\ ticket[g].uri \in Payloads /\ payload[ticket[g].uri].home = ticket[g].store
       /\ ticket[g].expires = ticket[g].issued + GrantTTL

(* A client that has seen no error has all that is not left to send.       *)
StreamsCount ==
  \A d \in Downloads :
    /\ stream[d].open => client[d].saw \in {"headers", "error"}
    /\ client[d].saw \in {"headers", "end"} =>
         client[d].grant \in Grants /\ ticket[client[d].grant].store # NoStore
    /\ client[d].saw = "headers" =>
         ~ stream[d].failed
         /\ client[d].got + stream[d].left = payload[ticket[client[d].grant].uri].length

IInv ==
  TypeOK /\ Homes /\ Places /\ GrantsName /\ Readers /\ StreamsCount /\ WholeOrFailed

-----------------------------------------------------------------------------
(* Each part is kept by every step *)

(* What a call, a grant, a request, a stream and its client are.           *)
CallRecord == [at : {"idle", "running", "reclaiming", "refused"},
               store : Stores \cup {NoStore}, held : SUBSET Stores]
CallType == [Calls -> CallRecord]
TicketType == [Grants -> [store : Stores \cup {NoStore}, uri : Payloads \cup {NoOne},
                          issued : Times, expires : Nat]]
RequestType == [Downloads -> [at : {"none", "swept", "reading"}, grant : Grants \cup {NoOne}, since : Times]]
StreamType == [Downloads -> [open : BOOLEAN, left : Nat, failed : BOOLEAN, deadline : Nat]]
ClientType == [Downloads -> [grant : Grants \cup {NoOne}, got : Nat,
                             saw : {"nothing", "headers", "refusal", "end", "error"}]]

(* Types of the streams are kept by the steps that leave the rest alone.   *)
LEMMA StreamStepTyped ==
  ASSUME TypeOK, stream' \in StreamType, client' \in ClientType,
         UNCHANGED <<clock, stores, call, plane, upload>>
  PROVE  TypeOK'
<1>1. UNCHANGED <<clock, registered, entries, payload, call, grants, ticket, request, upload>>
  BY DEF stores, plane
<1>. QED BY <1>1 DEF TypeOK, Times, StreamType, ClientType

(* Types.                                                                  *)
LEMMA NextKeepsTypes == (TypeOK /\ Places /\ GrantsName /\ Readers) /\ [Next]_vars => TypeOK'
<1>. SUFFICES ASSUME TypeOK, Places, GrantsName, Readers, [Next]_vars PROVE TypeOK'
  OBVIOUS
<1>. USE DownloadsAssumption
<1>1. ASSUME NEW c \in Calls, NEW o \in Owners, Enter(c, o) PROVE TypeOK'
  <2>1. CASE registered[o] # NoStore
    <3>1. call \in CallType /\ Inside(registered[o]) \in CallRecord
      BY DEF TypeOK, CallType, CallRecord, Inside
    <3>2. call' = [call EXCEPT ![c] = Inside(registered[o])]
      BY <1>1, <2>1 DEF Enter
    <3>3. call' \in CallType
      BY <3>1, <3>2 DEF CallType
    <3>4. UNCHANGED <<clock, registered, entries, payload, grants, ticket, request, stream, client, upload>>
      BY <1>1, <2>1 DEF Enter, plane, downloads
    <3>. QED BY <3>3, <3>4 DEF TypeOK, Times, CallType, CallRecord
  <2>2. CASE registered[o] = NoStore
    <3>. DEFINE kept == [x \in Owners |->
                          IF registered[x] # NoStore
                             /\ (HeldElsewhere(registered[x]) \/ LiveEntries(registered[x]) # {})
                          THEN registered[x] ELSE NoStore]
                swept == [s \in Stores |-> IF Registered(s) /\ ~HeldElsewhere(s)
                                          THEN LiveEntries(s) ELSE entries[s]]
    <3>1. kept \in [Owners -> Stores \cup {NoStore}]
      BY DEF TypeOK
    <3>2. swept \in [Stores -> SUBSET Payloads]
      BY DEF LiveEntries, EntriesAt, TypeOK
    <3>3. /\ entries' = swept
          /\ \/ \E s \in Stores : /\ registered' = [kept EXCEPT ![o] = s]
                                 /\ call' = [call EXCEPT ![c] = Inside(s)]
             \/ registered' = kept /\ call' = [call EXCEPT ![c] = Outside("refused")]
          /\ UNCHANGED <<clock, payload, plane, downloads, upload>>
      BY <1>1, <2>2 DEF Enter
    <3>. HIDE DEF kept, swept
    <3>4. registered' \in [Owners -> Stores \cup {NoStore}]
      BY <3>1, <3>3
    <3>8. /\ call \in CallType /\ Outside("refused") \in CallRecord
          /\ \A s \in Stores : Inside(s) \in CallRecord
      BY DEF TypeOK, CallType, CallRecord, Inside, Outside
    <3>9. \E r \in CallRecord : call' = [call EXCEPT ![c] = r]
      BY <3>3, <3>8
    <3>5. call' \in CallType
      BY <3>8, <3>9 DEF CallType
    <3>6. entries' \in [Stores -> SUBSET Payloads]
      BY <3>2, <3>3
    <3>7. UNCHANGED <<clock, payload, grants, ticket, request, stream, client, upload>>
      BY <3>3 DEF plane, downloads
    <3>. QED BY <3>4, <3>5, <3>6, <3>7 DEF TypeOK, Times, CallType, CallRecord
  <2>. QED BY <2>1, <2>2
<1>2. ASSUME NEW c \in Calls, NEW p \in Payloads, NEW n \in Chunks, Insert(c, p, n) PROVE TypeOK'
  <2>. DEFINE s == call[c].store
  <2>1. s \in Stores
    BY <1>2 DEF Insert, TypeOK, Places
  <2>2. payload' \in [Payloads -> [home : Stores \cup {NoStore}, at : Times, length : Nat]]
    BY <1>2, <2>1 DEF Insert, TypeOK
  <2>3. entries' \in [Stores -> SUBSET Payloads]
    BY <1>2, <2>1 DEF Insert, LiveEntries, EntriesAt, TypeOK
  <2>. QED BY <1>2, <2>2, <2>3 DEF Insert, plane, downloads, TypeOK
<1>3. ASSUME NEW c \in Calls, NEW g \in Grants, NEW p \in Payloads, Authorize(c, g, p) PROVE TypeOK'
  <2>. DEFINE s == call[c].store
  <2>1. s \in Stores
    BY <1>3 DEF Authorize, TypeOK, Places
  <2>2. entries' \in [Stores -> SUBSET Payloads] /\ grants' \subseteq Grants
    BY <1>3, <2>1 DEF Authorize, LiveEntries, EntriesAt, Swept, TypeOK
  <2>3. ticket \in TicketType
    BY DEF TypeOK, TicketType
  <2>4. ticket' = ticket \/ ticket' = [ticket EXCEPT ![g] = [store |-> s, uri |-> p, issued |-> clock,
                                                           expires |-> clock + GrantTTL]]
    BY <1>3 DEF Authorize
  <2>5. clock \in Times /\ clock + GrantTTL \in Nat
    BY DEF TypeOK, Times
  <2>. HIDE DEF s
  <2>6. ticket' \in TicketType
    BY <2>1, <2>3, <2>4, <2>5 DEF TicketType
  <2>. QED BY <1>3, <2>2, <2>6 DEF Authorize, downloads, TypeOK, TicketType
<1>4. ASSUME NEW c \in Calls, Leave(c) PROVE TypeOK'
  BY <1>4 DEF Leave, Outside, stores, plane, downloads, TypeOK, Times
<1>5. ASSUME NEW d \in Downloads, StartDownload(d) PROVE TypeOK'
  <2>1. grants' \subseteq Grants
    BY <1>5 DEF StartDownload, Swept, TypeOK
  <2>2. request \in RequestType /\ clock \in Times
    BY DEF TypeOK, RequestType
  <2>3. request' \in RequestType
    BY <1>5, <2>2 DEF StartDownload, RequestType
  <2>. QED BY <1>5, <2>1, <2>3 DEF StartDownload, stores, downloads, TypeOK, Times, RequestType
<1>18. ASSUME NEW d \in Downloads, NEW g \in Grants, LookUp(d, g) PROVE TypeOK'
  <2>1. request \in RequestType /\ client \in ClientType
    BY DEF TypeOK, RequestType, ClientType
  <2>2. \/ request' = [request EXCEPT ![d].at = "reading", ![d].grant = g] /\ client' = client
        \/ request' = [request EXCEPT ![d] = NoRequest] /\ client' = [client EXCEPT ![d].saw = "refusal"]
    BY <1>18 DEF LookUp
  <2>3. request' \in RequestType
    BY <2>1, <2>2 DEF RequestType, NoRequest, Times
  <2>4. client' \in ClientType
    BY <2>1, <2>2 DEF ClientType
  <2>. QED BY <1>18, <2>3, <2>4 DEF LookUp, stores, TypeOK, Times, RequestType, ClientType
<1>6. ASSUME NEW d \in Downloads, PollEnd(d) PROVE TypeOK'
  <2>1. stream \in StreamType /\ client \in ClientType
    BY DEF TypeOK, StreamType, ClientType
  <2>2. stream' = [stream EXCEPT ![d] = NoStream]
    BY <1>6 DEF PollEnd, NoStream
  <2>3. client' = [client EXCEPT ![d].saw = IF @ = "error" THEN "error" ELSE "end"]
    BY <1>6 DEF PollEnd
  <2>4. UNCHANGED <<clock, stores, call, plane, upload>>
    BY <1>6 DEF PollEnd
  <2>6. stream' \in StreamType
    BY <2>1, <2>2 DEF StreamType, NoStream
  <2>7. client' \in ClientType
    BY <2>1, <2>3 DEF ClientType
  <2>. QED BY <2>4, <2>6, <2>7, StreamStepTyped
<1>7. ASSUME NEW d \in Downloads, PollLate(d) PROVE TypeOK'
  <2>1. stream \in StreamType /\ client \in ClientType
    BY DEF TypeOK, StreamType, ClientType
  <2>2. stream' = [stream EXCEPT ![d].failed = TRUE, ![d].left = 0]
    BY <1>7 DEF PollLate
  <2>3. client' = [client EXCEPT ![d].saw = "error"]
    BY <1>7 DEF PollLate
  <2>4. UNCHANGED <<clock, stores, call, plane, upload>>
    BY <1>7 DEF PollLate
  <2>6. stream' \in StreamType
    BY <2>1, <2>2 DEF StreamType
  <2>7. client' \in ClientType
    BY <2>1, <2>3 DEF ClientType
  <2>. QED BY <2>4, <2>6, <2>7, StreamStepTyped
<1>8. ASSUME NEW d \in Downloads, PollChunk(d) PROVE TypeOK'
  <2>1. stream \in StreamType /\ client \in ClientType
    BY DEF TypeOK, StreamType, ClientType
  <2>2. stream' = [stream EXCEPT ![d].left = @ - 1]
    BY <1>8 DEF PollChunk
  <2>3. client' = [client EXCEPT ![d].got = @ + 1]
    BY <1>8 DEF PollChunk
  <2>4. UNCHANGED <<clock, stores, call, plane, upload>>
    BY <1>8 DEF PollChunk
  <2>5. stream[d].left - 1 \in Nat
    BY <1>8, <2>1 DEF PollChunk, Drained, StreamType
  <2>6. stream' \in StreamType
    BY <2>1, <2>2, <2>5 DEF StreamType
  <2>7. client' \in ClientType
    BY <2>1, <2>3 DEF ClientType
  <2>. QED BY <2>4, <2>6, <2>7, StreamStepTyped
<1>9. ASSUME NEW d \in Downloads, HangUp(d) PROVE TypeOK'
  <2>1. stream \in StreamType /\ client \in ClientType
    BY DEF TypeOK, StreamType, ClientType
  <2>2. stream' = [stream EXCEPT ![d] = NoStream]
    BY <1>9 DEF HangUp
  <2>3. client' = [client EXCEPT ![d].saw = "error"]
    BY <1>9 DEF HangUp
  <2>4. UNCHANGED <<clock, stores, call, plane, upload>>
    BY <1>9 DEF HangUp
  <2>6. stream' \in StreamType
    BY <2>1, <2>2 DEF StreamType, NoStream
  <2>7. client' \in ClientType
    BY <2>1, <2>3 DEF ClientType
  <2>. QED BY <2>4, <2>6, <2>7, StreamStepTyped
<1>10. ASSUME NEW u \in Uploads, UploadStep(u) PROVE TypeOK'
  <2>1. UNCHANGED <<clock, registered, entries, payload, call, grants, ticket, request, stream, client>>
    BY <1>10 DEF UploadStep, UploadWaits, UploadTakesSlot, UploadEnds, stores, plane, downloads
  <2>2. clock + BodyTimeout \in Nat
    BY DEF TypeOK, Times
  <2>3. upload' \in [Uploads -> [at : {"idle", "waiting", "reading"}, until : Nat]]
    BY <1>10, <2>2 DEF UploadStep, UploadWaits, UploadTakesSlot, UploadEnds, TypeOK
  <2>. QED BY <2>1, <2>3 DEF TypeOK, Times
<1>11. ASSUME Sweep PROVE TypeOK'
  BY <1>11 DEF Sweep, Swept, stores, downloads, TypeOK, Times
<1>12. ASSUME Tick PROVE TypeOK'
  BY <1>12 DEF Tick, stores, plane, downloads, TypeOK, Times
<1>13. ASSUME NEW c \in Calls, Reclaim(c) PROVE TypeOK'
  <2>. DEFINE s == call[c].store
  <2>1. s \in Stores
    BY <1>13 DEF Reclaim, TypeOK, Places
  <2>2. entries' \in [Stores -> SUBSET Payloads]
    BY <1>13, <2>1 DEF Reclaim, LiveEntries, EntriesAt, TypeOK
  <2>3. PICK held \in SUBSET Stores : call' = [call EXCEPT ![c].at = "reclaiming", ![c].held = held]
    BY <1>13 DEF Reclaim
  <2>4. call \in CallType
    BY DEF TypeOK, CallType, CallRecord
  <2>5. call' \in CallType
    BY <2>3, <2>4 DEF CallType, CallRecord
  <2>. QED BY <1>13, <2>2, <2>5 DEF Reclaim, plane, downloads, TypeOK, CallType, CallRecord
<1>14. ASSUME NEW c \in Calls, NEW s \in Stores, ReclaimStore(c, s) PROVE TypeOK'
  <2>1. call \in CallType
    BY DEF TypeOK, CallType, CallRecord
  <2>2. call' = [call EXCEPT ![c].held = @ \ {s}]
    BY <1>14 DEF ReclaimStore
  <2>3. call[c].held \ {s} \in SUBSET Stores
    BY <2>1 DEF CallType, CallRecord
  <2>4. call' \in CallType
    BY <2>1, <2>2, <2>3 DEF CallType, CallRecord
  <2>5. entries' \in [Stores -> SUBSET Payloads]
    BY <1>14 DEF ReclaimStore, TypeOK
  <2>. QED BY <1>14, <2>4, <2>5 DEF ReclaimStore, plane, downloads, TypeOK, CallType, CallRecord
<1>15. ASSUME NEW c \in Calls, Reclaimed(c) PROVE TypeOK'
  <2>1. call[c].store \in Stores
    BY <1>15 DEF Reclaimed, TypeOK, Places
  <2>2. call' \in CallType
    BY <1>15 DEF Reclaimed, TypeOK, CallType, CallRecord
  <2>3. entries' \in [Stores -> SUBSET Payloads]
    BY <1>15, <2>1 DEF Reclaimed, TypeOK
  <2>. QED BY <1>15, <2>2, <2>3 DEF Reclaimed, plane, downloads, TypeOK, CallType, CallRecord
<1>16. ASSUME NEW d \in Downloads, ReadPayload(d) PROVE TypeOK'
  <2>. DEFINE g == request[d].grant
  <2>1. g \in Grants /\ ticket[g].store \in Stores /\ ticket[g].uri \in Payloads
    BY <1>16 DEF ReadPayload, TypeOK, Readers, GrantsName
  <2>2. entries' \in [Stores -> SUBSET Payloads]
    BY <1>16, <2>1 DEF ReadPayload, EntriesAt, TypeOK
  <2>3. payload[ticket[g].uri].length \in Nat /\ clock + BodyTimeout \in Nat
    BY <2>1 DEF TypeOK, Times
  <2>4. stream \in StreamType /\ client \in ClientType /\ request \in RequestType
    BY DEF TypeOK, StreamType, ClientType, RequestType
  <2>5. \/ /\ stream' = [stream EXCEPT ![d] = [open |-> TRUE, left |-> payload[ticket[g].uri].length,
                                              failed |-> FALSE, deadline |-> clock + BodyTimeout]]
           /\ client' = [client EXCEPT ![d] = [grant |-> g, got |-> 0, saw |-> "headers"]]
        \/ stream' = stream /\ client' = [client EXCEPT ![d].saw = "refusal"]
    BY <1>16 DEF ReadPayload
  <2>6. request' \in RequestType
    BY <1>16, <2>4 DEF ReadPayload, RequestType, NoRequest, Times
  <2>. HIDE DEF g
  <2>7. \A n, m \in Nat : [stream EXCEPT ![d] = [open |-> TRUE, left |-> n, failed |-> FALSE, deadline |-> m]]
                         \in StreamType
    BY <2>4 DEF StreamType
  <2>8. stream' \in StreamType
    BY <2>3, <2>4, <2>5, <2>7
  <2>9. client' \in ClientType
    BY <2>1, <2>4, <2>5 DEF ClientType
  <2>10. UNCHANGED <<clock, registered, payload, call, grants, ticket, upload>>
    BY <1>16 DEF ReadPayload
  <2>. QED BY <2>2, <2>6, <2>8, <2>9, <2>10 DEF TypeOK, Times, StreamType, ClientType, RequestType
<1>17. CASE UNCHANGED vars
  BY <1>17 DEF TypeOK, Times, vars, stores, plane, downloads
<1>. QED
  BY <1>1, <1>2, <1>3, <1>4, <1>5, <1>6, <1>7, <1>8, <1>9, <1>10, <1>11, <1>12, <1>13,
     <1>14, <1>15, <1>16, <1>17, <1>18
   DEF Next, CallStep, DownloadStep

(* A payload is retained once, by one store.                               *)
LEMMA NextKeepsHomes == (TypeOK /\ Homes /\ Places) /\ [Next]_vars => Homes'
<1>. SUFFICES ASSUME (TypeOK /\ Homes /\ Places), [Next]_vars PROVE Homes'
  OBVIOUS
<1>. USE DownloadsAssumption
<1>1. ASSUME NEW c \in Calls, NEW o \in Owners, Enter(c, o) PROVE Homes'
  BY <1>1 DEF Enter, plane, downloads, LiveEntries, EntriesAt, TypeOK, Homes
<1>2. ASSUME NEW c \in Calls, NEW p \in Payloads, NEW n \in Chunks, Insert(c, p, n) PROVE Homes'
  <2>. DEFINE s == call[c].store
  <2>1. /\ s \in Stores /\ payload[p].home = NoStore
        /\ payload' = [payload EXCEPT ![p] = [home |-> s, at |-> clock, length |-> n]]
        /\ \E kept \in SUBSET entries[s] : entries' = [entries EXCEPT ![s] = kept \cup {p}]
    BY <1>2 DEF Insert, LiveEntries, EntriesAt, TypeOK, Places
  <2>2. PICK kept \in SUBSET entries[s] : entries' = [entries EXCEPT ![s] = kept \cup {p}]
    BY <2>1
  <2>3. \A q \in Payloads : payload'[q].home = IF q = p THEN s ELSE payload[q].home
    BY <2>1 DEF TypeOK
  <2>4. \A r \in Stores : p \notin entries[r]
    BY <2>1 DEF Homes
  <2>5. ASSUME NEW r \in Stores, NEW q \in entries'[r] PROVE payload'[q].home = r
    <3>1. q \in Payloads /\ (q \in entries[r] \/ (q = p /\ r = s))
      BY <2>1, <2>2, <2>5 DEF TypeOK
    <3>. QED BY <2>3, <2>4, <3>1 DEF Homes
  <2>. QED BY <2>5 DEF Homes
<1>3. ASSUME NEW c \in Calls, NEW g \in Grants, NEW p \in Payloads, Authorize(c, g, p) PROVE Homes'
  BY <1>3 DEF Authorize, downloads, LiveEntries, EntriesAt, TypeOK, Homes
<1>4. ASSUME NEW c \in Calls, Leave(c) PROVE Homes'
  BY <1>4 DEF Leave, stores, plane, downloads, TypeOK, Homes
<1>5. ASSUME NEW d \in Downloads, StartDownload(d) PROVE Homes'
  BY <1>5 DEF StartDownload, stores, Homes
<1>18. ASSUME NEW d \in Downloads, NEW g \in Grants, LookUp(d, g) PROVE Homes'
  BY <1>18 DEF LookUp, stores, Homes
<1>6. ASSUME NEW d \in Downloads, PollEnd(d) PROVE Homes'
  BY <1>6 DEF PollEnd, stores, plane, TypeOK, Homes
<1>7. ASSUME NEW d \in Downloads, PollLate(d) PROVE Homes'
  BY <1>7 DEF PollLate, stores, plane, TypeOK, Homes
<1>8. ASSUME NEW d \in Downloads, PollChunk(d) PROVE Homes'
  BY <1>8 DEF PollChunk, stores, plane, TypeOK, Homes
<1>9. ASSUME NEW d \in Downloads, HangUp(d) PROVE Homes'
  BY <1>9 DEF HangUp, stores, plane, TypeOK, Homes
<1>10. ASSUME NEW u \in Uploads, UploadStep(u) PROVE Homes'
  BY <1>10
   DEF UploadStep, UploadWaits, UploadTakesSlot, UploadEnds, stores, plane, downloads, TypeOK, Homes
<1>11. ASSUME Sweep PROVE Homes'
  BY <1>11 DEF Sweep, Swept, stores, downloads, TypeOK, Homes
<1>12. ASSUME Tick PROVE Homes'
  BY <1>12 DEF Tick, stores, plane, downloads, TypeOK, Homes
<1>13. ASSUME NEW c \in Calls, Reclaim(c) PROVE Homes'
  BY <1>13 DEF Reclaim, LiveEntries, EntriesAt, TypeOK, Homes
<1>14. ASSUME NEW c \in Calls, NEW s \in Stores, ReclaimStore(c, s) PROVE Homes'
  BY <1>14 DEF ReclaimStore, TypeOK, Homes
<1>15. ASSUME NEW c \in Calls, Reclaimed(c) PROVE Homes'
  BY <1>15 DEF Reclaimed, TypeOK, Homes
<1>16. ASSUME NEW d \in Downloads, ReadPayload(d) PROVE Homes'
  BY <1>16 DEF ReadPayload, LiveEntries, EntriesAt, TypeOK, Homes
<1>17. CASE UNCHANGED vars
  BY <1>17 DEF TypeOK, Homes, vars, stores, plane, downloads
<1>. QED
  BY <1>1, <1>2, <1>3, <1>4, <1>5, <1>6, <1>7, <1>8, <1>9, <1>10, <1>11, <1>12, <1>13,
     <1>14, <1>15, <1>16, <1>17, <1>18
   DEF Next, CallStep, DownloadStep

(* Whoever held a store that keeps its place may hold it on.               *)
LEMMA HoldersOfPlaces ==
  ASSUME Places, registered' = registered,
         \A c \in Calls : call'[c].at \in {"running", "reclaiming"} => call'[c].store # NoStore,
         \A s \in Stores : HeldElsewhere(s)' => Upgrades(s)
  PROVE  Places'
<1>1. \A s \in Stores : Registered(s)' <=> Registered(s)
  BY DEF Registered
<1>2. \A s \in Stores : HeldElsewhere(s)' => Registered(s)'
  BY <1>1 DEF Places, Upgrades
<1>. QED BY <1>2 DEF Places

(* So may nobody.                                                          *)
LEMMA SameHolders ==
  ASSUME Places, UNCHANGED <<registered, call, ticket, request>>
  PROVE  Places'
<1>1. \A s \in Stores : HeldElsewhere(s)' <=> HeldElsewhere(s)
  BY DEF HeldElsewhere, HeldByCall, HeldByReclaim, HeldByRead
<1>. QED BY <1>1, HoldersOfPlaces DEF Places, Upgrades

(* A new identity's store is nobody's yet, and only stores nobody holds    *)
(* lose their places.                                                      *)
LEMMA EnterKeepsPlaces ==
  ASSUME TypeOK, Places, NEW c \in Calls, NEW o \in Owners, Enter(c, o)
  PROVE  Places'
<1>. USE DownloadsAssumption
<1>1. CASE registered[o] # NoStore
  <2>1. registered' = registered /\ ticket' = ticket /\ request' = request
        /\ call' = [call EXCEPT ![c] = Inside(registered[o])]
    BY <1>1 DEF Enter, plane
  <2>2. \A x \in Calls : call'[x] = IF x = c THEN Inside(registered[o]) ELSE call[x]
    BY <2>1 DEF TypeOK
  <2>3. \A x \in Calls : call'[x].at \in {"running", "reclaiming"} => call'[x].store # NoStore
    BY <1>1, <2>2 DEF Inside, Places
  <2>4. ASSUME NEW s \in Stores, HeldElsewhere(s)' PROVE Upgrades(s)
    BY <2>1, <2>2, <2>4 DEF Inside, Upgrades, Registered, HeldElsewhere, HeldByCall, HeldByReclaim, HeldByRead
  <2>. QED BY <2>1, <2>3, <2>4, HoldersOfPlaces
<1>2. CASE registered[o] = NoStore
  <2>. DEFINE kept == [x \in Owners |->
                        IF registered[x] # NoStore
                           /\ (HeldElsewhere(registered[x]) \/ LiveEntries(registered[x]) # {})
                        THEN registered[x] ELSE NoStore]
  <2>1. /\ ticket' = ticket /\ request' = request
        /\ \/ \E s \in Stores : /\ ~Upgrades(s)
                                /\ registered' = [kept EXCEPT ![o] = s]
                                /\ call' = [call EXCEPT ![c] = Inside(s)]
           \/ registered' = kept /\ call' = [call EXCEPT ![c] = Outside("refused")]
    BY <1>2 DEF Enter, plane
  <2>2. \A x \in Owners : /\ registered[x] # NoStore /\ HeldElsewhere(registered[x]) => kept[x] = registered[x]
                          /\ kept[x] \in {registered[x], NoStore}
    OBVIOUS
  <2>3. kept \in [Owners -> Stores \cup {NoStore}] /\ kept[o] = NoStore
    BY <1>2 DEF TypeOK
  <2>. HIDE DEF kept
  <2>4. CASE \E s \in Stores : /\ ~Upgrades(s)
                               /\ registered' = [kept EXCEPT ![o] = s]
                               /\ call' = [call EXCEPT ![c] = Inside(s)]
    <3>1. PICK s \in Stores : /\ ~Upgrades(s)
                              /\ registered' = [kept EXCEPT ![o] = s]
                              /\ call' = [call EXCEPT ![c] = Inside(s)]
      BY <2>4
    <3>2. \A x \in Calls : call'[x] = IF x = c THEN Inside(s) ELSE call[x]
      BY <3>1 DEF TypeOK
    <3>3. \A x \in Owners : registered'[x] = IF x = o THEN s ELSE kept[x]
      BY <2>3, <3>1
    <3>4. \A x \in Owners : registered[x] # s
      BY <3>1 DEF Upgrades, Registered
    <3>5. \A x \in Calls : call'[x].at \in {"running", "reclaiming"} => call'[x].store # NoStore
      BY <3>2 DEF Inside, Places
    <3>6. ASSUME NEW r \in Stores, HeldElsewhere(r)' PROVE Registered(r)'
      <4>1. r = s \/ HeldElsewhere(r)
        BY <2>1, <3>2, <3>6 DEF Inside, HeldElsewhere, HeldByCall, HeldByReclaim, HeldByRead
      <4>2. CASE r = s
        BY <3>3, <4>2 DEF Registered
      <4>3. CASE HeldElsewhere(r)
        <5>1. PICK x \in Owners : registered[x] = r
          BY <4>3 DEF Places, Registered
        <5>2. x # o /\ kept[x] = r
          BY <1>2, <2>2, <4>3, <5>1
        <5>. QED BY <3>3, <5>2 DEF Registered
      <4>. QED BY <4>1, <4>2, <4>3
    <3>7. ASSUME NEW x \in Owners, NEW q \in Owners, registered'[x] # NoStore, registered'[x] = registered'[q]
          PROVE  x = q
      BY <2>2, <3>3, <3>4, <3>7 DEF Places
    <3>. QED BY <3>5, <3>6, <3>7 DEF Places
  <2>5. CASE registered' = kept /\ call' = [call EXCEPT ![c] = Outside("refused")]
    <3>2. \A x \in Calls : call'[x] = IF x = c THEN Outside("refused") ELSE call[x]
      BY <2>5 DEF TypeOK
    <3>5. \A x \in Calls : call'[x].at \in {"running", "reclaiming"} => call'[x].store # NoStore
      BY <3>2 DEF Outside, Places
    <3>6. ASSUME NEW r \in Stores, HeldElsewhere(r)' PROVE Registered(r)'
      <4>1. HeldElsewhere(r)
        BY <2>1, <3>2, <3>6 DEF Outside, HeldElsewhere, HeldByCall, HeldByReclaim, HeldByRead
      <4>2. PICK x \in Owners : registered[x] = r
        BY <4>1 DEF Places, Registered
      <4>. QED BY <2>2, <2>5, <4>1, <4>2 DEF Registered
    <3>7. ASSUME NEW x \in Owners, NEW q \in Owners, registered'[x] # NoStore, registered'[x] = registered'[q]
          PROVE  x = q
      BY <2>2, <2>5, <3>7 DEF Places
    <3>. QED BY <3>5, <3>6, <3>7 DEF Places
  <2>. QED BY <2>1, <2>4, <2>5
<1>. QED BY <1>1, <1>2

(* A store that somebody holds keeps its place.                            *)
LEMMA NextKeepsPlaces == TypeOK /\ Places /\ GrantsName /\ Readers /\ [Next]_vars => Places'
<1>. SUFFICES ASSUME TypeOK, Places, GrantsName, Readers, [Next]_vars PROVE Places'
  OBVIOUS
<1>. USE DownloadsAssumption
<1>1. ASSUME NEW c \in Calls, NEW o \in Owners, Enter(c, o) PROVE Places'
  BY <1>1, EnterKeepsPlaces
<1>2. ASSUME NEW c \in Calls, NEW g \in Grants, NEW p \in Payloads, Authorize(c, g, p) PROVE Places'
  <2>1. /\ registered' = registered /\ call' = call /\ request' = request
        /\ \A d \in Downloads : request[d].at # "reading"
    BY <1>2 DEF Authorize, NoReader
  <2>2. \A s \in Stores : HeldElsewhere(s)' <=> HeldElsewhere(s)
    BY <2>1 DEF HeldElsewhere, HeldByCall, HeldByReclaim, HeldByRead
  <2>. QED BY <2>1, <2>2, HoldersOfPlaces DEF Places, Upgrades
<1>3. ASSUME NEW c \in Calls, Leave(c) PROVE Places'
  <2>1. registered' = registered /\ ticket' = ticket /\ request' = request
        /\ \A x \in Calls : call'[x] = IF x = c THEN Outside("idle") ELSE call[x]
    BY <1>3 DEF Leave, stores, plane, TypeOK
  <2>2. \A s \in Stores : HeldElsewhere(s)' => HeldElsewhere(s)
    BY <2>1 DEF Outside, HeldElsewhere, HeldByCall, HeldByReclaim, HeldByRead
  <2>3. \A x \in Calls : call'[x].at \in {"running", "reclaiming"} => call'[x].store # NoStore
    BY <2>1 DEF Outside, Places
  <2>. QED BY <2>1, <2>2, <2>3, HoldersOfPlaces DEF Upgrades
<1>4. ASSUME NEW d \in Downloads, StartDownload(d) PROVE Places'
  <2>1. registered' = registered /\ ticket' = ticket /\ call' = call
        /\ \A x \in Downloads : request'[x].at = "reading" => request'[x] = request[x]
    BY <1>4 DEF StartDownload, stores, TypeOK
  <2>2. \A s \in Stores : HeldElsewhere(s)' => Upgrades(s)
    BY <2>1 DEF Upgrades, HeldElsewhere, HeldByCall, HeldByReclaim, HeldByRead
  <2>. QED BY <2>1, <2>2, HoldersOfPlaces DEF Places
<1>10. ASSUME NEW d \in Downloads, NEW g \in Grants, LookUp(d, g) PROVE Places'
  <2>1. registered' = registered /\ ticket' = ticket /\ call' = call
        /\ \A x \in Downloads : request'[x].at = "reading" =>
             request'[x] = request[x] \/ (request'[x].grant = g /\ Upgrades(ticket[g].store))
    BY <1>10 DEF LookUp, stores, NoRequest, TypeOK
  <2>2. \A s \in Stores : HeldElsewhere(s)' => Upgrades(s)
    BY <2>1 DEF Upgrades, HeldElsewhere, HeldByCall, HeldByReclaim, HeldByRead
  <2>. QED BY <2>1, <2>2, HoldersOfPlaces DEF Places
<1>5. ASSUME NEW d \in Downloads, ReadPayload(d) PROVE Places'
  <2>1. registered' = registered /\ ticket' = ticket /\ call' = call
        /\ \A x \in Downloads : request'[x].at = "reading" => request'[x] = request[x]
    BY <1>5 DEF ReadPayload, NoRequest, TypeOK
  <2>2. \A s \in Stores : HeldElsewhere(s)' => Upgrades(s)
    BY <2>1 DEF Upgrades, HeldElsewhere, HeldByCall, HeldByReclaim, HeldByRead
  <2>. QED BY <2>1, <2>2, HoldersOfPlaces DEF Places
<1>6. ASSUME NEW c \in Calls, Reclaim(c) PROVE Places'
  <2>1. registered' = registered /\ ticket' = ticket /\ request' = request
        /\ call' = [call EXCEPT ![c].at = "reclaiming", ![c].held = {x \in Stores \ {call[c].store} : Upgrades(x)}]
    BY <1>6 DEF Reclaim, plane
  <2>2. \A x \in Calls : /\ call'[x].store = call[x].store
                         /\ x # c => call'[x] = call[x]
    BY <2>1 DEF TypeOK
  <2>3. call'[c].held \subseteq {x \in Stores : Upgrades(x)} /\ call[c].at = "running"
    BY <1>6, <2>1 DEF Reclaim, TypeOK
  <2>4. ASSUME NEW s \in Stores, HeldElsewhere(s)' PROVE Upgrades(s)
    BY <2>1, <2>2, <2>3, <2>4 DEF Upgrades, HeldElsewhere, HeldByCall, HeldByReclaim, HeldByRead
  <2>5. \A x \in Calls : call'[x].at \in {"running", "reclaiming"} => call'[x].store # NoStore
    BY <2>2, <2>3 DEF Places
  <2>. QED BY <2>1, <2>4, <2>5, HoldersOfPlaces
<1>7. ASSUME NEW c \in Calls, NEW s \in Stores, ReclaimStore(c, s) PROVE Places'
  <2>1. registered' = registered /\ ticket' = ticket /\ request' = request
        /\ call' = [call EXCEPT ![c].held = @ \ {s}]
    BY <1>7 DEF ReclaimStore, plane
  <2>2. \A x \in Calls : /\ call'[x].store = call[x].store /\ call'[x].at = call[x].at
                         /\ call'[x].held \subseteq call[x].held
    BY <2>1 DEF TypeOK
  <2>3. \A r \in Stores : HeldElsewhere(r)' => Upgrades(r)
    BY <2>1, <2>2 DEF Upgrades, HeldElsewhere, HeldByCall, HeldByReclaim, HeldByRead
  <2>. QED BY <2>1, <2>2, <2>3, HoldersOfPlaces DEF Places
<1>8. ASSUME NEW c \in Calls, Reclaimed(c) PROVE Places'
  <2>1. registered' = registered /\ ticket' = ticket /\ request' = request
        /\ call' = [call EXCEPT ![c].at = "running"] /\ call[c].at = "reclaiming"
    BY <1>8 DEF Reclaimed, plane
  <2>2. \A x \in Calls : /\ call'[x].store = call[x].store /\ call'[x].held = call[x].held
                         /\ x # c => call'[x].at = call[x].at
    BY <2>1 DEF TypeOK
  <2>3. \A r \in Stores : HeldElsewhere(r)' => Upgrades(r)
    BY <2>1, <2>2 DEF Upgrades, HeldElsewhere, HeldByCall, HeldByReclaim, HeldByRead
  <2>. QED BY <2>1, <2>2, <2>3, HoldersOfPlaces DEF Places
<1>9. \/ UNCHANGED <<registered, call, ticket, request>>
      \/ \E c \in Calls : \/ \E o \in Owners : Enter(c, o)
                          \/ \E g \in Grants, p \in Payloads : Authorize(c, g, p)
                          \/ Leave(c) \/ Reclaim(c) \/ Reclaimed(c)
                          \/ \E s \in Stores : ReclaimStore(c, s)
      \/ \E d \in Downloads : StartDownload(d) \/ ReadPayload(d) \/ \E g \in Grants : LookUp(d, g)
  BY DEF Next, CallStep, DownloadStep, UploadStep, Insert, PollEnd, PollLate, PollChunk, HangUp,
         UploadWaits, UploadTakesSlot, UploadEnds, Sweep, Tick, vars, stores, plane
<1>. QED BY <1>1, <1>2, <1>3, <1>4, <1>5, <1>6, <1>7, <1>8, <1>9, <1>10, SameHolders

(* The lock of the grants lets one download read at a time, and keeps the  *)
(* grant that it reads.                                                    *)
LEMMA NextKeepsReaders == TypeOK /\ Places /\ GrantsName /\ Readers /\ [Next]_vars => Readers'
<1>. SUFFICES ASSUME TypeOK, Places, GrantsName, Readers, [Next]_vars PROVE Readers'
  OBVIOUS
<1>. USE DownloadsAssumption
<1>1. ASSUME NEW c \in Calls, NEW g \in Grants, NEW p \in Payloads, Authorize(c, g, p) PROVE Readers'
  <2>1. /\ UNCHANGED <<clock, request, stream>> /\ Swept \subseteq grants
        /\ \A d \in Downloads : request[d].at # "reading"
    BY <1>1 DEF Authorize, NoReader, Swept, downloads
  <2>2. ASSUME NEW x \in grants', NEW d \in Downloads, request[d].at = "swept"
        PROVE  request[d].since <= ticket'[x].expires
    <3>1. \/ x \in grants /\ ticket'[x] = ticket[x]
          \/ ticket'[x].expires = clock + GrantTTL
      BY <1>1, <2>1, <2>2 DEF Authorize, TypeOK
    <3>2. request[d].since <= clock /\ request[d].since \in Nat /\ clock \in Nat
      BY <2>2 DEF Readers, TypeOK, Times
    <3>3. request[d].since <= clock + GrantTTL
      BY <3>2
    <3>. QED BY <2>2, <3>1, <3>3 DEF Readers
  <2>. QED BY <2>1, <2>2 DEF Readers
<1>2. ASSUME NEW d \in Downloads, StartDownload(d) PROVE Readers'
  <2>1. /\ UNCHANGED <<clock, ticket, stream>> /\ ~stream[d].open /\ grants' = Swept
        /\ \A x \in Downloads : request[x].at # "reading"
        /\ \A x \in Downloads : request'[x] = IF x = d THEN [at |-> "swept", grant |-> NoOne, since |-> clock]
                                              ELSE request[x]
    BY <1>2 DEF StartDownload, NoReader, downloads, TypeOK
  <2>2. Swept \subseteq grants /\ \A g \in Swept : clock <= ticket[g].expires
    BY DEF Swept
  <2>3. clock <= clock
    BY DEF TypeOK, Times
  <2>. QED BY <2>1, <2>2, <2>3 DEF Readers
<1>3. ASSUME NEW d \in Downloads, NEW g \in Grants, LookUp(d, g) PROVE Readers'
  <2>1. /\ UNCHANGED <<clock, grants, ticket, stream>> /\ request[d].at = "swept"
        /\ \A x \in Downloads : request[x].at # "reading"
        /\ \A x \in Downloads : x # d => request'[x] = request[x]
        /\ \/ request'[d] = NoRequest
           \/ /\ g \in grants /\ request'[d].at = "reading" /\ request'[d].grant = g
              /\ request'[d].since = request[d].since
    BY <1>3 DEF LookUp, NoReader, TypeOK
  <2>2. CASE request'[d] = NoRequest
    BY <2>1, <2>2 DEF Readers, NoRequest
  <2>3. CASE /\ g \in grants /\ request'[d].at = "reading" /\ request'[d].grant = g
             /\ request'[d].since = request[d].since
    <3>1. /\ request[d].since <= ticket[g].expires /\ ticket[g].store # NoStore
          /\ ticket[g].expires = ticket[g].issued + GrantTTL
      BY <2>1, <2>3 DEF Readers, GrantsName
    <3>2. request[d].since \in Nat /\ ticket[g].issued \in Nat
      BY DEF TypeOK, Times
    <3>3. request[d].since - ticket[g].issued <= GrantTTL
      BY <3>1, <3>2
    <3>. QED BY <2>1, <2>3, <3>1, <3>3 DEF Readers
  <2>. QED BY <2>1, <2>2, <2>3
<1>4. ASSUME NEW d \in Downloads, ReadPayload(d) PROVE Readers'
  <2>1. /\ UNCHANGED <<clock, grants, ticket>>
        /\ \A x \in Downloads : request'[x] = IF x = d THEN NoRequest ELSE request[x]
        /\ \A x \in Downloads : x # d => stream'[x] = stream[x]
    BY <1>4 DEF ReadPayload, TypeOK
  <2>. QED BY <2>1 DEF Readers, NoRequest
<1>5. ASSUME NEW d \in Downloads, PollEnd(d) \/ PollLate(d) \/ PollChunk(d) \/ HangUp(d) PROVE Readers'
  <2>1. UNCHANGED <<clock, grants, ticket, request>> /\ stream[d].open
    BY <1>5 DEF PollEnd, PollLate, PollChunk, HangUp, plane
  <2>2. \A x \in Downloads : x # d => stream'[x] = stream[x]
    BY <1>5 DEF PollEnd, PollLate, PollChunk, HangUp, TypeOK
  <2>. QED BY <2>1, <2>2 DEF Readers
<1>6. ASSUME Sweep PROVE Readers'
  BY <1>6 DEF Sweep, Swept, downloads, Readers
<1>7. ASSUME Tick PROVE Readers'
  <2>1. UNCHANGED <<grants, ticket, request, stream>> /\ clock' = clock + 1
    BY <1>7 DEF Tick, plane, downloads
  <2>2. \A x \in Downloads : request[x].since <= clock => request[x].since <= clock + 1
    BY DEF TypeOK, Times
  <2>. QED BY <2>1, <2>2 DEF Readers
<1> DEFINE Still == UNCHANGED <<clock, grants, ticket, request, stream>>
<1>8. /\ \A c \in Calls : \A o \in Owners : Enter(c, o) => Still
      /\ \A c \in Calls : \A p \in Payloads, n \in Chunks : Insert(c, p, n) => Still
  BY DEF Enter, Insert, plane, downloads
<1>9. \A c \in Calls : /\ Reclaim(c) \/ Reclaimed(c) \/ Leave(c) => Still
                       /\ \A s \in Stores : ReclaimStore(c, s) => Still
  BY DEF Reclaim, Reclaimed, ReclaimStore, Leave, plane, downloads
<1>10. \A u \in Uploads : UploadStep(u) => Still
  BY DEF UploadStep, UploadWaits, UploadTakesSlot, UploadEnds, plane, downloads
<1>11. UNCHANGED vars => Still
  BY DEF vars, plane, downloads
<1>12. Still => Readers'
  BY DEF Readers
<1> HIDE DEF Still
<1>13. CASE \E c \in Calls : CallStep(c)
  <2>1. PICK c \in Calls : CallStep(c)
    BY <1>13
  <2>2. Still \/ \E g \in Grants, p \in Payloads : Authorize(c, g, p)
    BY <1>8, <1>9, <2>1, Zenon DEF CallStep
  <2>. QED BY <1>1, <1>12, <2>2, Zenon
<1>14. CASE \E d \in Downloads : DownloadStep(d)
  <2>1. PICK d \in Downloads : DownloadStep(d)
    BY <1>14
  <2>. QED BY <1>2, <1>3, <1>4, <1>5, <2>1, Zenon DEF DownloadStep
<1>. QED BY <1>6, <1>7, <1>10, <1>11, <1>12, <1>13, <1>14, Zenon DEF Next

(* A grant is issued once, and its payload was retained before.            *)
LEMMA NextKeepsGrantsName == (TypeOK /\ Homes /\ Places /\ GrantsName) /\ [Next]_vars => GrantsName'
<1>. SUFFICES ASSUME (TypeOK /\ Homes /\ Places /\ GrantsName), [Next]_vars PROVE GrantsName'
  OBVIOUS
<1>. USE DownloadsAssumption
<1>1. ASSUME NEW c \in Calls, NEW o \in Owners, Enter(c, o) PROVE GrantsName'
  BY <1>1 DEF Enter, plane, downloads, TypeOK, GrantsName
<1>2. ASSUME NEW c \in Calls, NEW p \in Payloads, NEW n \in Chunks, Insert(c, p, n) PROVE GrantsName'
  <2>1. /\ payload[p].home = NoStore /\ grants' = grants /\ ticket' = ticket
        /\ \A q \in Payloads : q # p => payload'[q] = payload[q]
    BY <1>2 DEF Insert, plane, TypeOK
  <2>. QED BY <2>1 DEF GrantsName
<1>3. ASSUME NEW c \in Calls, NEW g \in Grants, NEW p \in Payloads, Authorize(c, g, p) PROVE GrantsName'
  <2>. DEFINE s == call[c].store
  <2>1. /\ s \in Stores /\ payload' = payload /\ ticket[g].store = NoStore /\ Swept \subseteq grants
    BY <1>3 DEF Authorize, Swept, TypeOK, Places
  <2>2. CASE p \in LiveEntries(s) /\ Cardinality(Swept) < MaxOutstanding
    <3>1. grants' = Swept \cup {g} /\ payload[p].home = s
      BY <1>3, <2>1, <2>2 DEF Authorize, LiveEntries, EntriesAt, Homes
    <3>2. \A x \in Grants : ticket'[x] = IF x = g THEN [store |-> s, uri |-> p, issued |-> clock,
                                                      expires |-> clock + GrantTTL] ELSE ticket[x]
      BY <1>3, <2>2 DEF Authorize, TypeOK
    <3>. HIDE DEF s
    <3>3. ticket'[g].store = s /\ ticket'[g].uri = p /\ ticket'[g].issued = clock
          /\ ticket'[g].expires = clock + GrantTTL
      BY <3>2
    <3>4. s # NoStore
      BY <2>1
    <3>5. \A x \in grants' : ticket'[x].store # NoStore
      BY <2>1, <3>1, <3>2, <3>3, <3>4 DEF GrantsName, TypeOK
    <3>6. ASSUME NEW x \in Grants, ticket'[x].store # NoStore
          PROVE  /\ ticket'[x].uri \in Payloads /\ payload'[ticket'[x].uri].home = ticket'[x].store
                 /\ ticket'[x].expires = ticket'[x].issued + GrantTTL
      <4>1. CASE x = g
        BY <2>1, <3>1, <3>3, <4>1
      <4>2. CASE x # g
        BY <2>1, <3>2, <3>6, <4>2 DEF GrantsName
      <4>. QED BY <4>1, <4>2
    <3>. QED BY <3>5, <3>6 DEF GrantsName
  <2>3. CASE ~ (p \in LiveEntries(s) /\ Cardinality(Swept) < MaxOutstanding)
    BY <1>3, <2>1, <2>3 DEF Authorize, GrantsName
  <2>. QED BY <2>2, <2>3
<1>4. ASSUME NEW c \in Calls, Leave(c) PROVE GrantsName'
  BY <1>4 DEF Leave, stores, plane, downloads, TypeOK, GrantsName
<1>5. ASSUME NEW d \in Downloads, StartDownload(d) PROVE GrantsName'
  BY <1>5 DEF StartDownload, stores, Swept, GrantsName
<1>18. ASSUME NEW d \in Downloads, NEW g \in Grants, LookUp(d, g) PROVE GrantsName'
  BY <1>18 DEF LookUp, stores, GrantsName
<1>6. ASSUME NEW d \in Downloads, PollEnd(d) PROVE GrantsName'
  BY <1>6 DEF PollEnd, stores, plane, TypeOK, GrantsName
<1>7. ASSUME NEW d \in Downloads, PollLate(d) PROVE GrantsName'
  BY <1>7 DEF PollLate, stores, plane, TypeOK, GrantsName
<1>8. ASSUME NEW d \in Downloads, PollChunk(d) PROVE GrantsName'
  BY <1>8 DEF PollChunk, stores, plane, TypeOK, GrantsName
<1>9. ASSUME NEW d \in Downloads, HangUp(d) PROVE GrantsName'
  BY <1>9 DEF HangUp, stores, plane, TypeOK, GrantsName
<1>10. ASSUME NEW u \in Uploads, UploadStep(u) PROVE GrantsName'
  BY <1>10 DEF UploadStep, UploadWaits, UploadTakesSlot, UploadEnds, stores, plane, downloads,
       TypeOK, GrantsName
<1>11. ASSUME Sweep PROVE GrantsName'
  BY <1>11 DEF Sweep, Swept, stores, downloads, TypeOK, GrantsName
<1>12. ASSUME Tick PROVE GrantsName'
  BY <1>12 DEF Tick, stores, plane, downloads, TypeOK, GrantsName
<1>13. ASSUME NEW c \in Calls, Reclaim(c) PROVE GrantsName'
  BY <1>13 DEF Reclaim, plane, GrantsName
<1>14. ASSUME NEW c \in Calls, NEW s \in Stores, ReclaimStore(c, s) PROVE GrantsName'
  BY <1>14 DEF ReclaimStore, plane, GrantsName
<1>15. ASSUME NEW c \in Calls, Reclaimed(c) PROVE GrantsName'
  BY <1>15 DEF Reclaimed, plane, GrantsName
<1>16. ASSUME NEW d \in Downloads, ReadPayload(d) PROVE GrantsName'
  BY <1>16 DEF ReadPayload, GrantsName
<1>17. CASE UNCHANGED vars
  BY <1>17 DEF TypeOK, GrantsName, vars, stores, plane, downloads
<1>. QED
  BY <1>1, <1>2, <1>3, <1>4, <1>5, <1>6, <1>7, <1>8, <1>9, <1>10, <1>11, <1>12, <1>13,
     <1>14, <1>15, <1>16, <1>17, <1>18
   DEF Next, CallStep, DownloadStep

(* Each chunk goes from what is left to what was received.                 *)
LEMMA NextKeepsStreamsCount ==
  TypeOK /\ GrantsName /\ Readers /\ StreamsCount /\ [Next]_vars => StreamsCount'
<1>. SUFFICES ASSUME TypeOK, GrantsName, Readers, StreamsCount, [Next]_vars PROVE StreamsCount'
  OBVIOUS
<1>. USE DownloadsAssumption
<1>1. ASSUME NEW c \in Calls, NEW o \in Owners, Enter(c, o) PROVE StreamsCount'
  BY <1>1 DEF Enter, plane, downloads, TypeOK, StreamsCount
<1>2. ASSUME NEW c \in Calls, NEW p \in Payloads, NEW n \in Chunks, Insert(c, p, n) PROVE StreamsCount'
  <2>1. /\ payload[p].home = NoStore /\ ticket' = ticket /\ stream' = stream /\ client' = client
        /\ \A q \in Payloads : q # p => payload'[q] = payload[q]
    BY <1>2 DEF Insert, plane, downloads, TypeOK
  <2>2. \A x \in Grants : ticket[x].store # NoStore => payload'[ticket[x].uri] = payload[ticket[x].uri]
    BY <2>1 DEF GrantsName
  <2>. QED BY <2>1, <2>2 DEF StreamsCount
<1>3. ASSUME NEW c \in Calls, NEW g \in Grants, NEW p \in Payloads, Authorize(c, g, p) PROVE StreamsCount'
  <2>1. /\ payload' = payload /\ stream' = stream /\ client' = client
        /\ \A x \in Grants : ticket[x].store # NoStore => ticket'[x] = ticket[x]
    BY <1>3 DEF Authorize, downloads, TypeOK
  <2>. QED BY <2>1 DEF StreamsCount
<1>4. ASSUME NEW c \in Calls, Leave(c) PROVE StreamsCount'
  BY <1>4 DEF Leave, stores, plane, downloads, StreamsCount
<1>5. ASSUME NEW d \in Downloads, StartDownload(d) PROVE StreamsCount'
  BY <1>5 DEF StartDownload, stores, downloads, StreamsCount
<1>18. ASSUME NEW d \in Downloads, NEW g \in Grants, LookUp(d, g) PROVE StreamsCount'
  <2>1. /\ payload' = payload /\ ticket' = ticket /\ stream' = stream /\ ~stream[d].open
        /\ \/ client' = client
           \/ /\ client'[d].saw = "refusal"
              /\ \A x \in Downloads : x # d => client'[x] = client[x]
    BY <1>18 DEF LookUp, stores, Readers, TypeOK
  <2>. QED BY <2>1 DEF StreamsCount
<1>6. ASSUME NEW d \in Downloads, PollEnd(d) PROVE StreamsCount'
  <2>1. /\ payload' = payload /\ ticket' = ticket
        /\ \A x \in Downloads : x # d => stream'[x] = stream[x] /\ client'[x] = client[x]
    BY <1>6 DEF PollEnd, stores, plane, TypeOK
  <2>2. /\ ~ stream'[d].open /\ client'[d].saw \in {"error", "end"} /\ client'[d].grant = client[d].grant
        /\ client'[d].saw = "end" => client[d].saw = "headers"
    BY <1>6 DEF PollEnd, NoStream, TypeOK, StreamsCount
  <2>. QED BY <2>1, <2>2 DEF StreamsCount
<1>7. ASSUME NEW d \in Downloads, PollLate(d) PROVE StreamsCount'
  <2>1. /\ payload' = payload /\ ticket' = ticket
        /\ \A x \in Downloads : x # d => stream'[x] = stream[x] /\ client'[x] = client[x]
    BY <1>7 DEF PollLate, stores, plane, TypeOK
  <2>2. client'[d].saw = "error"
    BY <1>7 DEF PollLate, TypeOK, StreamsCount
  <2>. QED BY <2>1, <2>2 DEF StreamsCount
<1>8. ASSUME NEW d \in Downloads, PollChunk(d) PROVE StreamsCount'
  <2>1. /\ payload' = payload /\ ticket' = ticket
        /\ \A x \in Downloads : x # d => stream'[x] = stream[x] /\ client'[x] = client[x]
    BY <1>8 DEF PollChunk, stores, plane, TypeOK
  <2>2. /\ stream[d].open /\ stream'[d].open /\ stream'[d].failed = stream[d].failed
        /\ client'[d].saw = client[d].saw /\ client'[d].grant = client[d].grant
        /\ client'[d].got + stream'[d].left = client[d].got + stream[d].left
    BY <1>8 DEF PollChunk, Drained, TypeOK, StreamsCount
  <2>. QED BY <2>1, <2>2 DEF StreamsCount
<1>9. ASSUME NEW d \in Downloads, HangUp(d) PROVE StreamsCount'
  <2>1. /\ payload' = payload /\ ticket' = ticket
        /\ \A x \in Downloads : x # d => stream'[x] = stream[x] /\ client'[x] = client[x]
    BY <1>9 DEF HangUp, stores, plane, TypeOK
  <2>2. ~ stream'[d].open /\ client'[d].saw = "error"
    BY <1>9 DEF HangUp, NoStream, TypeOK, StreamsCount
  <2>. QED BY <2>1, <2>2 DEF StreamsCount
<1>10. ASSUME NEW u \in Uploads, UploadStep(u) PROVE StreamsCount'
  BY <1>10 DEF UploadStep, UploadWaits, UploadTakesSlot, UploadEnds, stores, plane, downloads,
       TypeOK, StreamsCount
<1>11. ASSUME Sweep PROVE StreamsCount'
  BY <1>11 DEF Sweep, Swept, stores, downloads, TypeOK, StreamsCount
<1>12. ASSUME Tick PROVE StreamsCount'
  BY <1>12 DEF Tick, stores, plane, downloads, TypeOK, StreamsCount
<1>13. ASSUME NEW c \in Calls, Reclaim(c) PROVE StreamsCount'
  BY <1>13 DEF Reclaim, plane, downloads, StreamsCount
<1>14. ASSUME NEW c \in Calls, NEW s \in Stores, ReclaimStore(c, s) PROVE StreamsCount'
  BY <1>14 DEF ReclaimStore, plane, downloads, StreamsCount
<1>15. ASSUME NEW c \in Calls, Reclaimed(c) PROVE StreamsCount'
  BY <1>15 DEF Reclaimed, plane, downloads, StreamsCount
<1>16. ASSUME NEW d \in Downloads, ReadPayload(d) PROVE StreamsCount'
  <2>. DEFINE g == request[d].grant
  <2>1. /\ payload' = payload /\ ticket' = ticket
        /\ \A x \in Downloads : x # d => stream'[x] = stream[x] /\ client'[x] = client[x]
    BY <1>16 DEF ReadPayload, TypeOK
  <2>2. /\ g \in Grants /\ ticket[g].store # NoStore /\ ~stream[d].open
        /\ payload[ticket[g].uri].length \in Nat
    BY <1>16 DEF ReadPayload, TypeOK, Readers, GrantsName
  <2>3. \/ /\ stream' = [stream EXCEPT ![d] = [open |-> TRUE, left |-> payload[ticket[g].uri].length,
                                              failed |-> FALSE, deadline |-> clock + BodyTimeout]]
           /\ client' = [client EXCEPT ![d] = [grant |-> g, got |-> 0, saw |-> "headers"]]
        \/ stream' = stream /\ client' = [client EXCEPT ![d].saw = "refusal"]
    BY <1>16 DEF ReadPayload
  <2>. HIDE DEF g
  <2>. DEFINE opened == [open |-> TRUE, left |-> payload[ticket[g].uri].length,
                         failed |-> FALSE, deadline |-> clock + BodyTimeout]
              answered == [grant |-> g, got |-> 0, saw |-> "headers"]
  <2>4. CASE stream' = [stream EXCEPT ![d] = opened] /\ client' = [client EXCEPT ![d] = answered]
    <3>1. stream'[d] = opened /\ client'[d] = answered
      BY <2>4 DEF TypeOK
    <3>. QED BY <2>1, <2>2, <3>1 DEF StreamsCount
  <2>5. CASE stream' = stream /\ client' = [client EXCEPT ![d].saw = "refusal"]
    <3>1. stream'[d] = stream[d] /\ client'[d].saw = "refusal"
      BY <2>5 DEF TypeOK
    <3>. QED BY <2>1, <2>2, <3>1 DEF StreamsCount
  <2>. QED BY <2>3, <2>4, <2>5
<1>17. CASE UNCHANGED vars
  BY <1>17 DEF TypeOK, StreamsCount, vars, stores, plane, downloads
<1>. QED
  BY <1>1, <1>2, <1>3, <1>4, <1>5, <1>6, <1>7, <1>8, <1>9, <1>10, <1>11, <1>12, <1>13,
     <1>14, <1>15, <1>16, <1>17, <1>18
   DEF Next, CallStep, DownloadStep

(* A body that ends without an error was counted to its end, and nothing   *)
(* changes its payload's length afterwards.                                *)
LEMMA NextKeepsWhole ==
  TypeOK /\ GrantsName /\ StreamsCount /\ WholeOrFailed /\ [Next]_vars => WholeOrFailed'
<1>. SUFFICES ASSUME TypeOK, GrantsName, StreamsCount, WholeOrFailed, [Next]_vars,
                     NEW d \in Downloads, client'[d].saw = "end"
              PROVE  client'[d].got = payload'[ticket'[client'[d].grant].uri].length
  BY DEF WholeOrFailed
<1>. USE DownloadsAssumption
<1>1. \A g \in Grants : ticket[g].store # NoStore =>
        ticket'[g] = ticket[g] /\ payload'[ticket[g].uri] = payload[ticket[g].uri]
  <2>1. ASSUME NEW c \in Calls, NEW p \in Payloads, NEW n \in Chunks, Insert(c, p, n)
        PROVE  ticket' = ticket /\ \A q \in Payloads : payload[q].home # NoStore => payload'[q] = payload[q]
    BY <2>1 DEF Insert, plane, TypeOK
  <2>2. ASSUME NEW c \in Calls, NEW g \in Grants, NEW p \in Payloads, Authorize(c, g, p)
        PROVE  payload' = payload /\ \A x \in Grants : ticket[x].store # NoStore => ticket'[x] = ticket[x]
    BY <2>2 DEF Authorize, TypeOK
  <2>3. \/ payload' = payload /\ ticket' = ticket
        \/ \E c \in Calls, p \in Payloads, n \in Chunks : Insert(c, p, n)
        \/ \E c \in Calls, g \in Grants, p \in Payloads : Authorize(c, g, p)
    BY DEF Next, CallStep, DownloadStep, UploadStep, Enter, Leave, Reclaim, ReclaimStore, Reclaimed,
           StartDownload, LookUp, ReadPayload, PollEnd, PollLate, PollChunk, HangUp, UploadWaits,
           UploadTakesSlot, UploadEnds, Sweep, Tick, vars, stores, plane
  <2>. QED BY <2>1, <2>2, <2>3 DEF GrantsName
<1>2. \/ client'[d] = client[d]
      \/ /\ client[d].saw = "headers" /\ stream[d].left = 0 /\ client'[d].grant = client[d].grant
         /\ client'[d].got = client[d].got
  <2>1. ASSUME NEW x \in Downloads, StartDownload(x) PROVE client'[d] = client[d]
    BY <2>1 DEF StartDownload, downloads
  <2>7. ASSUME NEW x \in Downloads, NEW g \in Grants, LookUp(x, g) PROVE client'[d] = client[d]
    BY <2>7 DEF LookUp, TypeOK
  <2>2. ASSUME NEW x \in Downloads, PollLate(x) \/ HangUp(x) PROVE client'[d] = client[d]
    BY <2>2 DEF PollLate, HangUp, TypeOK
  <2>6. ASSUME NEW x \in Downloads, ReadPayload(x) PROVE client'[d] = client[d]
    BY <2>6 DEF ReadPayload, TypeOK
  <2>3. ASSUME NEW x \in Downloads, PollChunk(x) PROVE client'[d] = client[d]
    <3>1. CASE x = d
      <4>1. client'[d].saw = client[d].saw /\ stream[d].open
        BY <2>3, <3>1 DEF PollChunk, TypeOK
      <4>. QED BY <4>1 DEF StreamsCount
    <3>. QED BY <2>3, <3>1 DEF PollChunk, TypeOK
  <2>4. ASSUME NEW x \in Downloads, PollEnd(x)
        PROVE  \/ client'[d] = client[d]
               \/ /\ client[d].saw = "headers" /\ stream[d].left = 0 /\ client'[d].grant = client[d].grant
                  /\ client'[d].got = client[d].got
    <3>1. CASE x = d
      <4>1. /\ stream[d].open /\ Drained(d) /\ client[d].saw # "error"
            /\ client'[d].grant = client[d].grant /\ client'[d].got = client[d].got
        BY <2>4, <3>1 DEF PollEnd, TypeOK
      <4>. QED BY <4>1 DEF StreamsCount, Drained
    <3>. QED BY <2>4, <3>1 DEF PollEnd, TypeOK
  <2>5. \/ client' = client
        \/ \E x \in Downloads : DownloadStep(x)
    BY DEF Next, CallStep, UploadStep, Enter, Insert, Authorize, Leave, Reclaim, ReclaimStore,
           Reclaimed, UploadWaits, UploadTakesSlot, UploadEnds, Sweep, Tick, vars, downloads
  <2>. QED BY <2>1, <2>2, <2>3, <2>4, <2>5, <2>6, <2>7 DEF DownloadStep
<1>3. CASE client'[d] = client[d]
  <2>1. client[d].grant \in Grants /\ ticket[client[d].grant].store # NoStore
    BY <1>3 DEF StreamsCount
  <2>. QED BY <1>1, <1>3, <2>1 DEF WholeOrFailed
<1>4. CASE /\ client[d].saw = "headers" /\ stream[d].left = 0 /\ client'[d].grant = client[d].grant
           /\ client'[d].got = client[d].got
  <2>1. /\ client[d].grant \in Grants /\ ticket[client[d].grant].store # NoStore
        /\ client[d].got + stream[d].left = payload[ticket[client[d].grant].uri].length
    BY <1>4 DEF StreamsCount
  <2>2. client[d].got + stream[d].left = client[d].got
    BY <1>4 DEF TypeOK
  <2>. QED BY <1>1, <1>4, <2>1, <2>2
<1>. QED BY <1>2, <1>3, <1>4

-----------------------------------------------------------------------------
(* The invariant holds *)

(* Nothing is retained, granted or downloaded at first.                    *)
LEMMA InitEstablishes == Init => IInv
  BY DownloadsAssumption
   DEF Init, NoRequest, NoStream, Outside, IInv, TypeOK, Times, Homes, Places, HeldElsewhere, HeldByCall, HeldByReclaim,
       HeldByRead, GrantsName, Readers, StreamsCount, WholeOrFailed

(* No step breaks it.                                                      *)
LEMMA NextPreserves == IInv /\ [Next]_vars => IInv'
  BY NextKeepsTypes, NextKeepsHomes, NextKeepsPlaces, NextKeepsGrantsName, NextKeepsReaders,
     NextKeepsStreamsCount, NextKeepsWhole
     DEF IInv

(* Entries, calls, grants and streams stay in step (OwnerStores,           *)
(* FilePlane.downloads, DownloadStream).                                   *)
THEOREM InvariantHolds == Spec => []IInv
  BY InitEstablishes, NextPreserves, PTL DEF Spec

(* Every variable keeps its type (Downloads).                              *)
THEOREM TypeCorrect == Spec => []TypeOK
<1>1. IInv => TypeOK
  BY DEF IInv
<1>. QED BY <1>1, InvariantHolds, PTL

(* A body that ends without an error is the whole payload, of any length   *)
(* (DownloadStream::poll_next).                                            *)
THEOREM WholeOrFailedHolds == Spec => []WholeOrFailed
<1>1. IInv => WholeOrFailed
  BY DEF IInv
<1>. QED BY <1>1, InvariantHolds, PTL

-----------------------------------------------------------------------------
(* What a step may do *)

(* What GrantExtendsNothing says of a step.                                *)
StepExtendsNothing ==
  \A d \in Downloads :
    stream'[d].open /\ ~stream[d].open =>
      LET began == request[d].since
          t == ticket[client'[d].grant]
      IN /\ began - t.issued <= GrantTTL
         /\ began - payload[t.uri].at < PayloadTTL
         /\ payload[t.uri].home = t.store
         /\ \E o \in Owners : registered[o] = t.store

(* Only ReadPayload opens a stream, of a payload it just found live in a   *)
(* store that the download has held since it looked its grant up.          *)
LEMMA OpeningIsLive ==
  ASSUME IInv, Next, NEW d \in Downloads, stream'[d].open, ~ stream[d].open
  PROVE  LET began == request[d].since
             t == ticket[client'[d].grant]
         IN /\ began - t.issued <= GrantTTL
            /\ began - payload[t.uri].at < PayloadTTL
            /\ payload[t.uri].home = t.store
            /\ \E o \in Owners : registered[o] = t.store
<1>. USE DownloadsAssumption
<1>1. \E x \in Downloads : \/ PollEnd(x) \/ PollLate(x) \/ PollChunk(x) \/ HangUp(x)
                          \/ ReadPayload(x)
  BY DEF Next, CallStep, DownloadStep, UploadStep, Enter, Insert, Authorize, Leave, Reclaim,
         ReclaimStore, Reclaimed, StartDownload, LookUp, UploadWaits, UploadTakesSlot, UploadEnds,
         Sweep, Tick, downloads
<1>2. ASSUME NEW x \in Downloads, PollEnd(x) \/ PollLate(x) \/ PollChunk(x) \/ HangUp(x) PROVE FALSE
  <2>1. stream[x].open
    BY <1>2 DEF PollEnd, PollLate, PollChunk, HangUp
  <2>2. x # d
    BY <2>1
  <2>. QED BY <1>2, <2>2 DEF PollEnd, PollLate, PollChunk, HangUp, IInv, TypeOK
<1>3. ASSUME NEW x \in Downloads, ReadPayload(x) PROVE x = d
  BY <1>3 DEF ReadPayload, IInv, TypeOK
<1>4. ReadPayload(d)
  BY <1>1, <1>2, <1>3
<1>. DEFINE g == request[d].grant
<1>5. PICK time \in request[d].since .. clock : Readable(g, time) /\ client'[d].grant = g
  BY <1>4 DEF ReadPayload, IInv, TypeOK
<1>6. /\ g \in Grants /\ ticket[g].store \in Stores
      /\ ticket[g].uri \in Payloads /\ payload[ticket[g].uri].home = ticket[g].store
      /\ request[d].since - ticket[g].issued <= GrantTTL
  BY <1>4 DEF ReadPayload, IInv, Readers, GrantsName, TypeOK
<1>7. request[d].since - payload[ticket[g].uri].at < PayloadTTL
  <2>1. time - payload[ticket[g].uri].at < PayloadTTL
    BY <1>5 DEF Readable, EntriesAt, LiveAt
  <2>2. request[d].since <= time /\ time \in Int /\ request[d].since \in Int
        /\ payload[ticket[g].uri].at \in Int
    BY <1>5, <1>6 DEF IInv, TypeOK, Times
  <2>. QED BY <2>1, <2>2
<1>8. HeldElsewhere(ticket[g].store)
  BY <1>4 DEF ReadPayload, HeldElsewhere, HeldByRead
<1>9. \E o \in Owners : registered[o] = ticket[g].store
  BY <1>6, <1>8 DEF IInv, Places, Registered
<1>. QED BY <1>5, <1>6, <1>7, <1>9

(* A step extends nothing.                                                 *)
LEMMA StepOpensLive == IInv /\ [Next]_vars => [StepExtendsNothing]_vars
  BY OpeningIsLive DEF StepExtendsNothing

(* No download begins after its payload, its grant or its identity's store *)
(* is gone (read_download, send_download).                                 *)
THEOREM GrantExtendsNothingHolds == Spec => GrantExtendsNothing
<1>1. Spec => [][StepExtendsNothing]_vars
  BY InvariantHolds, StepOpensLive, PTL DEF Spec
<1>. QED BY <1>1 DEF GrantExtendsNothing, StepExtendsNothing

(* What GrantsPinNoPlace says of a step.                                   *)
StepPinsNothing ==
  \A c \in Calls :
    call'[c].at = "refused" /\ call[c].at = "idle" =>
      \A o, q \in {x \in Owners : registered'[x] # NoStore /\ ~Entitled(x)} :
        o = q /\ HeldByRead(registered[o])

(* A place that outlives a refusal is its identity's own, or read.         *)
LEMMA KeptPlaces ==
  ASSUME IInv, Next, NEW c \in Calls, call'[c].at = "refused", call[c].at = "idle",
         NEW o \in Owners, registered'[o] # NoStore, ~Entitled(o)
  PROVE  registered[o] \in Stores /\ HeldByRead(registered[o])
<1>. USE DownloadsAssumption
<1>1. \E q \in Owners : Enter(c, q)
  <2>1. \E x \in Calls : \/ Leave(x) \/ Reclaim(x) \/ Reclaimed(x)
                         \/ \E s \in Stores : ReclaimStore(x, s)
                         \/ \E q \in Owners : Enter(x, q)
    BY DEF Next, CallStep, DownloadStep, UploadStep, Insert, Authorize, StartDownload, LookUp, ReadPayload,
           PollEnd, PollLate, PollChunk, HangUp, UploadWaits, UploadTakesSlot, UploadEnds, Sweep, Tick
  <2>2. ASSUME NEW x \in Calls, Leave(x) PROVE FALSE
    BY <2>2 DEF Leave, Outside, IInv, TypeOK
  <2>3. ASSUME NEW x \in Calls, Reclaim(x) PROVE FALSE
    BY <2>3 DEF Reclaim, IInv, TypeOK
  <2>4. ASSUME NEW x \in Calls, Reclaimed(x) PROVE FALSE
    BY <2>4 DEF Reclaimed, IInv, TypeOK
  <2>5. ASSUME NEW x \in Calls, NEW s \in Stores, ReclaimStore(x, s) PROVE FALSE
    BY <2>5 DEF ReclaimStore, IInv, TypeOK
  <2>6. ASSUME NEW x \in Calls, NEW q \in Owners, Enter(x, q) PROVE x = c
    BY <2>6 DEF Enter, IInv, TypeOK
  <2>. QED BY <2>1, <2>2, <2>3, <2>4, <2>5, <2>6
<1>2. PICK q \in Owners : Enter(c, q)
  BY <1>1
<1>3. /\ registered[o] \in Stores
      /\ HeldElsewhere(registered[o]) \/ LiveEntries(registered[o]) # {}
  BY <1>2 DEF Enter, Inside, IInv, TypeOK
<1>4. CASE HeldElsewhere(registered[o])
  BY <1>3, <1>4 DEF HeldElsewhere, Entitled
<1>5. CASE LiveEntries(registered[o]) # {}
  <2>1. PICK p \in LiveEntries(registered[o]) : TRUE
    BY <1>5
  <2>2. p \in Payloads /\ payload[p].home = registered[o] /\ clock - payload[p].at < PayloadTTL
    BY <1>3, <2>1 DEF LiveEntries, EntriesAt, LiveAt, IInv, Homes, TypeOK
  <2>. QED BY <2>2 DEF Entitled
<1>. QED BY <1>3, <1>4, <1>5

(* The one place that a read keeps is that of the one read in progress.    *)
LEMMA StepKeepsPlaces == IInv /\ [Next]_vars => [StepPinsNothing]_vars
<1>. SUFFICES ASSUME IInv, Next, NEW c \in Calls, call'[c].at = "refused", call[c].at = "idle",
                     NEW o \in Owners, registered'[o] # NoStore, ~Entitled(o),
                     NEW q \in Owners, registered'[q] # NoStore, ~Entitled(q)
              PROVE  o = q /\ HeldByRead(registered[o])
  BY DEF StepPinsNothing
<1>. USE DownloadsAssumption
<1>1. /\ registered[o] \in Stores /\ HeldByRead(registered[o])
      /\ registered[q] \in Stores /\ HeldByRead(registered[q])
  BY KeptPlaces
<1>2. registered[o] = registered[q]
  BY <1>1 DEF HeldByRead, IInv, Readers
<1>. QED BY <1>1, <1>2 DEF IInv, Places

(* Neither grants nor downloads keep an identity's place, but for the one  *)
(* read in progress (OwnerStores::get, the weak reference of a grant).     *)
THEOREM GrantsPinNoPlaceHolds == Spec => GrantsPinNoPlace
<1>1. Spec => [][StepPinsNothing]_vars
  BY InvariantHolds, StepKeepsPlaces, PTL DEF Spec
<1>. QED BY <1>1 DEF GrantsPinNoPlace, StepPinsNothing
=============================================================================
