------------------------------ MODULE Downloads ------------------------------
(***************************************************************************)
(* Grants to download a retained payload (files/downloads.rs, the download *)
(* route of server.rs and the custom request of lib.rs), over the stores   *)
(* of the identities (owners.rs).                                          *)
(*                                                                         *)
(* A call of an identity authorizes the download of one payload of its own *)
(* store.  The grant names the store weakly, and may be used by many HTTP  *)
(* requests until it expires.  Each request takes a body slot, or is       *)
(* refused at once, sweeps the grants, looks its own up and reads the      *)
(* payload again: it holds the store and the lock of the grants from the   *)
(* lookup to the read.  Then it streams the payload in chunks: the stream  *)
(* holds the payload's bytes and the slot until it is dropped.             *)
(*                                                                         *)
(* A store is what RetainedStore refines: here a set of payloads with a    *)
(* lifetime, and a shared budget that may refuse any insertion, which then *)
(* holds every store while it expires them.  Uploads only matter for the   *)
(* slots they share with downloads.                                        *)
(***************************************************************************)
EXTENDS Integers, FiniteSets

CONSTANTS
  Owners,          \* identities
  Stores,          \* every store ever created for an identity
  Payloads,        \* every payload ever retained, its URI random
  Grants,          \* every grant ever issued, its identifier random
  Calls,           \* concurrent calls of authenticated identities
  Downloads,       \* HTTP downloads
  Uploads,         \* HTTP uploads
  Chunks,          \* the lengths of payloads, in chunks of 64 KiB
  MaxOwners,       \* MAX_OWNERS
  MaxEntries,      \* payloads a store holds before it evicts the oldest
  MaxOutstanding,  \* MAX_OUTSTANDING
  Slots,           \* body slots of the file routes
  PayloadTTL, GrantTTL, BodyTimeout,
  MaxTime,         \* bound on the clock
  NoStore, NoOne

ASSUME DownloadsAssumption ==
  /\ {MaxOwners, MaxEntries, MaxOutstanding, Slots, PayloadTTL, GrantTTL, BodyTimeout, MaxTime}
       \subseteq Nat
  /\ Chunks \subseteq Nat
  /\ NoStore \notin Stores /\ NoOne \notin Owners \cup Payloads \cup Grants

VARIABLES
  clock,
  registered,   \* OwnerStores.stores: the store of an identity, or NoStore
  entries,      \* the payloads each store has an entry for
  payload,      \* of each payload: its store, when it was retained, its length
  call,         \* the store a call's server holds, and those its insertion expires
  grants,       \* FilePlane.downloads: the identifiers with a ticket
  ticket,       \* of each grant: its store, payload, issue and expiry
  request,      \* a download without an answer: since when, and the grant it reads
  stream,       \* DownloadStream of each download: what is left, failed, deadline
  client,       \* what the downloading client has seen
  upload        \* what each upload is doing, and until when it waits

stores == <<registered, entries, payload>>
plane == <<grants, ticket, request>>
downloads == <<stream, client>>
vars == <<clock, stores, call, plane, downloads, upload>>

Times == 0 .. MaxTime

(* A call without a store, and one that has got its store.                 *)
Outside(at) == [at |-> at, store |-> NoStore, held |-> {}]
Inside(s) == [at |-> "running", store |-> s, held |-> {}]

NoRequest == [at |-> "none", grant |-> NoOne, since |-> 0]
NoStream == [open |-> FALSE, left |-> 0, failed |-> FALSE, deadline |-> 0]

(* Types (OwnerStores, ResourceStore, FilePlane.downloads, DownloadStream). *)
TypeOK ==
  /\ clock \in Times
  /\ registered \in [Owners -> Stores \cup {NoStore}]
  /\ entries \in [Stores -> SUBSET Payloads]
  /\ payload \in [Payloads -> [home : Stores \cup {NoStore}, at : Times, length : Nat]]
  /\ call \in [Calls -> [at : {"idle", "running", "reclaiming", "refused"},
                          store : Stores \cup {NoStore}, held : SUBSET Stores]]
  /\ grants \subseteq Grants
  /\ ticket \in [Grants -> [store : Stores \cup {NoStore}, uri : Payloads \cup {NoOne},
                            issued : Times, expires : Nat]]
  /\ request \in [Downloads -> [at : {"none", "swept", "reading"}, grant : Grants \cup {NoOne},
                                since : Times]]
  /\ stream \in [Downloads -> [open : BOOLEAN, left : Nat, failed : BOOLEAN, deadline : Nat]]
  /\ client \in [Downloads -> [grant : Grants \cup {NoOne}, got : Nat,
                               saw : {"nothing", "headers", "refusal", "end", "error"}]]
  /\ upload \in [Uploads -> [at : {"idle", "waiting", "reading"}, until : Nat]]

Init ==
  /\ clock = 0
  /\ registered = [o \in Owners |-> NoStore]
  /\ entries = [s \in Stores |-> {}]
  /\ payload = [p \in Payloads |-> [home |-> NoStore, at |-> 0, length |-> 0]]
  /\ call = [c \in Calls |-> Outside("idle")]
  /\ grants = {}
  /\ ticket = [g \in Grants |-> [store |-> NoStore, uri |-> NoOne, issued |-> 0, expires |-> 0]]
  /\ request = [d \in Downloads |-> NoRequest]
  /\ stream = [d \in Downloads |-> NoStream]
  /\ client = [d \in Downloads |-> [grant |-> NoOne, got |-> 0, saw |-> "nothing"]]
  /\ upload = [u \in Uploads |-> [at |-> "idle", until |-> 0]]

-----------------------------------------------------------------------------
(* The stores of the identities *)

LiveAt(p, time) == time - payload[p].at < PayloadTTL
EntriesAt(s, time) == {p \in entries[s] : LiveAt(p, time)}
LiveEntries(s) == EntriesAt(s, clock)

Registered(s) == \E o \in Owners : registered[o] = s

(* A store is held by the server of a call, by the insertion that expires  *)
(* it (reclaim_expired), and by the download that reads it (read_download).*)
HeldByCall(s) == \E c \in Calls : call[c].store = s
HeldByReclaim(s) == \E c \in Calls : s \in call[c].held
HeldByRead(s) ==
  \E d \in Downloads : request[d].at = "reading" /\ ticket[request[d].grant].store = s

(* Mutant: a grant holds the store it names.                               *)
StrongCountWithGrants(s) ==
  \/ HeldByCall(s) \/ HeldByReclaim(s) \/ HeldByRead(s)
  \/ \E g \in grants : ticket[g].store = s

(* Arc::strong_count(store) > 1: somebody but the registry holds it.       *)
HeldElsewhere(s) == HeldByCall(s) \/ HeldByReclaim(s) \/ HeldByRead(s)

(* No insertion has the store's entries locked while it expires others.    *)
Unlocked(s) == \A c \in Calls : call[c].at = "reclaiming" => call[c].store # s

(* Weak::upgrade *)
Upgrades(s) == Registered(s) \/ HeldElsewhere(s)

(* get: the store of the identity, or a new one if, once idle empty stores *)
(* are dropped, there is a place.                                          *)
Enter(c, o) ==
  /\ call[c].at = "idle"
  /\ IF registered[o] # NoStore
     THEN /\ call' = [call EXCEPT ![c] = Inside(registered[o])]
          /\ UNCHANGED <<registered, entries>>
     ELSE LET kept == [x \in Owners |->
                         IF registered[x] # NoStore
                            /\ (HeldElsewhere(registered[x]) \/ LiveEntries(registered[x]) # {})
                         THEN registered[x] ELSE NoStore]
              swept == [s \in Stores |-> IF Registered(s) /\ ~HeldElsewhere(s)
                                         THEN LiveEntries(s) ELSE entries[s]]
          IN IF Cardinality({x \in Owners : kept[x] # NoStore}) < MaxOwners
             THEN \E s \in {x \in Stores : ~Upgrades(x) /\ \A p \in Payloads : payload[p].home # x
                                            /\ \A g \in Grants : ticket[g].store # x} :
                    /\ registered' = [kept EXCEPT ![o] = s]
                    /\ call' = [call EXCEPT ![c] = Inside(s)]
                    /\ entries' = swept
             ELSE /\ registered' = kept
                  /\ call' = [call EXCEPT ![c] = Outside("refused")]
                  /\ entries' = swept
  /\ UNCHANGED <<clock, payload, plane, downloads, upload>>

(* insert: expired entries go, then the oldest if the store is full.       *)
Insert(c, p, n) ==
  LET s == call[c].store
      live == LiveEntries(s)
  IN /\ call[c].at = "running" /\ Unlocked(s)
     /\ payload[p].home = NoStore
     /\ \E evicted \in SUBSET live :
          /\ Cardinality(live) - Cardinality(evicted) < MaxEntries
          /\ Cardinality(evicted) <= 1
          /\ evicted # {} => Cardinality(live) >= MaxEntries
          /\ \A e \in evicted, k \in live : payload[e].at <= payload[k].at
          /\ entries' = [entries EXCEPT ![s] = (live \ evicted) \cup {p}]
     /\ payload' = [payload EXCEPT ![p] = [home |-> s, at |-> clock, length |-> n]]
     /\ UNCHANGED <<clock, registered, call, plane, downloads, upload>>

(* An insertion that the shared budget refuses: it expires its own store,  *)
(* which its call holds and it has locked, and takes hold of every other.  *)
Reclaim(c) ==
  LET s == call[c].store
  IN /\ call[c].at = "running" /\ Unlocked(s)
     /\ call' = [call EXCEPT ![c].at = "reclaiming", ![c].held = {x \in Stores \ {s} : Upgrades(x)}]
     /\ entries' = [entries EXCEPT ![s] = LiveEntries(s)]
     /\ UNCHANGED <<clock, registered, payload, plane, downloads, upload>>

(* It expires one of them, by the clock it began with, unless an insertion *)
(* has it locked, and lets go of it.                                       *)
ReclaimStore(c, s) ==
  /\ s \in call[c].held
  /\ call' = [call EXCEPT ![c].held = @ \ {s}]
  /\ \E gone \in SUBSET (entries[s] \ LiveEntries(s)) :
       /\ gone # {} => Unlocked(s)
       /\ entries' = [entries EXCEPT ![s] = @ \ gone]
  /\ UNCHANGED <<clock, registered, payload, plane, downloads, upload>>

(* It evicts its own oldest entries until the budget admits the payload,   *)
(* which is Insert, or nothing is left to evict.                           *)
Reclaimed(c) ==
  LET s == call[c].store
  IN /\ call[c].at = "reclaiming" /\ call[c].held = {}
     /\ call' = [call EXCEPT ![c].at = "running"]
     /\ \E evicted \in SUBSET entries[s] :
          /\ \A e \in evicted, k \in entries[s] \ evicted : payload[e].at <= payload[k].at
          /\ entries' = [entries EXCEPT ![s] = @ \ evicted]
     /\ UNCHANGED <<clock, registered, payload, plane, downloads, upload>>

Leave(c) ==
  /\ call[c].at \in {"running", "refused"}
  /\ call' = [call EXCEPT ![c] = Outside("idle")]
  /\ UNCHANGED <<clock, stores, plane, downloads, upload>>

-----------------------------------------------------------------------------
(* Grants *)

Swept == {g \in grants : clock <= ticket[g].expires}

(* The lock of the grants is free.                                         *)
NoReader == \A d \in Downloads : request[d].at # "reading"

(* authorize_download: the sweep, the payload as its owner's store has it, *)
(* and a ticket if there is room.                                          *)
Authorize(c, g, p) ==
  LET s == call[c].store
  IN /\ call[c].at = "running" /\ NoReader /\ Unlocked(s)
     /\ ticket[g].store = NoStore
     /\ entries' = [entries EXCEPT ![s] = LiveEntries(s)]
     /\ IF p \in LiveEntries(s) /\ Cardinality(Swept) < MaxOutstanding
        THEN /\ grants' = Swept \cup {g}
             /\ ticket' = [ticket EXCEPT ![g] = [store |-> s, uri |-> p, issued |-> clock,
                                                 expires |-> clock + GrantTTL]]
        ELSE grants' = Swept /\ UNCHANGED ticket
     /\ UNCHANGED <<clock, registered, payload, call, request, downloads, upload>>

(* The expiry worker and the authorizations of uploads sweep as well.      *)
Sweep ==
  /\ NoReader
  /\ grants # Swept
  /\ grants' = Swept
  /\ UNCHANGED <<clock, stores, call, ticket, request, downloads, upload>>

TakenSlots == Cardinality({d \in Downloads : stream[d].open \/ request[d].at # "none"})
              + Cardinality({u \in Uploads : upload[u].at = "reading"})

(* send_download: a slot, or busy; then read_download sweeps.              *)
StartDownload(d) ==
  /\ client[d].saw = "nothing" /\ request[d].at = "none" /\ ~stream[d].open
  /\ TakenSlots < Slots
  /\ NoReader
  /\ grants' = Swept
  /\ request' = [request EXCEPT ![d] = [at |-> "swept", grant |-> NoOne, since |-> clock]]
  /\ UNCHANGED <<clock, stores, call, ticket, downloads, upload>>

(* The grant is there and its store still exists, which the download then  *)
(* holds, and the lock of the grants with it; or it is refused.            *)
LookUp(d, g) ==
  /\ request[d].at = "swept" /\ NoReader
  /\ IF g \in grants /\ Upgrades(ticket[g].store)
     THEN /\ request' = [request EXCEPT ![d].at = "reading", ![d].grant = g]
          /\ UNCHANGED client
     ELSE /\ request' = [request EXCEPT ![d] = NoRequest]
          /\ client' = [client EXCEPT ![d].saw = "refusal"]
  /\ UNCHANGED <<clock, stores, call, grants, ticket, stream, upload>>

(* Mutant: the payload is taken from the entry without expiring the store. *)
ReadableStale(g, time) == ticket[g].uri \in entries[ticket[g].store]

(* The store still has the payload.                                        *)
Readable(g, time) == ticket[g].uri \in EntriesAt(ticket[g].store, time)

(* The clock is read before the lock of the store is waited for; then both *)
(* are let go, and the answer is the payload's stream.                     *)
ReadPayload(d) ==
  LET g == request[d].grant
      s == ticket[g].store
  IN /\ request[d].at = "reading" /\ Unlocked(s)
     /\ request' = [request EXCEPT ![d] = NoRequest]
     /\ \E time \in request[d].since .. clock :
          /\ entries' = [entries EXCEPT ![s] = EntriesAt(s, time)]
          /\ IF Readable(g, time)
             THEN /\ stream' = [stream EXCEPT ![d] = [open |-> TRUE,
                                  left |-> payload[ticket[g].uri].length, failed |-> FALSE,
                                  deadline |-> clock + BodyTimeout]]
                  /\ client' = [client EXCEPT ![d] = [grant |-> g, got |-> 0, saw |-> "headers"]]
             ELSE client' = [client EXCEPT ![d].saw = "refusal"] /\ UNCHANGED stream
     /\ UNCHANGED <<clock, registered, payload, call, grants, ticket, upload>>

-----------------------------------------------------------------------------
(* DownloadStream::poll_next, called when the client's connection has room *)

Drained(d) == stream[d].failed \/ stream[d].left = 0

(* Nothing is left to send: the stream ends and is dropped.                *)
PollEnd(d) ==
  /\ stream[d].open /\ Drained(d)
  /\ stream' = [stream EXCEPT ![d] = NoStream]
  /\ client' = [client EXCEPT ![d].saw = IF @ = "error" THEN "error" ELSE "end"]
  /\ UNCHANGED <<clock, stores, call, plane, upload>>

(* Mutant: past the deadline the stream is emptied without an error.       *)
PollLateSilently(d) ==
  /\ stream[d].open /\ ~Drained(d) /\ clock >= stream[d].deadline
  /\ stream' = [stream EXCEPT ![d].failed = TRUE, ![d].left = 0]
  /\ UNCHANGED <<clock, stores, call, plane, client, upload>>

PollLate(d) ==
  /\ stream[d].open /\ ~Drained(d) /\ clock >= stream[d].deadline
  /\ stream' = [stream EXCEPT ![d].failed = TRUE, ![d].left = 0]
  /\ client' = [client EXCEPT ![d].saw = "error"]
  /\ UNCHANGED <<clock, stores, call, plane, upload>>

PollChunk(d) ==
  /\ stream[d].open /\ ~Drained(d) /\ clock < stream[d].deadline
  /\ stream' = [stream EXCEPT ![d].left = @ - 1]
  /\ client' = [client EXCEPT ![d].got = @ + 1]
  /\ UNCHANGED <<clock, stores, call, plane, upload>>

(* The client's connection ends, and the stream is dropped with it.        *)
HangUp(d) ==
  /\ stream[d].open
  /\ stream' = [stream EXCEPT ![d] = NoStream]
  /\ client' = [client EXCEPT ![d].saw = "error"]
  /\ UNCHANGED <<clock, stores, call, plane, upload>>

-----------------------------------------------------------------------------
(* Uploads wait for a slot, where downloads do not, and for the body, both *)
(* no longer than the deadline; how and when they end is FilePlane's.      *)

UploadWaits(u) ==
  /\ upload[u].at = "idle"
  /\ upload' = [upload EXCEPT ![u] = [at |-> "waiting", until |-> clock + BodyTimeout]]
  /\ UNCHANGED <<clock, stores, call, plane, downloads>>

UploadTakesSlot(u) ==
  /\ upload[u].at = "waiting" /\ clock <= upload[u].until
  /\ TakenSlots < Slots
  /\ upload' = [upload EXCEPT ![u] = [at |-> "reading", until |-> clock + BodyTimeout]]
  /\ UNCHANGED <<clock, stores, call, plane, downloads>>

UploadEnds(u) ==
  /\ upload[u].at # "idle"
  /\ upload' = [upload EXCEPT ![u] = [at |-> "idle", until |-> 0]]
  /\ UNCHANGED <<clock, stores, call, plane, downloads>>

(* Timers fire on time; only a client decides when its stream is polled.   *)
Tick ==
  /\ clock < MaxTime
  /\ \A u \in Uploads : upload[u].at # "idle" => clock < upload[u].until
  /\ clock' = clock + 1
  /\ UNCHANGED <<stores, call, plane, downloads, upload>>

-----------------------------------------------------------------------------

CallStep(c) ==
  \/ \E o \in Owners : Enter(c, o)
  \/ \E p \in Payloads, n \in Chunks : Insert(c, p, n)
  \/ \E g \in Grants, p \in Payloads : Authorize(c, g, p)
  \/ Reclaim(c) \/ Reclaimed(c)
  \/ \E s \in Stores : ReclaimStore(c, s)
  \/ Leave(c)

DownloadStep(d) ==
  \/ StartDownload(d) \/ ReadPayload(d)
  \/ \E g \in Grants : LookUp(d, g)
  \/ PollEnd(d) \/ PollLate(d) \/ PollChunk(d) \/ HangUp(d)

UploadStep(u) == UploadWaits(u) \/ UploadTakesSlot(u) \/ UploadEnds(u)

Next ==
  \/ \E c \in Calls : CallStep(c)
  \/ \E d \in Downloads : DownloadStep(d)
  \/ \E u \in Uploads : UploadStep(u)
  \/ Sweep \/ Tick

Spec == Init /\ [][Next]_vars

-----------------------------------------------------------------------------
(* Properties *)

(* A client that sees a body end without an error has the whole payload,   *)
(* whatever became of its entry, its store and its grant since the         *)
(* download began, and however slowly it read: the deadline shows as an    *)
(* error, never as a shorter body.                                         *)
WholeOrFailed ==
  \A d \in Downloads :
    client[d].saw = "end" => client[d].got = payload[ticket[client[d].grant].uri].length

(* A grant extends no lifetime: no download begins with a grant or of a    *)
(* payload that had expired when its request began, nor in a store that    *)
(* has lost its place; a new store of the same identity revives no grant.  *)
GrantExtendsNothing ==
  [][\A d \in Downloads :
       stream'[d].open /\ ~stream[d].open =>
         LET began == request[d].since
             t == ticket[client'[d].grant]
         IN /\ began - t.issued <= GrantTTL
            /\ began - payload[t.uri].at < PayloadTTL
            /\ payload[t.uri].home = t.store
            /\ \E o \in Owners : registered[o] = t.store]_vars

(* An identity's place is its own while a call of it is in progress, a     *)
(* payload of it is within its lifetime, or an insertion expires its store.*)
Entitled(o) ==
  \/ HeldByCall(registered[o]) \/ HeldByReclaim(registered[o])
  \/ \E p \in Payloads : payload[p].home = registered[o] /\ clock - payload[p].at < PayloadTTL

(* Neither a grant nor a stalled download keeps the place of an identity:  *)
(* when a new one is refused, each of the others is entitled to its place, *)
(* but for at most one, the store of which is being read by a download     *)
(* that has no answer yet.                                                 *)
GrantsPinNoPlace ==
  [][\A c \in Calls :
       call'[c].at = "refused" /\ call[c].at = "idle" =>
         \A o, q \in {x \in Owners : registered'[x] # NoStore /\ ~Entitled(x)} :
           o = q /\ HeldByRead(registered[o])]_vars
=============================================================================
