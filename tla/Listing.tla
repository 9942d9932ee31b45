------------------------------- MODULE Listing -------------------------------
(***************************************************************************)
(* Paged listings of an identity's retained payloads (page_at and expire   *)
(* of resources.rs, list_resources_page of lib.rs).                        *)
(*                                                                         *)
(* Clients walk the store page by page, newest payload first, each page    *)
(* resumed after the last payload of the one before, while calls insert    *)
(* payloads, the store evicts the oldest ones and lifetimes end.  A cursor *)
(* that names no entry any more is read as no cursor.                      *)
(***************************************************************************)
EXTENDS Recency, Sequences, FiniteSetsExt

CONSTANTS
  Walks,        \* clients that list the store, once each
  PageSize,     \* RESOURCE_PAGE_SIZE
  MaxEntries,   \* payloads the store holds before an insert evicts the oldest
  TTL,          \* time_to_live
  MaxId,        \* bound on the payloads inserted
  MaxTime,      \* bound on the clock
  NoCursor

VARIABLES
  clock,
  order,      \* State.order and State.entries: of each entry its sequence and stored_at
  nextId,     \* next_sequence
  walk,       \* each client: its cursor and the pages it was shown
  present     \* history: the payloads that were live when each walk began

vars == <<clock, order, nextId, walk, present>>

Init ==
  /\ clock = 0 /\ order = {} /\ nextId = 1
  /\ walk = [w \in Walks |-> [at |-> "idle", cursor |-> NoCursor, shown |-> <<>>,
                              restarted |-> FALSE]]
  /\ present = [w \in Walks |-> {}]

(* The clock is read before the lock is taken, and may lag behind it.      *)
Readings == {clock - 1, clock} \cap Nat

Ids(entries) == {e.id : e \in entries}

(* expire: the oldest go whose lifetime has elapsed, up to the first live  *)
(* one.                                                                    *)
Expire(entries, now) == {e \in entries : \E l \in entries : l.id <= e.id /\ now - l.at < TTL}

Oldest(entries) == {e \in entries : \A f \in entries : e.id <= f.id}
Newest(entries) == {e \in entries : \A f \in entries : f.id <= e.id}

(* insert_at: the oldest entry goes if there is no room, and an entry is   *)
(* never older than the one before it.                                     *)
Insert ==
  /\ nextId <= MaxId
  /\ \E now \in Readings :
       LET live == Expire(order, now)
           room == IF Cardinality(live) < MaxEntries THEN live ELSE live \ Oldest(live)
           at == Max({now} \cup {e.at : e \in Newest(room)})
       IN order' = room \cup {[id |-> nextId, at |-> at]}
  /\ nextId' = nextId + 1
  /\ UNCHANGED <<clock, walk, present>>

(* The entries older than the cursor's; all of them if the cursor names no *)
(* entry.                                                                  *)
Candidates(entries, cursor) ==
  IF cursor \in Ids(entries) THEN {e \in entries : e.id < cursor} ELSE entries

(* Mutant: the cursor is the entry past the page that proves more remain.  *)
CursorPastPage(candidates) ==
  IF Cardinality(candidates) > PageSize THEN Min(Ids(Slice(candidates, 0, PageSize + 1))) ELSE NoCursor

(* One entry past the page proves that more remain.                        *)
CursorAfter(candidates) ==
  IF Cardinality(candidates) > PageSize THEN Min(Ids(Slice(candidates, 0, PageSize))) ELSE NoCursor

ReadPage(w) ==
  /\ walk[w].at # "done"
  /\ \E now \in Readings :
       LET live == Expire(order, now)
           cursor == walk[w].cursor
           candidates == Candidates(live, cursor)
           next == CursorAfter(candidates)
       IN /\ order' = live
          /\ walk' = [walk EXCEPT ![w] =
               [at |-> IF next = NoCursor THEN "done" ELSE "walking",
                cursor |-> next,
                shown |-> Append(@.shown, Ids(Slice(candidates, 0, PageSize))),
                restarted |-> @.restarted \/ (cursor # NoCursor /\ cursor \notin Ids(live))]]
          /\ present' = IF walk[w].at = "idle" THEN [present EXCEPT ![w] = Ids(live)] ELSE present
  /\ UNCHANGED <<clock, nextId>>

(* read_at: any read of the store expires what has had its time.           *)
Read ==
  /\ Expire(order, clock) # order
  /\ order' = Expire(order, clock)
  /\ UNCHANGED <<clock, nextId, walk, present>>

Tick ==
  /\ clock < MaxTime
  /\ clock' = clock + 1
  /\ UNCHANGED <<order, nextId, walk, present>>

Next == Insert \/ (\E w \in Walks : ReadPage(w)) \/ Read \/ Tick

Spec == Init /\ [][Next]_vars

-----------------------------------------------------------------------------
(* Properties *)

(* A finished walk was shown every payload that was retained when it began *)
(* and still is, whatever was inserted, evicted or expired between its     *)
(* pages, and whether or not its cursor survived.  If all its cursors did, *)
(* each page was older than the one before it, so nothing came twice; a    *)
(* cursor whose entry is gone, and with it all that was older, starts the  *)
(* walk again.                                                             *)
NothingMissed ==
  [][\A w \in Walks :
       walk'[w].at = "done" /\ walk[w].at # "done" =>
         LET shown == walk'[w].shown
         IN /\ present'[w] \cap Ids(order') \subseteq UNION {shown[i] : i \in DOMAIN shown}
            /\ walk'[w].restarted \/ \A i, j \in DOMAIN shown :
                                     i < j => \A a \in shown[i], b \in shown[j] : a > b]_vars
=============================================================================
