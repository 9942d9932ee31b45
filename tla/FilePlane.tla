------------------------------ MODULE FilePlane ------------------------------
(***************************************************************************)
(* Single-use uploads of secrets (files.rs and the upload route of         *)
(* server.rs).  A tool call authorizes an upload and gets a ticket; the    *)
(* ticket's holder sends the body over HTTP, which consumes the ticket and *)
(* stages the body; a later tool call takes the staged secret.  Tickets    *)
(* and staged bodies live in two maps with a lock each, both swept by      *)
(* authorizations and by an expiry worker.                                 *)
(*                                                                         *)
(* A transfer that presents the wrong credential changes nothing and is    *)
(* left out, but for one that verify_upload and receive refuse before they *)
(* look at the expiry.  Of a body it matters whether it agrees with the    *)
(* ticket's size and digest and whether it is usable as a secret.          *)
(*                                                                         *)
(* The map of staged bodies is only ever locked for one step.  The map of  *)
(* tickets is locked for two when a body is staged.                        *)
(***************************************************************************)
EXTENDS Integers, FiniteSets

CONSTANTS
  Uploads,         \* upload identifiers, random and never issued twice
  Transfers,       \* concurrent HTTP uploads
  Authorizers,     \* concurrent authorizing tool calls
  MaxOutstanding,  \* MAX_OUTSTANDING
  Slots,           \* body slots of the file routes
  TTL,             \* FilePlane.ttl
  MaxTime,         \* bound on the clock
  Nobody, NoUpload, Never

ASSUME FilePlaneAssumption ==
  /\ {MaxOutstanding, Slots, TTL, MaxTime} \subseteq Nat
  /\ Nobody \notin Transfers
  /\ NoUpload \notin Uploads
  /\ Never \notin Nat

Contents == {"secret", "unusable", "mismatched"}

VARIABLES
  clock,
  tickets,       \* FilePlane.tickets
  staged,        \* FilePlane.staged
  expiresAt,     \* of the ticket, then of the staged body
  content,       \* what was staged
  ticketLock,    \* the transfer that holds the lock of the tickets
  transfer,      \* what each HTTP upload is doing, and for which ticket
  authorizer,    \* what each authorizing call is doing, and its clock reading
  worker,        \* what the expiry worker is doing, and its clock reading
  wakeAt,        \* when the expiry worker's sleep ends
  issuedAt,      \* history: when each upload was authorized
  stagings,      \* history: how often a body of each upload was staged
  takings        \* history: how often each upload's secret was handed out

plane == <<tickets, staged, expiresAt, content, ticketLock>>
history == <<issuedAt, stagings, takings>>
vars == <<clock, plane, transfer, authorizer, worker, wakeAt, history>>

Times == 0 .. MaxTime

TypeOK ==
  /\ clock \in Times
  /\ tickets \subseteq Uploads /\ staged \subseteq Uploads /\ tickets \cap staged = {}
  /\ expiresAt \in [Uploads -> 0 .. (MaxTime + TTL)]
  /\ content \in [Uploads -> Contents]
  /\ ticketLock \in Transfers \cup {Nobody}
  /\ transfer \in [Transfers -> [at : {"idle", "waiting", "reading", "staging"},
                                 of : Uploads \cup {NoUpload}]]
  /\ authorizer \in [Authorizers -> [at : {"idle", "tickets", "staged", "insert"}, now : Times]]
  /\ worker \in [at : {"asleep", "tickets", "staged", "sleep"}, now : Times]
  /\ wakeAt \in 0 .. (MaxTime + TTL + 1)
  /\ issuedAt \in [Uploads -> Times \cup {Never}]
  /\ stagings \in [Uploads -> Nat] /\ takings \in [Uploads -> Nat]

Init ==
  /\ clock = 0
  /\ tickets = {} /\ staged = {}
  /\ expiresAt = [u \in Uploads |-> 0]
  /\ content = [u \in Uploads |-> "secret"]
  /\ ticketLock = Nobody
  /\ transfer = [t \in Transfers |-> [at |-> "idle", of |-> NoUpload]]
  /\ authorizer = [a \in Authorizers |-> [at |-> "idle", now |-> 0]]
  /\ worker = [at |-> "tickets", now |-> 0]
  /\ wakeAt = 0
  /\ issuedAt = [u \in Uploads |-> Never]
  /\ stagings = [u \in Uploads |-> 0] /\ takings = [u \in Uploads |-> 0]

-----------------------------------------------------------------------------
(* sweep: one clock reading, then one map after the other *)

(* Mutant: an entry is dropped at the instant it expires.                  *)
LiveStrictly(set, now) == {u \in set : now < expiresAt[u]}

Live(set, now) == {u \in set : now <= expiresAt[u]}

SweepTickets(now) == ticketLock = Nobody /\ tickets' = Live(tickets, now)
SweepStaged(now) == staged' = Live(staged, now)

-----------------------------------------------------------------------------
(* authorize_upload *)

Unissued == {u \in Uploads : issuedAt[u] = Never}

StartAuthorize(a) ==
  /\ authorizer[a].at = "idle"
  /\ Unissued # {}
  /\ authorizer' = [authorizer EXCEPT ![a] = [at |-> "tickets", now |-> clock]]
  /\ UNCHANGED <<clock, plane, transfer, worker, wakeAt, history>>

AuthorizeSweepsTickets(a) ==
  /\ authorizer[a].at = "tickets"
  /\ SweepTickets(authorizer[a].now)
  /\ authorizer' = [authorizer EXCEPT ![a].at = "staged"]
  /\ UNCHANGED <<clock, staged, expiresAt, content, ticketLock, transfer, worker, wakeAt, history>>

AuthorizeSweepsStaged(a) ==
  /\ authorizer[a].at = "staged"
  /\ SweepStaged(authorizer[a].now)
  /\ authorizer' = [authorizer EXCEPT ![a] = [at |-> "insert", now |-> 0]]
  /\ UNCHANGED <<clock, tickets, expiresAt, content, ticketLock, transfer, worker, wakeAt, history>>

Outstanding == Cardinality(tickets) + Cardinality(staged)

(* Both locks are held: the ticket is issued, or the plane is full.        *)
Authorize(a) ==
  /\ authorizer[a].at = "insert"
  /\ ticketLock = Nobody
  /\ \/ /\ Outstanding < MaxOutstanding
        /\ \E u \in Unissued :
             /\ tickets' = tickets \cup {u}
             /\ expiresAt' = [expiresAt EXCEPT ![u] = clock + TTL]
             /\ issuedAt' = [issuedAt EXCEPT ![u] = clock]
     \/ /\ Outstanding >= MaxOutstanding
        /\ UNCHANGED <<tickets, expiresAt, issuedAt>>
  /\ authorizer' = [authorizer EXCEPT ![a].at = "idle"]
  /\ UNCHANGED <<clock, staged, content, ticketLock, transfer, worker, wakeAt,
                 stagings, takings>>

-----------------------------------------------------------------------------
(* receive_file: verify_upload, a body slot, the body, and receive *)

Reading == {t \in Transfers : transfer[t].at \in {"reading", "staging"}}

Valid(u) == u \in tickets /\ clock <= expiresAt[u]

(* verify_upload consumes nothing, but drops a ticket that has expired.    *)
Verify(t, u) ==
  /\ transfer[t].at = "idle"
  /\ ticketLock = Nobody
  /\ u \in tickets
  /\ IF Valid(u)
     THEN /\ transfer' = [transfer EXCEPT ![t] = [at |-> "waiting", of |-> u]]
          /\ UNCHANGED tickets
     ELSE /\ tickets' = tickets \ {u}
          /\ UNCHANGED transfer
  /\ UNCHANGED <<clock, staged, expiresAt, content, ticketLock, authorizer, worker, wakeAt, history>>

TakeSlot(t) ==
  /\ transfer[t].at = "waiting"
  /\ Cardinality(Reading) < Slots
  /\ transfer' = [transfer EXCEPT ![t].at = "reading"]
  /\ UNCHANGED <<clock, plane, authorizer, worker, wakeAt, history>>

EndTransfer(t) == transfer' = [transfer EXCEPT ![t] = [at |-> "idle", of |-> NoUpload]]

(* No slot in time, a body too large or too slow, or the client is gone:   *)
(* the ticket is not consumed.                                             *)
Abandon(t) ==
  /\ transfer[t].at \in {"waiting", "reading"}
  /\ EndTransfer(t)
  /\ UNCHANGED <<clock, plane, authorizer, worker, wakeAt, history>>

(* Mutant: the ticket is consumed only once its body has been accepted.    *)
ReceiveKeepsTicket(t, body) ==
  LET u == transfer[t].of
  IN /\ transfer[t].at = "reading"
     /\ ticketLock = Nobody
     /\ IF Valid(u) /\ body # "mismatched"
        THEN /\ ticketLock' = t
             /\ content' = [content EXCEPT ![u] = body]
             /\ transfer' = [transfer EXCEPT ![t].at = "staging"]
             /\ UNCHANGED tickets
        ELSE EndTransfer(t) /\ UNCHANGED <<tickets, ticketLock, content>>
     /\ UNCHANGED <<clock, staged, expiresAt, authorizer, worker, wakeAt, history>>

(* Mutant: the lock of the tickets is released before the body is staged.  *)
ReceiveUnlocksEarly(t, body) ==
  LET u == transfer[t].of
  IN /\ transfer[t].at = "reading"
     /\ ticketLock = Nobody
     /\ tickets' = tickets \ {u}
     /\ IF Valid(u) /\ body # "mismatched"
        THEN /\ content' = [content EXCEPT ![u] = body]
             /\ transfer' = [transfer EXCEPT ![t].at = "staging"]
        ELSE EndTransfer(t) /\ UNCHANGED content
     /\ UNCHANGED <<clock, staged, expiresAt, ticketLock, authorizer, worker, wakeAt, history>>

(* Mutant: receive relies on verify_upload for the expiry.                 *)
ReceiveTrustsVerify(t, body) ==
  LET u == transfer[t].of
  IN /\ transfer[t].at = "reading"
     /\ ticketLock = Nobody
     /\ tickets' = tickets \ {u}
     /\ IF u \in tickets /\ body # "mismatched"
        THEN /\ ticketLock' = t
             /\ content' = [content EXCEPT ![u] = body]
             /\ transfer' = [transfer EXCEPT ![t].at = "staging"]
        ELSE EndTransfer(t) /\ UNCHANGED <<ticketLock, content>>
     /\ UNCHANGED <<clock, staged, expiresAt, authorizer, worker, wakeAt, history>>

(* receive: the ticket, expired or not, goes before the body is looked at; *)
(* a body that does not match it is refused, another is about to be        *)
(* staged, with the lock still held.                                       *)
Receive(t, body) ==
  LET u == transfer[t].of
  IN /\ transfer[t].at = "reading"
     /\ ticketLock = Nobody
     /\ tickets' = tickets \ {u}
     /\ IF Valid(u) /\ body # "mismatched"
        THEN /\ ticketLock' = t
             /\ content' = [content EXCEPT ![u] = body]
             /\ transfer' = [transfer EXCEPT ![t].at = "staging"]
        ELSE EndTransfer(t) /\ UNCHANGED <<ticketLock, content>>
     /\ UNCHANGED <<clock, staged, expiresAt, authorizer, worker, wakeAt, history>>

Stage(t) ==
  LET u == transfer[t].of
  IN /\ transfer[t].at = "staging"
     /\ staged' = staged \cup {u}
     /\ expiresAt' = [expiresAt EXCEPT ![u] = clock + TTL]
     /\ stagings' = [stagings EXCEPT ![u] = @ + 1]
     /\ ticketLock' = Nobody
     /\ EndTransfer(t)
     /\ UNCHANGED <<clock, tickets, content, authorizer, worker, wakeAt, issuedAt, takings>>

-----------------------------------------------------------------------------
(* take_secret, called by repository.secret.set_from_file once the target  *)
(* of the secret has been validated *)

Usable(u) == clock <= expiresAt[u] /\ content[u] = "secret"

(* The staged body goes, usable or not.                                    *)
TakeSecret(u) ==
  /\ u \in staged
  /\ staged' = staged \ {u}
  /\ takings' = IF Usable(u) THEN [takings EXCEPT ![u] = @ + 1] ELSE takings
  /\ UNCHANGED <<clock, tickets, expiresAt, content, ticketLock, transfer, authorizer,
                 worker, wakeAt, issuedAt, stagings>>

-----------------------------------------------------------------------------
(* The expiry worker and the clock *)

Wake ==
  /\ worker.at = "asleep" /\ clock >= wakeAt
  /\ worker' = [at |-> "tickets", now |-> clock]
  /\ UNCHANGED <<clock, plane, transfer, authorizer, wakeAt, history>>

WorkerSweepsTickets ==
  /\ worker.at = "tickets"
  /\ SweepTickets(worker.now)
  /\ worker' = [worker EXCEPT !.at = "staged"]
  /\ UNCHANGED <<clock, staged, expiresAt, content, ticketLock, transfer, authorizer,
                 wakeAt, history>>

WorkerSweepsStaged ==
  /\ worker.at = "staged"
  /\ SweepStaged(worker.now)
  /\ worker' = [worker EXCEPT !.at = "sleep"]
  /\ UNCHANGED <<clock, tickets, expiresAt, content, ticketLock, transfer, authorizer,
                 wakeAt, history>>

Expiries == {expiresAt[u] : u \in tickets \cup staged}
NextExpiry == CHOOSE e \in Expiries : \A f \in Expiries : e <= f

(* Mutant: the idle worker sleeps for as long as an upload may take, the   *)
(* lifetime of its ticket and that of its staged body.                     *)
SleepsBothLifetimes ==
  IF Expiries = {} THEN clock + 2 * TTL
  ELSE IF NextExpiry > clock THEN NextExpiry ELSE clock + 1

(* The worker sleeps until the next expiry, a whole lifetime if nothing is *)
(* outstanding, and always for a millisecond, the clock's unit here.       *)
SleepsUntil ==
  IF Expiries = {} THEN clock + TTL
  ELSE IF NextExpiry > clock THEN NextExpiry ELSE clock + 1

Sleep ==
  /\ worker.at = "sleep"
  /\ ticketLock = Nobody
  /\ wakeAt' = SleepsUntil
  /\ worker' = [at |-> "asleep", now |-> 0]
  /\ UNCHANGED <<clock, plane, transfer, authorizer, history>>

(* Timers are prompt: the clock does not pass the end of the worker's      *)
(* sleep, nor does a millisecond pass while the worker runs or a transfer  *)
(* holds the lock of the tickets.                                          *)
Tick ==
  /\ clock < MaxTime
  /\ worker.at = "asleep" /\ clock < wakeAt
  /\ \A t \in Transfers : transfer[t].at # "staging"
  /\ clock' = clock + 1
  /\ UNCHANGED <<plane, transfer, authorizer, worker, wakeAt, history>>

-----------------------------------------------------------------------------

AuthorizerStep(a) ==
  StartAuthorize(a) \/ AuthorizeSweepsTickets(a) \/ AuthorizeSweepsStaged(a) \/ Authorize(a)

TransferStep(t) ==
  \/ \E u \in Uploads : Verify(t, u)
  \/ TakeSlot(t) \/ Abandon(t) \/ Stage(t)
  \/ \E body \in Contents : Receive(t, body)

WorkerStep == Wake \/ WorkerSweepsTickets \/ WorkerSweepsStaged \/ Sleep

Next ==
  \/ \E a \in Authorizers : AuthorizerStep(a)
  \/ \E t \in Transfers : TransferStep(t)
  \/ \E u \in Uploads : TakeSecret(u)
  \/ WorkerStep
  \/ Tick

Spec == Init /\ [][Next]_vars

-----------------------------------------------------------------------------
(* Properties *)

InTransit == {transfer[t].of : t \in {x \in Transfers : transfer[x].at = "staging"}}

(* Tickets and staged bodies together, the body being staged included,     *)
(* never exceed the cap, although they live in two maps that change under  *)
(* different locks.                                                        *)
Capacity == Cardinality(tickets) + Cardinality(staged) + Cardinality(InTransit) <= MaxOutstanding

(* A ticket admits one body and a reference hands out one secret, however  *)
(* many transfers present the ticket and calls the reference at once, and  *)
(* whatever became of the first.                                           *)
SingleUse == \A u \in Uploads : takings[u] <= stagings[u] /\ stagings[u] <= 1

(* A body is staged only within the lifetime of its ticket, however long   *)
(* it waited for a slot and took to arrive: with the lifetime of what is   *)
(* staged, a secret is handed out within two lifetimes of its              *)
(* authorization or never.                                                 *)
WithinWindow ==
  [][\A u \in Uploads :
       /\ stagings'[u] # stagings[u] => clock - issuedAt[u] <= TTL
       /\ takings'[u] # takings[u] => clock - issuedAt[u] <= 2 * TTL]_vars

(* A secret nobody takes is wiped as it expires, a ticket nobody uses is   *)
(* forgotten, with no request to trigger it: at most a millisecond late.   *)
WipedOnTime == \A u \in tickets \cup staged : clock <= expiresAt[u] + 1

(* Nothing live is swept, although a sweep may use an old clock reading    *)
(* and both the worker and authorizations sweep: a ticket or staged body   *)
(* within its lifetime leaves only because a transfer or a call took it.   *)
LiveKept ==
  [][\A u \in Uploads :
       /\ u \in tickets \ tickets' /\ clock <= expiresAt[u] =>
            \E t \in Transfers : transfer[t].at = "reading" /\ transfer[t].of = u
                                 /\ transfer'[t].at # "reading"
       /\ u \in staged \ staged' /\ clock <= expiresAt[u] /\ content[u] = "secret" =>
            takings'[u] # takings[u]]_vars
=============================================================================
