--------------------------- MODULE PayloadLedger ---------------------------
(***************************************************************************)
(* What the retained store promises its callers, without stores, locks,    *)
(* clocks or a budget counter: a payload becomes visible once, to the      *)
(* identity whose request inserted it, and only if everything held then    *)
(* fits the budget; it can disappear at any moment; only a request of the  *)
(* same identity can open it; and it stays held until its last reader      *)
(* closes it.                                                              *)
(***************************************************************************)
EXTENDS Integers, FiniteSets, Weights

CONSTANTS Owners, Calls, Ids, BudgetMax, NoOwner, NoId

VARIABLES
  visible,  \* payloads each identity can read
  caller,   \* identity each request acts for
  reading,  \* payload each request holds
  spent,    \* payloads whose insert has ended, stored or not
  weight    \* bytes charged for each stored payload

ledger == <<visible, caller, reading, spent, weight>>

(* Payloads some identity can read or some request holds.                  *)
Held == (UNION {visible[o] : o \in Owners}) \cup {i \in Ids : \E c \in Calls : reading[c] = i}

LedgerInit ==
  /\ visible = [o \in Owners |-> {}]
  /\ caller = [c \in Calls |-> NoOwner]
  /\ reading = [c \in Calls |-> NoId]
  /\ spent = {}
  /\ weight = [i \in Ids |-> 0]

(* Expiry, eviction and reclaim: payloads disappear.                       *)
Forgetting == \A o \in Owners : visible'[o] \subseteq visible[o]

Forget ==
  /\ visible' \in [Owners -> SUBSET Ids] /\ Forgetting
  /\ UNCHANGED <<caller, reading, spent, weight>>

(* A request begins, forgetting what has expired, or ends.                 *)
Enter(c) ==
  /\ caller[c] = NoOwner /\ reading[c] = NoId
  /\ \E o \in Owners : caller' = [caller EXCEPT ![c] = o]
  /\ visible' \in [Owners -> SUBSET Ids] /\ Forgetting
  /\ UNCHANGED <<reading, spent, weight>>

Exit(c) ==
  /\ caller' = [caller EXCEPT ![c] = NoOwner]
  /\ UNCHANGED <<visible, reading, spent, weight>>

Store(c, i) ==
  /\ caller[c] \in Owners /\ i \notin spent
  /\ visible' = [visible EXCEPT ![caller[c]] = @ \cup {i}]
  /\ reading' = [reading EXCEPT ![c] = i]
  /\ spent' = spent \cup {i}
  /\ \E n \in 0 .. MaxCharge :
       /\ weight' = [weight EXCEPT ![i] = n]
       /\ Total(Held, weight) + n <= BudgetMax
  /\ UNCHANGED caller

(* A refused insert uses its reference up.                                 *)
Abandon(c, i) ==
  /\ caller[c] \in Owners /\ i \notin spent
  /\ spent' = spent \cup {i}
  /\ UNCHANGED <<visible, caller, reading>>
  /\ \E n \in 0 .. MaxCharge : weight' = [weight EXCEPT ![i] = n]

Open(c, i) ==
  /\ caller[c] \in Owners /\ reading[c] = NoId
  /\ visible' \in [Owners -> SUBSET Ids] /\ Forgetting
  /\ i \in visible'[caller[c]]
  /\ reading' = [reading EXCEPT ![c] = i]
  /\ UNCHANGED <<caller, spent, weight>>

Close(c) ==
  /\ reading[c] # NoId
  /\ reading' = [reading EXCEPT ![c] = NoId]
  /\ UNCHANGED <<visible, caller, spent, weight>>

LedgerNext ==
  \/ Forget
  \/ \E c \in Calls : Enter(c) \/ Exit(c) \/ Close(c)
  \/ \E c \in Calls, i \in Ids : Store(c, i) \/ Abandon(c, i) \/ Open(c, i)

LedgerSpec == LedgerInit /\ [][LedgerNext]_ledger
=============================================================================
