------------------------------- MODULE Calls -------------------------------
(***************************************************************************)
(* One tool call from the HTTP request that carries it to the report its   *)
(* client gets, and the client that follows the report: server.rs and      *)
(* auth.rs admit the request, the MCP transport runs the handler           *)
(* (gitea-mcp/lib.rs) as a task of its own, and the handler calls Gitea    *)
(* (gitea-api) while it holds an execution slot.                           *)
(*                                                                         *)
(* A job is one change a client wants made.  The client sends it again     *)
(* exactly when the last answer says that is safe: after a refusal before  *)
(* the handler ran, after invalid arguments (corrected), and after         *)
(* safe_to_retry.  It stops on anything else, and when its connection is   *)
(* lost ("ambiguous mutation outcomes must not be replayed").              *)
(*                                                                         *)
(* Of arguments it matters whether they are valid; of a response whether   *)
(* it is a success, and what goes wrong after its status has arrived.      *)
(* Jobs that set a secret name the same uploaded file, which holds a       *)
(* usable secret (FilePlane has the others).                               *)
(***************************************************************************)
EXTENDS Integers, FiniteSets

CONSTANTS
  Jobs,
  Limit,       \* max_concurrent_requests
  MaxTries     \* bound on the requests of a job

ASSUME CallsAssumption == IsFiniteSet(Jobs) /\ Limit \in 1 .. 64 /\ MaxTries \in Nat

Kinds == {"operation", "secret", "token", "local"}

VARIABLES
  kind,        \* what each job does
  client,      \* what each job's client is doing
  tries,       \* requests sent for each job
  http,        \* the HTTP request of each job
  ingress,     \* free slots of IngressState.slots
  call,        \* the handler of each job's request
  permits,     \* free slots of execution_slots
  staged,      \* the uploaded file: "staged", "taken" or "expired"
  onTheWire,   \* requests sent to Gitea and not yet executed, as <<job, try>>
  answer,      \* Gitea's answer to each job's last request
  applied,     \* history: how often each job's change was made
  past,        \* history: the secret jobs that were reported past validation
  report       \* the report of each job's last request

requestVars == <<client, tries, http, ingress>>
callVars == <<call, permits, staged>>
giteaVars == <<onTheWire, answer, applied>>
reportVars == <<past, report>>
vars == <<kind, requestVars, callVars, giteaVars, reportVars>>

Min2(a, b) == IF a < b THEN a ELSE b
Max2(a, b) == IF a < b THEN b ELSE a

(* with_execution_limit clamps the one setting both limits come from *)
ExecutionLimit == Max2(1, Min2(64, Limit))

(* The handler's states in which it holds an execution slot *)
Holding == {"permitted", "ready", "awaiting", "receiving"}
Sends(j) == kind[j] # "local"

(* What a report says.  "refused" is an HTTP refusal before the handler.   *)
Outcomes == {"refused", "busy", "invalid", "not_sent", "unknown", "completed", "success"}
NoReport == [outcome |-> "none", status |-> "none"]

PastValidation == {"not_sent", "unknown", "completed", "success"}

(* safe_to_retry, or an answer that says the call was never valid to make  *)
Retriable == {"refused", "busy", "invalid", "not_sent"}

TypeOK ==
  /\ kind \in [Jobs -> Kinds]
  /\ client \in [Jobs -> {"ready", "waiting", "stopped"}]
  /\ tries \in [Jobs -> 0 .. MaxTries]
  /\ http \in [Jobs -> {"idle", "body", "identity", "service", "open"}]
  /\ ingress \in 0 .. Limit
  /\ call \in [Jobs -> {"none", "dispatched"} \cup Holding]
  /\ permits \in 0 .. ExecutionLimit
  /\ staged \in {"staged", "taken", "expired"}
  /\ onTheWire \subseteq Jobs \X (1 .. MaxTries)
  /\ answer \in [Jobs -> {"none", "success", "refusal"}]
  /\ applied \in [Jobs -> Nat]
  /\ past \subseteq Jobs
  /\ report \in [Jobs -> [outcome : Outcomes \cup {"none"},
                          status : {"none", "success", "refusal"}]]

Init ==
  /\ kind \in [Jobs -> Kinds]
  /\ client = [j \in Jobs |-> "ready"]
  /\ tries = [j \in Jobs |-> 0]
  /\ http = [j \in Jobs |-> "idle"]
  /\ ingress = Limit
  /\ call = [j \in Jobs |-> "none"]
  /\ permits = ExecutionLimit
  /\ staged = "staged"
  /\ onTheWire = {}
  /\ answer = [j \in Jobs |-> "none"]
  /\ applied = [j \in Jobs |-> 0]
  /\ past = {}
  /\ report = [j \in Jobs |-> NoReport]

-----------------------------------------------------------------------------
(* What an error says of the call it ended *)

(* The errors raised before a request is sent, and after its status has    *)
(* arrived.  An invalid declaration of response headers is the same error  *)
(* as an operation that cannot be built; a token that Gitea describes      *)
(* wrongly is the same error as invalid input.                             *)
BeforeSend == {"invalid_operation", "invalid_input", "other_local"}
OperationFaults == {"unreadable", "too_large", "invalid_operation"}
TokenFaults == {"unreadable", "too_large", "invalid_input"}
AfterStatus(k) == IF k = "token" THEN TokenFaults ELSE OperationFaults

Plain(error) == [error |-> error, status |-> "none"]

(* Mutant: a defect of the catalogue is passed on as it is.                *)
DeliveredButForDefects(error, status) ==
  IF error.error = "invalid_operation" THEN error
  ELSE [error |-> "not_delivered", status |-> status]

(* ApiError::delivered_with *)
Delivered(error, status) == [error |-> "not_delivered", status |-> status]

(* Mutant: a request that failed is a request that was not delivered.      *)
TransportIsNotSent(error) ==
  IF error.status # "none" THEN "completed"
  ELSE IF error.error \in BeforeSend \cup {"connect", "transport"} THEN "not_sent" ELSE "unknown"

(* ApiError::call_outcome *)
CallOutcome(error) ==
  IF error.status # "none" THEN "completed"
  ELSE IF error.error \in BeforeSend \cup {"connect"} THEN "not_sent" ELSE "unknown"

(* upstream_failure reports a bare input error of the token lane as        *)
(* invalid parameters, map_operation_error every other by its outcome.     *)
Failure(k, error) ==
  [outcome |-> IF k = "token" /\ error = Plain("invalid_input") THEN "invalid" ELSE CallOutcome(error),
   status |-> error.status]

-----------------------------------------------------------------------------
(* Admission *)

(* The bearer and the origin are in order and a slot is free; a request    *)
(* refused for one of these changes nothing, and is not counted as a try.  *)
Submit(j) ==
  /\ client[j] = "ready" /\ tries[j] < MaxTries
  /\ http[j] = "idle" /\ call[j] = "none"
  /\ ingress > 0
  /\ ingress' = ingress - 1
  /\ http' = [http EXCEPT ![j] = "body"]
  /\ client' = [client EXCEPT ![j] = "waiting"]
  /\ tries' = [tries EXCEPT ![j] = @ + 1]
  /\ report' = [report EXCEPT ![j] = NoReport]
  /\ UNCHANGED <<kind, callVars, giteaVars, past>>

BodyArrives(j) ==
  /\ http[j] = "body"
  /\ http' = [http EXCEPT ![j] = "identity"]
  /\ UNCHANGED <<kind, client, tries, ingress, callVars, giteaVars, reportVars>>

(* The request is answered without a handler: its body was too slow or too *)
(* large, or its assertion did not verify.                                 *)
RefuseRequest(j) ==
  /\ http[j] \in {"body", "identity"}
  /\ http' = [http EXCEPT ![j] = "idle"]
  /\ ingress' = ingress + 1
  /\ client' = [client EXCEPT ![j] = "ready"]
  /\ report' = [report EXCEPT ![j] = [NoReport EXCEPT !.outcome = "refused"]]
  /\ UNCHANGED <<kind, tries, callVars, giteaVars, past>>

(* The identity is verified and the transport starts the handler.          *)
StartHandler(j) ==
  /\ http[j] = "identity"
  /\ http' = [http EXCEPT ![j] = "service"]
  /\ call' = [call EXCEPT ![j] = "dispatched"]
  /\ UNCHANGED <<kind, client, tries, ingress, permits, staged, giteaVars, reportVars>>

(* The response is constructed, and the slot returned, before the handler  *)
(* has ended: the report will follow on the open stream.                   *)
ResponseStarts(j) ==
  /\ http[j] = "service"
  /\ http' = [http EXCEPT ![j] = "open"]
  /\ ingress' = ingress + 1
  /\ UNCHANGED <<kind, client, tries, callVars, giteaVars, reportVars>>

ReturnedIngress(j) == IF http[j] \in {"body", "identity", "service"} THEN ingress + 1 ELSE ingress

(* The connection is lost, or the client cancels: the HTTP request is      *)
(* dropped, a handler that has started goes on.                            *)
Disconnect(j) ==
  /\ http[j] # "idle"
  /\ http' = [http EXCEPT ![j] = "idle"]
  /\ ingress' = ReturnedIngress(j)
  /\ client' = [client EXCEPT ![j] = "stopped"]
  /\ UNCHANGED <<kind, tries, callVars, giteaVars, reportVars>>

-----------------------------------------------------------------------------
(* The handler *)

(* The handler ends with report r and returns its slot.  The client reads  *)
(* the report if its request is still there.                               *)
Report(j, r) ==
  /\ call' = [call EXCEPT ![j] = "none"]
  /\ permits' = IF call[j] \in Holding THEN permits + 1 ELSE permits
  /\ report' = [report EXCEPT ![j] = r]
  /\ past' = IF kind[j] = "secret" /\ r.outcome \in PastValidation THEN past \cup {j} ELSE past
  /\ http' = [http EXCEPT ![j] = "idle"]
  /\ ingress' = ReturnedIngress(j)
  /\ client' = IF http[j] = "idle" THEN client
               ELSE [client EXCEPT ![j] = IF r.outcome \in Retriable THEN "ready" ELSE "stopped"]

(* for_request finds the identity's store or is refused for capacity, then *)
(* execution_permit takes a slot or is refused.                            *)
Dispatch(j) ==
  /\ call[j] = "dispatched"
  /\ \/ /\ permits > 0
        /\ permits' = permits - 1
        /\ call' = [call EXCEPT ![j] = "permitted"]
        /\ UNCHANGED <<requestVars, reportVars>>
     \/ Report(j, [NoReport EXCEPT !.outcome = "busy"])
  /\ UNCHANGED <<kind, tries, staged, giteaVars>>

(* A success is reported as one whether or not its payload fits the reply  *)
(* or can be retained.                                                     *)
Succeeded(status) == [outcome |-> "success", status |-> status]

InvalidReport == [NoReport EXCEPT !.outcome = "invalid"]

(* Mutant: the file is taken before the target is validated.               *)
PrepareTakesFirst(j) ==
  /\ call[j] = "permitted"
  /\ staged' = IF kind[j] = "secret" /\ staged = "staged" THEN "taken" ELSE staged
  /\ \/ Report(j, InvalidReport)
     \/ /\ kind[j] = "secret" => staged = "staged"
        /\ call' = [call EXCEPT ![j] = "ready"]
        /\ UNCHANGED <<requestVars, permits, reportVars>>
  /\ UNCHANGED <<kind, tries, giteaVars>>

(* The arguments are parsed and validated and the secret's file taken,     *)
(* with nothing awaited between; a job that needs no request ends here.    *)
Prepare(j) ==
  /\ call[j] = "permitted"
  /\ \/ /\ Report(j, InvalidReport)
        /\ UNCHANGED staged
     \/ /\ kind[j] = "local"
        /\ Report(j, Succeeded("none"))
        /\ UNCHANGED staged
     \/ /\ Sends(j)
        /\ kind[j] = "secret" => staged = "staged"
        /\ staged' = IF kind[j] = "secret" THEN "taken" ELSE staged
        /\ call' = [call EXCEPT ![j] = "ready"]
        /\ UNCHANGED <<requestVars, permits, reportVars>>
  /\ UNCHANGED <<kind, tries, giteaVars>>

(* The request cannot be built, no connection can be made, or the client's *)
(* timeout ends while one is being made.                                   *)
SendFails(j) ==
  /\ call[j] = "ready"
  /\ \E error \in BeforeSend \cup {"connect", "transport"} : Report(j, Failure(kind[j], Plain(error)))
  /\ UNCHANGED <<kind, tries, staged, giteaVars>>

Send(j) ==
  /\ call[j] = "ready"
  /\ onTheWire' = onTheWire \cup {<<j, tries[j]>>}
  /\ answer' = [answer EXCEPT ![j] = "none"]
  /\ call' = [call EXCEPT ![j] = "awaiting"]
  /\ UNCHANGED <<kind, requestVars, permits, staged, applied, reportVars>>

(* Mutant: a client without a timeout ends only with the connection.       *)
ResetOnly(j) ==
  /\ call[j] = "awaiting" /\ <<j, tries[j]>> \notin onTheWire
  /\ Report(j, Failure(kind[j], Plain("transport")))
  /\ UNCHANGED <<kind, tries, staged, giteaVars>>

(* The client's timeout ends, or the connection breaks, before a status    *)
(* has arrived.  The request stays on its way, or has been executed.       *)
TransportFails(j) ==
  /\ call[j] = "awaiting"
  /\ Report(j, Failure(kind[j], Plain("transport")))
  /\ UNCHANGED <<kind, tries, staged, giteaVars>>

StatusArrives(j) ==
  /\ call[j] = "awaiting" /\ answer[j] # "none"
  /\ call' = [call EXCEPT ![j] = "receiving"]
  /\ UNCHANGED <<kind, requestVars, permits, staged, giteaVars, reportVars>>

(* A refusal is reported with its status whether or not its body can be    *)
(* read; a success that cannot be read or understood is a failure.         *)
Receive(j) ==
  /\ call[j] = "receiving"
  /\ \/ /\ answer[j] = "refusal"
        /\ Report(j, [outcome |-> "completed", status |-> "refusal"])
     \/ /\ answer[j] = "success"
        /\ \/ Report(j, Succeeded("success"))
           \/ \E error \in AfterStatus(kind[j]) :
                Report(j, Failure(kind[j], Delivered(Plain(error), "success")))
  /\ UNCHANGED <<kind, tries, staged, giteaVars>>

-----------------------------------------------------------------------------
(* Gitea, the network and the file plane *)

(* Gitea executes a request, at any time after it was sent, and answers.   *)
Execute ==
  \E j \in Jobs, n \in 1 .. MaxTries, status \in {"success", "refusal"} :
    /\ <<j, n>> \in onTheWire
    /\ onTheWire' = onTheWire \ {<<j, n>>}
    /\ applied' = IF status = "success" THEN [applied EXCEPT ![j] = @ + 1] ELSE applied
    /\ answer' = IF call[j] = "awaiting" /\ n = tries[j] THEN [answer EXCEPT ![j] = status] ELSE answer
    /\ UNCHANGED <<kind, requestVars, callVars, reportVars>>

Lose ==
  /\ \E request \in onTheWire : onTheWire' = onTheWire \ {request}
  /\ UNCHANGED <<kind, requestVars, callVars, answer, applied, reportVars>>

ExpireFile ==
  /\ staged = "staged" /\ staged' = "expired"
  /\ UNCHANGED <<kind, requestVars, call, permits, giteaVars, reportVars>>

-----------------------------------------------------------------------------
Request(j) == BodyArrives(j) \/ RefuseRequest(j) \/ StartHandler(j)
Handle(j) ==
  \/ Dispatch(j) \/ Prepare(j) \/ SendFails(j) \/ Send(j)
  \/ TransportFails(j) \/ StatusArrives(j) \/ Receive(j)

Next ==
  \/ \E j \in Jobs : Submit(j) \/ Request(j) \/ ResponseStarts(j) \/ Disconnect(j) \/ Handle(j)
  \/ Execute \/ Lose \/ ExpireFile

(* A body ends at its deadline and an identity is judged by the end of its *)
(* key fetch; a handler that is not waiting runs, and one that waits for   *)
(* Gitea has a client with a timeout.                                      *)
Spec ==
  /\ Init /\ [][Next]_vars
  /\ \A j \in Jobs : WF_vars(Request(j)) /\ WF_vars(Handle(j))

-----------------------------------------------------------------------------
(* A client that sends its change again only when the answer says that is  *)
(* safe has it made at most once, although requests are executed after     *)
(* their client gave up; and an uploaded secret is stored at most once     *)
(* whoever names it.                                                       *)
AtMostOnce ==
  \A i, j \in Jobs :
    /\ applied[j] <= 1
    /\ (i # j /\ kind[i] = "secret" /\ kind[j] = "secret") => applied[i] + applied[j] <= 1

(* A report that invites another try is made only of a job no request of   *)
(* which was or can still be executed; a report of a settled outcome names *)
(* what happened.                                                          *)
OutcomeTruthful ==
  \A j \in Jobs : LET r == report[j] IN
    /\ r.outcome \in Retriable =>
         applied[j] = 0 /\ \A n \in 1 .. MaxTries : <<j, n>> \notin onTheWire
    /\ (r.outcome = "success" /\ Sends(j)) => applied[j] = 1
    /\ r.outcome = "completed" => applied[j] = IF r.status = "success" THEN 1 ELSE 0

(* Every slot is free or held by one request or one running handler: none  *)
(* is lost or returned twice on any way a request, a connection and a      *)
(* handler can end, so as many calls of Gitea are awaited as configured.   *)
SlotsConserved ==
  /\ ingress + Cardinality({j \in Jobs : http[j] \in {"body", "identity", "service"}}) = Limit
  /\ permits + Cardinality({j \in Jobs : call[j] \in Holding}) = ExecutionLimit

(* The file of a secret is taken only for a call that gets past            *)
(* validation: after nothing but refusals for capacity or for arguments it *)
(* can still be used.                                                      *)
FileKept ==
  staged = "taken" =>
    \E j \in Jobs :
      /\ kind[j] = "secret"
      /\ \/ call[j] \in {"ready", "awaiting", "receiving"}
         \/ j \in past

(* Every slot comes back, whatever Gitea and the clients do: a request     *)
(* leaves admission and a handler ends.                                    *)
SlotsReturn ==
  \A j \in Jobs :
    /\ http[j] \in {"body", "identity", "service"} ~> http[j] \notin {"body", "identity", "service"}
    /\ call[j] \in Holding ~> call[j] \notin Holding
=============================================================================
