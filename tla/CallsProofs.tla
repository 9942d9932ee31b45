----------------------------- MODULE CallsProofs -----------------------------
(***************************************************************************)
(* A client that follows the reports of Calls makes its change at most     *)
(* once, and reports of settled outcomes are true.                         *)
(*                                                                         *)
(* The argument: a job is quiet while nothing of it was applied or is on   *)
(* its way.  A job that may still be sent is quiet, a request that was     *)
(* sent ends the job's tries unless its report proves it quiet again, and  *)
(* of the jobs that name the one file at most one gets past taking it.     *)
(***************************************************************************)
EXTENDS Calls, FiniteSetTheorems, TLAPS

(* The types, without the bounds of the slots *)
Shape ==
  /\ kind \in [Jobs -> Kinds]
  /\ client \in [Jobs -> {"ready", "waiting", "stopped"}]
  /\ tries \in [Jobs -> 0 .. MaxTries]
  /\ http \in [Jobs -> {"idle", "body", "identity", "service", "open"}]
  /\ call \in [Jobs -> {"none", "dispatched"} \cup Holding]
  /\ staged \in {"staged", "taken", "expired"}
  /\ onTheWire \subseteq Jobs \X (1 .. MaxTries)
  /\ answer \in [Jobs -> {"none", "success", "refusal"}]
  /\ applied \in [Jobs -> Nat]
  /\ report \in [Jobs -> [outcome : Outcomes \cup {"none"},
                          status : {"none", "success", "refusal"}]]

NothingSent(j) == \A n \in 1 .. MaxTries : <<j, n>> \notin onTheWire
Quiet(j) == applied[j] = 0 /\ NothingSent(j)

(* Until its request is sent a job is quiet, and its client waits for it.  *)
BeforeSending(j) ==
  /\ client[j] = "ready" => call[j] = "none" /\ http[j] = "idle" /\ Quiet(j)
  /\ http[j] \in {"body", "identity"} => call[j] = "none" /\ Quiet(j)
  /\ call[j] \in {"dispatched", "permitted", "ready"} => Quiet(j)
  /\ (http[j] # "idle" \/ call[j] # "none") => tries[j] # 0

(* Only the last try is on its way, and nothing is once it was applied;    *)
(* an answer tells what happened.                                          *)
AfterSending(j) ==
  /\ \A n \in 1 .. MaxTries : <<j, n>> \in onTheWire => n = tries[j]
  /\ applied[j] = 0 \/ (applied[j] = 1 /\ NothingSent(j))
  /\ call[j] \in {"awaiting", "receiving"} =>
       /\ answer[j] = "none" => applied[j] = 0
       /\ answer[j] = "success" => applied[j] = 1
       /\ answer[j] = "refusal" => Quiet(j)
  /\ call[j] = "receiving" => answer[j] # "none"

(* What a report says stays true until the job is tried again.             *)
Reported(j) ==
  /\ report[j].outcome # "none" => call[j] = "none" /\ http[j] = "idle"
  /\ report[j].outcome \in Retriable => Quiet(j)
  /\ (report[j].outcome = "success" /\ Sends(j)) => applied[j] = 1
  /\ report[j].outcome = "completed" =>
       \/ report[j].status = "success" /\ applied[j] = 1
       \/ report[j].status # "success" /\ Quiet(j)

JobOK(j) == BeforeSending(j) /\ AfterSending(j) /\ Reported(j)

(* The jobs that got past taking the file *)
Spent(j) ==
  kind[j] = "secret" /\ (call[j] \in {"ready", "awaiting", "receiving"} \/ ~Quiet(j))

FileOnce ==
  /\ staged # "taken" => \A j \in Jobs : ~Spent(j)
  /\ \A i, j \in Jobs : Spent(i) /\ Spent(j) => i = j

IInv == Shape /\ (\A j \in Jobs : JobOK(j)) /\ FileOnce

-----------------------------------------------------------------------------
(* What the errors of each phase are reported as *)

LEMMA SendFailureIsNotSent ==
  ASSUME NEW k \in Kinds, NEW error \in BeforeSend \cup {"connect", "transport"}
  PROVE  /\ Failure(k, Plain(error)).outcome \in {"invalid", "not_sent", "unknown"}
         /\ Failure(k, Plain(error)) \in [outcome : Outcomes, status : {"none"}]
BY DEF Failure, Plain, CallOutcome, BeforeSend, Outcomes

LEMMA TransportIsUnknown ==
  ASSUME NEW k \in Kinds
  PROVE  Failure(k, Plain("transport")) = [outcome |-> "unknown", status |-> "none"]
BY DEF Failure, Plain, CallOutcome, BeforeSend

LEMMA DeliveredIsCompleted ==
  ASSUME NEW k \in Kinds, NEW error \in AfterStatus(k)
  PROVE  Failure(k, Delivered(Plain(error), "success"))
           = [outcome |-> "completed", status |-> "success"]
BY DEF Failure, Plain, Delivered, CallOutcome

-----------------------------------------------------------------------------
(* Steps of one job leave the others as they are. *)

SameJob(j) ==
  /\ kind'[j] = kind[j] /\ client'[j] = client[j] /\ tries'[j] = tries[j] /\ http'[j] = http[j]
  /\ call'[j] = call[j] /\ answer'[j] = answer[j] /\ applied'[j] = applied[j]
  /\ report'[j] = report[j]
  /\ \A n \in 1 .. MaxTries : <<j, n>> \in onTheWire' <=> <<j, n>> \in onTheWire

LEMMA SameJobKept ==
  ASSUME NEW j \in Jobs, SameJob(j), JobOK(j)
  PROVE  JobOK(j)' /\ (Spent(j)' <=> Spent(j))
<1>1. Quiet(j)' <=> Quiet(j)
  BY DEF SameJob, Quiet, NothingSent
<1>2. NothingSent(j)' <=> NothingSent(j)
  BY DEF SameJob, NothingSent
<1>3. BeforeSending(j)'
  BY <1>1 DEF SameJob, JobOK, BeforeSending
<1>4. AfterSending(j)'
  BY <1>1, <1>2 DEF SameJob, JobOK, AfterSending
<1>5. Reported(j)'
  BY <1>1 DEF SameJob, JobOK, Reported, Sends
<1>6. Spent(j)' <=> Spent(j)
  BY <1>1 DEF SameJob, Spent
<1> QED
  BY <1>3, <1>4, <1>5, <1>6 DEF JobOK

(* A step that changes one job, spends it only by taking the staged file,  *)
(* and does not put the file back keeps the invariant.                     *)
LEMMA OneJob ==
  ASSUME IInv, Shape', NEW i \in Jobs, JobOK(i)',
         \A j \in Jobs \ {i} : SameJob(j),
         \/ (Spent(i)' => Spent(i)) /\ (staged = "taken" => staged' = "taken")
         \/ staged = "staged" /\ staged' = "taken"
  PROVE  IInv'
<1>1. \A j \in Jobs \ {i} : JobOK(j)' /\ (Spent(j)' <=> Spent(j))
  BY SameJobKept DEF IInv
<1>2. FileOnce'
  BY <1>1 DEF IInv, FileOnce
<1> QED
  BY <1>1, <1>2 DEF IInv

(* A handler that ends with a report that is true of its job.              *)
LEMMA ReportKeeps ==
  ASSUME IInv, NEW i \in Jobs,
         NEW r \in [outcome : Outcomes, status : {"none", "success", "refusal"}],
         Report(i, r), call[i] # "none",
         r.outcome \in Retriable => Quiet(i),
         r.outcome = "success" /\ Sends(i) => applied[i] = 1,
         r.outcome = "completed" => \/ r.status = "success" /\ applied[i] = 1
                                    \/ r.status # "success" /\ Quiet(i),
         UNCHANGED <<kind, tries, staged, giteaVars>>
  PROVE  IInv'
<1> USE DEF giteaVars
<1>1. Shape'
  BY DEF IInv, Shape, Report
<1>2. \A j \in Jobs \ {i} : SameJob(j)
  BY DEF IInv, Shape, Report, SameJob
<1>3. /\ Quiet(i)' <=> Quiet(i)
      /\ NothingSent(i)' <=> NothingSent(i)
  BY DEF Quiet, NothingSent
<1>4. call'[i] = "none" /\ http'[i] = "idle" /\ report'[i] = r
  BY DEF IInv, Shape, Report
<1>5. client'[i] = "ready" => r.outcome \in Retriable
  <2>1. client[i] # "ready"
    BY DEF IInv, JobOK, BeforeSending
  <2> QED
    BY <2>1 DEF IInv, Shape, Report
<1>6. BeforeSending(i)'
  BY <1>3, <1>4, <1>5 DEF BeforeSending
<1>7. AfterSending(i)'
  BY <1>3, <1>4 DEF IInv, JobOK, AfterSending
<1>8. Reported(i)'
  BY <1>3, <1>4 DEF Reported, Sends
<1>9. Spent(i)' => Spent(i)
  BY <1>3, <1>4 DEF Spent
<1> QED
  BY <1>1, <1>2, <1>6, <1>7, <1>8, <1>9, OneJob DEF JobOK

-----------------------------------------------------------------------------
(* One lemma per group of actions. *)

LEMMA AdmissionKeeps ==
  ASSUME IInv, NEW i \in Jobs, Submit(i) \/ Request(i) \/ ResponseStarts(i) \/ Disconnect(i)
  PROVE  IInv'
<1> USE DEF callVars, giteaVars, reportVars
<1>1. /\ kind' = kind /\ answer' = answer /\ applied' = applied /\ onTheWire' = onTheWire
      /\ staged' = staged
  BY DEF Submit, Request, BodyArrives, RefuseRequest, StartHandler, ResponseStarts, Disconnect
<1>2. /\ Quiet(i)' <=> Quiet(i)
      /\ NothingSent(i)' <=> NothingSent(i)
  BY <1>1 DEF Quiet, NothingSent
<1>3. JobOK(i)
  BY DEF IInv
<1>4. CASE Submit(i)
  <2>1. /\ client'[i] = "waiting" /\ http'[i] = "body" /\ report'[i] = NoReport
        /\ tries'[i] = tries[i] + 1 /\ call' = call
        /\ tries[i] \in Nat
        /\ client[i] = "ready" /\ call[i] = "none"
    BY <1>4 DEF IInv, Shape, Submit
  <2>2. Shape'
    <3>1. tries' \in [Jobs -> 0 .. MaxTries]
      BY <1>4, CallsAssumption DEF IInv, Shape, Submit
    <3> QED
      BY <1>1, <1>4, <3>1 DEF IInv, Shape, Submit, NoReport
  <2>3. Quiet(i)
    BY <1>3, <2>1 DEF JobOK, BeforeSending
  <2>4. BeforeSending(i)'
    BY <1>2, <2>1, <2>3 DEF BeforeSending
  <2>5. AfterSending(i)'
    BY <1>1, <1>2, <2>1, <2>3 DEF AfterSending, Quiet, NothingSent
  <2>6. Reported(i)'
    BY <2>1 DEF Reported, NoReport, Retriable
  <2>7. Spent(i)' => Spent(i)
    BY <1>1, <1>2, <2>1 DEF Spent
  <2>8. \A j \in Jobs \ {i} : SameJob(j)
    BY <1>1, <1>4 DEF IInv, Shape, Submit, SameJob
  <2> QED
    BY <1>1, <2>2, <2>4, <2>5, <2>6, <2>7, <2>8, OneJob DEF JobOK
<1>5. CASE BodyArrives(i) \/ ResponseStarts(i) \/ Disconnect(i)
  <2>1. /\ http[i] # "idle" /\ tries' = tries /\ call' = call /\ report' = report
        /\ client'[i] \in {client[i], "stopped"}
        /\ \/ http[i] = "body" /\ http'[i] = "identity"
           \/ http[i] = "service" /\ http'[i] = "open"
           \/ http'[i] = "idle"
    BY <1>5 DEF IInv, Shape, BodyArrives, ResponseStarts, Disconnect
  <2>2. Shape'
    BY <1>1, <1>5 DEF IInv, Shape, BodyArrives, ResponseStarts, Disconnect
  <2>3. BeforeSending(i)' /\ AfterSending(i)' /\ Reported(i)' /\ (Spent(i)' => Spent(i))
    BY <1>1, <1>2, <1>3, <2>1 DEF JobOK, BeforeSending, AfterSending, Reported, Spent, Sends
  <2>4. \A j \in Jobs \ {i} : SameJob(j)
    BY <1>1, <1>5 DEF IInv, Shape, BodyArrives, ResponseStarts, Disconnect, SameJob
  <2> QED
    BY <1>1, <2>2, <2>3, <2>4, OneJob DEF JobOK
<1>6. CASE RefuseRequest(i)
  <2>1. /\ http[i] \in {"body", "identity"} /\ http'[i] = "idle" /\ tries' = tries
        /\ call' = call /\ client'[i] = "ready"
        /\ report'[i].outcome = "refused"
    BY <1>6 DEF IInv, Shape, RefuseRequest, NoReport
  <2>2. Quiet(i) /\ call[i] = "none"
    BY <1>3, <2>1 DEF JobOK, BeforeSending
  <2>3. Shape'
    BY <1>1, <1>6 DEF IInv, Shape, RefuseRequest, NoReport, Outcomes
  <2>4. BeforeSending(i)' /\ AfterSending(i)' /\ Reported(i)' /\ (Spent(i)' => Spent(i))
    BY <1>1, <1>2, <1>3, <2>1, <2>2 DEF JobOK, BeforeSending, AfterSending, Reported, Spent
  <2>5. \A j \in Jobs \ {i} : SameJob(j)
    BY <1>1, <1>6 DEF IInv, Shape, RefuseRequest, SameJob
  <2> QED
    BY <1>1, <2>3, <2>4, <2>5, OneJob DEF JobOK
<1>7. CASE StartHandler(i)
  <2>1. /\ http[i] = "identity" /\ http'[i] = "service" /\ tries' = tries /\ client' = client
        /\ call'[i] = "dispatched" /\ report' = report
    BY <1>7 DEF IInv, Shape, StartHandler
  <2>2. Quiet(i) /\ client[i] # "ready"
    BY <1>3, <2>1 DEF JobOK, BeforeSending
  <2>3. Shape'
    BY <1>1, <1>7 DEF IInv, Shape, StartHandler
  <2>4. BeforeSending(i)' /\ AfterSending(i)' /\ Reported(i)' /\ (Spent(i)' => Spent(i))
    BY <1>1, <1>2, <1>3, <2>1, <2>2
       DEF JobOK, BeforeSending, AfterSending, Reported, Spent, Sends, Retriable
  <2>5. \A j \in Jobs \ {i} : SameJob(j)
    BY <1>1, <1>7 DEF IInv, Shape, StartHandler, SameJob
  <2> QED
    BY <1>1, <2>3, <2>4, <2>5, OneJob DEF JobOK
<1> QED
  BY <1>4, <1>5, <1>6, <1>7 DEF Request

LEMMA UntilSentKeeps ==
  ASSUME IInv, NEW i \in Jobs, Dispatch(i) \/ Prepare(i) \/ SendFails(i)
  PROVE  IInv'
<1> USE DEF giteaVars
<1>1. JobOK(i) /\ kind[i] \in Kinds
  BY DEF IInv, Shape
<1>2. Quiet(i)
  BY <1>1 DEF Dispatch, Prepare, SendFails, JobOK, BeforeSending
<1>3. /\ UNCHANGED <<kind, giteaVars>>
      /\ call[i] \in {"dispatched", "permitted", "ready"}
      /\ tries' = tries
  BY DEF Dispatch, Prepare, SendFails, Report, requestVars
<1>4. ASSUME NEW r \in [outcome : Outcomes, status : {"none", "success", "refusal"}],
             Report(i, r), staged' = staged,
             r.outcome = "success" => ~Sends(i), r.outcome # "completed"
      PROVE  IInv'
  BY <1>2, <1>3, <1>4, ReportKeeps
<1>5. CASE \E outcome \in {"busy", "invalid"} :
             Report(i, [NoReport EXCEPT !.outcome = outcome]) /\ staged' = staged
  BY <1>4, <1>5 DEF NoReport, Outcomes
<1>6. CASE kind[i] = "local" /\ Report(i, Succeeded("none")) /\ staged' = staged
  BY <1>4, <1>6 DEF Succeeded, Outcomes, Sends
<1>7. CASE SendFails(i)
  <2>1. PICK error \in BeforeSend \cup {"connect", "transport"} :
          Report(i, Failure(kind[i], Plain(error)))
    BY <1>7 DEF SendFails
  <2> DEFINE r == Failure(kind[i], Plain(error))
  <2>2. r.outcome \in {"invalid", "not_sent", "unknown"} /\ r \in [outcome : Outcomes, status : {"none"}]
    BY <1>1, SendFailureIsNotSent
  <2>3. staged' = staged
    BY <1>7 DEF SendFails
  <2> HIDE DEF r
  <2>4. r \in [outcome : Outcomes, status : {"none", "success", "refusal"}]
    BY <2>2
  <2> QED
    BY <1>4, <2>1, <2>2, <2>3, <2>4 DEF r
<1>8. CASE /\ requestVars' = requestVars /\ reportVars' = reportVars
           /\ \/ /\ call[i] = "dispatched"
                 /\ call' = [call EXCEPT ![i] = "permitted"]
                 /\ staged' = staged
              \/ /\ call[i] = "permitted"
                 /\ call' = [call EXCEPT ![i] = "ready"]
                 /\ kind[i] = "secret" => staged = "staged"
                 /\ staged' = IF kind[i] = "secret" THEN "taken" ELSE staged
  <2> USE DEF requestVars, reportVars
  <2>1. Shape'
    BY <1>3, <1>8 DEF IInv, Shape, Holding
  <2>2. /\ Quiet(i)' <=> Quiet(i)
        /\ NothingSent(i)' <=> NothingSent(i)
    BY <1>3 DEF Quiet, NothingSent
  <2>3. call'[i] \in {"permitted", "ready"}
    BY <1>8 DEF IInv, Shape
  <2>4. BeforeSending(i)' /\ AfterSending(i)' /\ Reported(i)'
    BY <1>1, <1>2, <1>3, <1>8, <2>2, <2>3
       DEF JobOK, BeforeSending, AfterSending, Reported, Sends, Retriable
  <2>5. \A j \in Jobs \ {i} : SameJob(j)
    BY <1>3, <1>8 DEF IInv, Shape, SameJob
  <2>6. \/ (Spent(i)' => Spent(i)) /\ (staged = "taken" => staged' = "taken")
        \/ staged = "staged" /\ staged' = "taken"
    BY <1>2, <1>3, <1>8, <2>2 DEF IInv, Shape, Spent
  <2> QED
    BY <2>1, <2>4, <2>5, <2>6, OneJob DEF JobOK
<1> QED
  BY <1>5, <1>6, <1>7, <1>8 DEF Dispatch, Prepare, Sends, InvalidReport

LEMMA SentKeeps ==
  ASSUME IInv, NEW i \in Jobs, Send(i) \/ TransportFails(i) \/ StatusArrives(i) \/ Receive(i)
  PROVE  IInv'
<1> USE DEF giteaVars
<1>1. JobOK(i) /\ kind[i] \in Kinds
  BY DEF IInv, Shape
<1>2. CASE Send(i)
  <2> USE DEF requestVars, reportVars
  <2>1. Quiet(i) /\ tries[i] # 0
    BY <1>1, <1>2 DEF Send, JobOK, BeforeSending
  <2>2. tries[i] \in 1 .. MaxTries
    BY <2>1, CallsAssumption DEF IInv, Shape
  <2>3. Shape'
    BY <1>2, <2>2 DEF IInv, Shape, Send, Holding
  <2>4. call[i] = "ready" /\ call'[i] = "awaiting" /\ answer'[i] = "none" /\ applied' = applied
    BY <1>2 DEF IInv, Shape, Send
  <2>5. BeforeSending(i)'
    BY <1>1, <1>2, <2>1, <2>4 DEF Send, JobOK, BeforeSending
  <2>6. AfterSending(i)'
    BY <1>2, <2>1, <2>4 DEF Send, AfterSending, Quiet, NothingSent
  <2>7. Reported(i)'
    BY <1>1, <1>2, <2>4 DEF Send, JobOK, Reported, Retriable
  <2>8. \A j \in Jobs \ {i} : SameJob(j)
    BY <1>2 DEF IInv, Shape, Send, SameJob
  <2>9. (Spent(i)' => Spent(i)) /\ staged' = staged
    BY <1>2, <2>4 DEF Send, Spent
  <2> QED
    BY <2>3, <2>5, <2>6, <2>7, <2>8, <2>9, OneJob DEF JobOK
<1>3. CASE TransportFails(i)
  <2> DEFINE r == [outcome |-> "unknown", status |-> "none"]
  <2>1. Report(i, r)
    BY <1>1, <1>3, TransportIsUnknown DEF TransportFails
  <2>2. /\ r \in [outcome : Outcomes, status : {"none", "success", "refusal"}]
        /\ r.outcome \notin Retriable \cup {"success", "completed"}
    BY DEF Outcomes, Retriable
  <2>3. UNCHANGED <<kind, tries, staged, giteaVars>> /\ call[i] # "none"
    BY <1>3 DEF TransportFails
  <2> HIDE DEF r
  <2> QED
    BY <2>1, <2>2, <2>3, ReportKeeps
<1>4. CASE StatusArrives(i)
  <2> USE DEF requestVars, reportVars
  <2>1. call[i] = "awaiting" /\ call'[i] = "receiving" /\ answer[i] # "none"
    BY <1>4 DEF IInv, Shape, StatusArrives
  <2>2. Shape'
    BY <1>4 DEF IInv, Shape, StatusArrives, Holding
  <2>3. /\ Quiet(i)' <=> Quiet(i)
        /\ NothingSent(i)' <=> NothingSent(i)
    BY <1>4 DEF StatusArrives, Quiet, NothingSent
  <2>4. BeforeSending(i)' /\ AfterSending(i)' /\ Reported(i)'
    BY <1>1, <1>4, <2>1, <2>3
       DEF StatusArrives, JobOK, BeforeSending, AfterSending, Reported, Sends, Retriable
  <2>5. \A j \in Jobs \ {i} : SameJob(j)
    BY <1>4 DEF IInv, Shape, StatusArrives, SameJob
  <2>6. (Spent(i)' => Spent(i)) /\ staged' = staged
    BY <1>4, <2>1 DEF StatusArrives, Spent
  <2> QED
    BY <2>2, <2>4, <2>5, <2>6, OneJob DEF JobOK
<1>5. CASE Receive(i)
  <2>1. UNCHANGED <<kind, tries, staged, giteaVars>> /\ call[i] = "receiving"
    BY <1>5 DEF Receive
  <2>2. CASE answer[i] = "refusal" /\ Report(i, [outcome |-> "completed", status |-> "refusal"])
    <3>1. Quiet(i)
      BY <1>1, <2>1, <2>2 DEF JobOK, AfterSending
    <3> QED
      BY <2>1, <2>2, <3>1, ReportKeeps DEF Outcomes
  <2>3. CASE /\ answer[i] = "success"
             /\ \E outcome \in {"success", "completed"} :
                   Report(i, [outcome |-> outcome, status |-> "success"])
    <3>1. applied[i] = 1
      BY <1>1, <2>1, <2>3 DEF JobOK, AfterSending
    <3>2. PICK outcome \in {"success", "completed"} :
            Report(i, [outcome |-> outcome, status |-> "success"])
      BY <2>3
    <3> QED
      BY <2>1, <3>1, <3>2, ReportKeeps DEF Outcomes, Retriable
  <2> QED
    BY <1>1, <1>5, <2>2, <2>3, DeliveredIsCompleted DEF Receive, Succeeded
<1> QED
  BY <1>2, <1>3, <1>4, <1>5

LEMMA SurroundingsKeep ==
  ASSUME IInv, Execute \/ Lose \/ ExpireFile
  PROVE  IInv'
<1> USE DEF requestVars, callVars, reportVars, giteaVars
<1>1. CASE Execute
  <2>1. PICK i \in Jobs, n \in 1 .. MaxTries, status \in {"success", "refusal"} :
          /\ <<i, n>> \in onTheWire
          /\ onTheWire' = onTheWire \ {<<i, n>>}
          /\ applied' = IF status = "success" THEN [applied EXCEPT ![i] = @ + 1] ELSE applied
          /\ answer' = IF call[i] = "awaiting" /\ n = tries[i]
                        THEN [answer EXCEPT ![i] = status] ELSE answer
    BY <1>1 DEF Execute
  <2>2. UNCHANGED <<kind, client, tries, http, call, staged, report>>
    BY <1>1 DEF Execute
  <2>3. JobOK(i) /\ applied[i] = 0 /\ n = tries[i]
    BY <2>1 DEF IInv, JobOK, AfterSending, NothingSent
  <2>4. ~Quiet(i) /\ NothingSent(i)'
    <3>1. ~NothingSent(i)
      BY <2>1 DEF NothingSent
    <3>2. \A m \in 1 .. MaxTries : <<i, m>> \in onTheWire => m = n
      BY <2>1, <2>3 DEF JobOK, AfterSending
    <3> QED
      BY <2>1, <3>1, <3>2 DEF Quiet, NothingSent
  <2>5. /\ call[i] \notin {"dispatched", "permitted", "ready"} /\ client[i] # "ready"
        /\ http[i] \notin {"body", "identity"} /\ report[i].outcome \notin Retriable
        /\ report[i].outcome # "completed"
        /\ report[i].outcome = "success" => ~Sends(i)
    BY <2>3, <2>4 DEF JobOK, BeforeSending, Reported, Quiet
  <2>6. applied'[i] = IF status = "success" THEN 1 ELSE 0
    BY <2>1, <2>3 DEF IInv, Shape
  <2>7. Shape'
    BY <2>1, <2>2 DEF IInv, Shape
  <2>8. /\ call[i] = "awaiting" => answer'[i] = status
        /\ call[i] # "receiving"
    BY <2>1, <2>3, <2>4 DEF IInv, Shape, JobOK, AfterSending, Quiet
  <2>9. BeforeSending(i)'
    BY <2>2, <2>3, <2>5 DEF JobOK, BeforeSending
  <2>10. AfterSending(i)'
    BY <2>1, <2>2, <2>4, <2>6, <2>8 DEF AfterSending, Quiet, NothingSent
  <2>11. Reported(i)'
    BY <2>2, <2>3, <2>5 DEF JobOK, Reported, Sends
  <2>12. Spent(i)' => Spent(i)
    BY <2>2, <2>4 DEF Spent
  <2>13. \A j \in Jobs \ {i} : SameJob(j)
    BY <2>1, <2>2 DEF IInv, Shape, SameJob
  <2> QED
    BY <2>2, <2>7, <2>9, <2>10, <2>11, <2>12, <2>13, OneJob DEF JobOK
<1>2. CASE Lose
  <2>1. PICK request \in onTheWire : onTheWire' = onTheWire \ {request}
    BY <1>2 DEF Lose
  <2>2. UNCHANGED <<kind, client, tries, http, call, staged, answer, applied, report>>
    BY <1>2 DEF Lose
  <2>3. PICK i \in Jobs, n \in 1 .. MaxTries : request = <<i, n>>
    BY <2>1 DEF IInv, Shape
  <2>4. Shape'
    BY <2>1, <2>2 DEF IInv, Shape
  <2>5. (Quiet(i) => Quiet(i)') /\ (NothingSent(i) => NothingSent(i)')
    BY <2>1, <2>2 DEF Quiet, NothingSent
  <2>6. JobOK(i)' /\ (Spent(i)' => Spent(i))
    BY <2>1, <2>2, <2>5 DEF IInv, JobOK, BeforeSending, AfterSending, Reported, Spent, Sends
  <2>7. \A j \in Jobs \ {i} : SameJob(j)
    BY <2>1, <2>2, <2>3 DEF SameJob
  <2> QED
    BY <2>2, <2>4, <2>6, <2>7, OneJob
<1>3. CASE ExpireFile
  <2>1. UNCHANGED <<kind, client, tries, http, call, onTheWire, answer, applied, report>>
    BY <1>3 DEF ExpireFile
  <2>2. Shape' /\ staged = "staged"
    BY <1>3, <2>1 DEF IInv, Shape, ExpireFile
  <2>3. \A j \in Jobs : JobOK(j)' /\ (Spent(j)' <=> Spent(j))
    BY <2>1, SameJobKept DEF IInv, SameJob
  <2> QED
    BY <2>2, <2>3 DEF IInv, FileOnce
<1> QED
  BY <1>1, <1>2, <1>3

-----------------------------------------------------------------------------
LEMMA IInvInit == Init => IInv
<1> SUFFICES ASSUME Init PROVE IInv
  OBVIOUS
<1>1. Shape
  BY CallsAssumption DEF Init, Shape, NoReport, Holding
<1>2. ASSUME NEW j \in Jobs PROVE JobOK(j) /\ ~Spent(j)
  BY DEF Init, JobOK, BeforeSending, AfterSending, Reported, Spent, Quiet, NothingSent,
         NoReport, Retriable
<1> QED
  BY <1>1, <1>2 DEF IInv, FileOnce

LEMMA IInvNext == IInv /\ [Next]_vars => IInv'
<1> SUFFICES ASSUME IInv, [Next]_vars PROVE IInv'
  OBVIOUS
<1>1. CASE UNCHANGED vars
  <2>1. UNCHANGED <<kind, client, tries, http, call, staged, onTheWire, answer, applied, report>>
    BY <1>1 DEF vars, requestVars, callVars, giteaVars, reportVars
  <2>2. \A j \in Jobs : JobOK(j)' /\ (Spent(j)' <=> Spent(j))
    BY <2>1, SameJobKept DEF IInv, SameJob
  <2> QED
    BY <2>1, <2>2 DEF IInv, FileOnce, Shape
<1>2. ASSUME NEW j \in Jobs, Submit(j) \/ Request(j) \/ ResponseStarts(j) \/ Disconnect(j)
      PROVE  IInv'
  BY <1>2, AdmissionKeeps
<1>3. ASSUME NEW j \in Jobs, Handle(j) PROVE IInv'
  BY <1>3, UntilSentKeeps, SentKeeps DEF Handle
<1>4. CASE Execute \/ Lose \/ ExpireFile
  BY <1>4, SurroundingsKeep
<1> QED
  BY <1>1, <1>2, <1>3, <1>4 DEF Next

LEMMA Invariance == Spec => []IInv
BY IInvInit, IInvNext, PTL DEF Spec

(* A client that sends its change again only when its report says that is  *)
(* safe has it made at most once, and one uploaded secret is stored at     *)
(* most once, for any number of clients, slots and tries.                  *)
THEOREM ChangesAtMostOnce == Spec => []AtMostOnce
<1>1. IInv => AtMostOnce
  <2> SUFFICES ASSUME IInv PROVE AtMostOnce
    OBVIOUS
  <2>1. ASSUME NEW j \in Jobs
        PROVE  applied[j] \in {0, 1} /\ (applied[j] = 1 /\ kind[j] = "secret" => Spent(j))
    BY DEF IInv, JobOK, AfterSending, Spent, Quiet
  <2>2. \A i, j \in Jobs : Spent(i) /\ Spent(j) => i = j
    BY DEF IInv, FileOnce
  <2> QED
    BY <2>1, <2>2 DEF AtMostOnce
<1> QED
  BY Invariance, <1>1, PTL

(* A report that invites another try is made of a job that was not and     *)
(* will not be executed; a success, and a failure with a status, say what  *)
(* happened.                                                               *)
THEOREM OutcomesAreTruthful == Spec => []OutcomeTruthful
<1>1. IInv => OutcomeTruthful
  BY DEF IInv, JobOK, Reported, OutcomeTruthful, Quiet, NothingSent
<1> QED
  BY Invariance, <1>1, PTL

-----------------------------------------------------------------------------
(* Slots: each step changes the sets of holders by its own job.  A handler *)
(* starts only where none runs (BeforeSending), or its slot would be lost. *)

Admitted == {j \in Jobs : http[j] \in {"body", "identity", "service"}}
Running == {j \in Jobs : call[j] \in Holding}

Slots ==
  /\ ingress \in Nat /\ permits \in Nat /\ past \subseteq Jobs
  /\ ingress + Cardinality(Admitted) = Limit
  /\ permits + Cardinality(Running) = ExecutionLimit

One(j, S) == IF j \in S THEN 1 ELSE 0

LEMMA CountStep ==
  ASSUME NEW S, NEW T, NEW i, IsFiniteSet(S), T \ {i} = S \ {i}
  PROVE  /\ Cardinality(S) \in Nat /\ Cardinality(T) \in Nat
         /\ Cardinality(T) - One(i, T) = Cardinality(S) - One(i, S)
<1> DEFINE R == S \ {i}
<1>1. IsFiniteSet(R) /\ Cardinality(R) \in Nat
  BY FS_RemoveElement, FS_CardinalityType
<1>2. IsFiniteSet(R \cup {i}) /\ Cardinality(R \cup {i}) = Cardinality(R) + 1
  <2>1. i \notin R
    OBVIOUS
  <2> HIDE DEF R
  <2> QED
    BY <1>1, <2>1, FS_AddElement
<1>3. /\ i \in S => S = R \cup {i}
      /\ i \notin S => S = R
      /\ i \in T => T = R \cup {i}
      /\ i \notin T => T = R
  OBVIOUS
<1> HIDE DEF R
<1>4. Cardinality(S) = Cardinality(R) + One(i, S)
  <2>1. CASE i \in S
    BY <1>2, <1>3, <2>1 DEF One
  <2>2. CASE i \notin S
    BY <1>1, <1>3, <2>2 DEF One
  <2> QED
    BY <2>1, <2>2
<1>5. Cardinality(T) = Cardinality(R) + One(i, T)
  <2>1. CASE i \in T
    BY <1>2, <1>3, <2>1 DEF One
  <2>2. CASE i \notin T
    BY <1>1, <1>3, <2>2 DEF One
  <2> QED
    BY <2>1, <2>2
<1>6. One(i, S) \in {0, 1} /\ One(i, T) \in {0, 1}
  BY DEF One
<1> QED
  BY <1>1, <1>4, <1>5, <1>6

(* A step of job i that takes and returns exactly its own slots.           *)
LEMMA SlotsOfOne ==
  ASSUME Slots, NEW i \in Jobs,
         \A j \in Jobs \ {i} : http'[j] = http[j] /\ call'[j] = call[j],
         ingress' = (ingress + One(i, Admitted)) - One(i, Admitted'), ingress' \in Nat,
         permits' = (permits + One(i, Running)) - One(i, Running'), permits' \in Nat,
         past' \subseteq Jobs
  PROVE  Slots'
<1>1. IsFiniteSet(Admitted) /\ IsFiniteSet(Running)
  BY CallsAssumption, FS_Subset DEF Admitted, Running
<1>2. Admitted' \ {i} = Admitted \ {i} /\ Running' \ {i} = Running \ {i}
  BY DEF Admitted, Running
<1>3. /\ Cardinality(Admitted) \in Nat /\ Cardinality(Admitted') \in Nat
      /\ Cardinality(Admitted') - One(i, Admitted') = Cardinality(Admitted) - One(i, Admitted)
  BY <1>1, <1>2, CountStep
<1>4. /\ Cardinality(Running) \in Nat /\ Cardinality(Running') \in Nat
      /\ Cardinality(Running') - One(i, Running') = Cardinality(Running) - One(i, Running)
  BY <1>1, <1>2, CountStep
<1>5. /\ One(i, Admitted) \in Nat /\ One(i, Admitted') \in Nat
      /\ One(i, Running) \in Nat /\ One(i, Running') \in Nat
  BY DEF One
<1>6. Limit \in Nat /\ ExecutionLimit \in Nat
  BY CallsAssumption DEF ExecutionLimit, Min2, Max2
<1>7. ingress' + Cardinality(Admitted') = Limit
  BY <1>3, <1>5, <1>6 DEF Slots
<1>8. permits' + Cardinality(Running') = ExecutionLimit
  BY <1>4, <1>5, <1>6 DEF Slots
<1> QED
  BY <1>7, <1>8 DEF Slots

LEMMA ReportKeepsSlots ==
  ASSUME Shape, Slots, NEW i \in Jobs, NEW r, Report(i, r)
  PROVE  Slots'
<1>1. call'[i] = "none" /\ http'[i] = "idle"
  BY DEF Shape, Report
<1>2. ingress' = (ingress + One(i, Admitted)) - One(i, Admitted') /\ ingress' \in Nat
  BY <1>1 DEF Slots, Report, ReturnedIngress, One, Admitted
<1>3. permits' = (permits + One(i, Running)) - One(i, Running') /\ permits' \in Nat
  BY <1>1 DEF Slots, Report, One, Running, Holding
<1>4. past' \subseteq Jobs
  BY DEF Slots, Report
<1>5. \A j \in Jobs \ {i} : http'[j] = http[j] /\ call'[j] = call[j]
  BY DEF Shape, Report
<1> QED
  BY <1>2, <1>3, <1>4, <1>5, SlotsOfOne

LEMMA AdmissionKeepsSlots ==
  ASSUME IInv, Slots, NEW i \in Jobs,
         Submit(i) \/ Request(i) \/ ResponseStarts(i) \/ Disconnect(i)
  PROVE  Slots'
<1> USE DEF callVars, reportVars
<1>0. Shape /\ JobOK(i)
  BY DEF IInv
<1>1. \A j \in Jobs \ {i} : http'[j] = http[j] /\ call'[j] = call[j]
  BY <1>0 DEF Shape, Submit, Request, BodyArrives, RefuseRequest, StartHandler, ResponseStarts,
         Disconnect
<1>2. permits' = permits /\ past' = past
  BY DEF Submit, Request, BodyArrives, RefuseRequest, StartHandler, ResponseStarts, Disconnect
<1>3. One(i, Running') = One(i, Running)
  <2>1. call'[i] = call[i] \/ (call[i] = "none" /\ call'[i] = "dispatched")
    BY <1>0 DEF Shape, JobOK, BeforeSending, Submit, Request, BodyArrives, RefuseRequest,
                StartHandler, ResponseStarts, Disconnect
  <2> QED
    BY <2>1 DEF One, Running, Holding
<1>4. ingress' = (ingress + One(i, Admitted)) - One(i, Admitted') /\ ingress' \in Nat
  <2> DEFINE Inside == {"body", "identity", "service"}
  <2>1. /\ ingress' = (ingress + (IF http[i] \in Inside THEN 1 ELSE 0))
                        - (IF http'[i] \in Inside THEN 1 ELSE 0)
        /\ ingress' \in Nat
    <3>1. ingress \in Nat
      BY DEF Slots
    <3>2. CASE Submit(i)
      BY <1>0, <3>1, <3>2 DEF Shape, Submit
    <3>3. CASE BodyArrives(i) \/ StartHandler(i)
      BY <1>0, <3>1, <3>3 DEF Shape, BodyArrives, StartHandler
    <3>4. CASE RefuseRequest(i) \/ ResponseStarts(i) \/ Disconnect(i)
      BY <1>0, <3>1, <3>4 DEF Shape, RefuseRequest, ResponseStarts, Disconnect, ReturnedIngress
    <3> QED
      BY <3>2, <3>3, <3>4 DEF Request
  <2>2. /\ One(i, Admitted) = IF http[i] \in Inside THEN 1 ELSE 0
        /\ One(i, Admitted') = IF http'[i] \in Inside THEN 1 ELSE 0
    BY DEF One, Admitted
  <2> HIDE DEF Inside
  <2> QED
    BY <2>1, <2>2
<1>5. permits' = (permits + One(i, Running)) - One(i, Running')
  BY <1>2, <1>3 DEF Slots, One
<1> QED
  BY <1>1, <1>2, <1>4, <1>5, SlotsOfOne DEF Slots

LEMMA HandlerKeepsSlots ==
  ASSUME Shape, Slots, NEW i \in Jobs, Handle(i)
  PROVE  Slots'
<1>1. CASE \E r : Report(i, r)
  BY <1>1, ReportKeepsSlots
<1>2. CASE /\ http' = http /\ ingress' = ingress /\ past' = past
           /\ \/ /\ call[i] = "dispatched" /\ permits > 0 /\ permits' = permits - 1
                 /\ call' = [call EXCEPT ![i] = "permitted"]
              \/ /\ call[i] \in Holding /\ permits' = permits
                 /\ \E next \in Holding : call' = [call EXCEPT ![i] = next]
  <2>1. \A j \in Jobs \ {i} : http'[j] = http[j] /\ call'[j] = call[j]
    BY <1>2 DEF Shape
  <2>2. ingress' = (ingress + One(i, Admitted)) - One(i, Admitted')
    BY <1>2 DEF Slots, One, Admitted
  <2>3. permits' = (permits + One(i, Running)) - One(i, Running') /\ permits' \in Nat
    BY <1>2 DEF Shape, Slots, One, Running, Holding
  <2> QED
    BY <1>2, <2>1, <2>2, <2>3, SlotsOfOne DEF Slots
<1>3. CASE Dispatch(i)
  BY <1>1, <1>2, <1>3 DEF Dispatch, requestVars, reportVars
<1>4. CASE Prepare(i)
  BY <1>1, <1>2, <1>4 DEF Prepare, requestVars, reportVars, Holding
<1>5. CASE SendFails(i) \/ TransportFails(i) \/ Receive(i)
  BY <1>1, <1>5 DEF SendFails, TransportFails, Receive
<1>6. CASE Send(i) \/ StatusArrives(i)
  BY <1>2, <1>6 DEF Send, StatusArrives, requestVars, reportVars, Holding
<1> QED
  BY <1>3, <1>4, <1>5, <1>6 DEF Handle

LEMMA SlotsInit == Init => Slots
<1> SUFFICES ASSUME Init PROVE Slots
  OBVIOUS
<1>1. Admitted = {} /\ Running = {}
  BY DEF Init, Admitted, Running, Holding
<1>2. ExecutionLimit \in Nat /\ Limit \in Nat
  BY CallsAssumption DEF ExecutionLimit, Min2, Max2
<1> QED
  BY <1>1, <1>2, FS_EmptySet DEF Init, Slots

LEMMA SlotsNext == IInv /\ Slots /\ [Next]_vars => Slots'
<1> SUFFICES ASSUME IInv, Slots, [Next]_vars PROVE Slots'
  OBVIOUS
<1>1. CASE UNCHANGED <<http, ingress, call, permits, past>>
  BY <1>1 DEF Slots, Admitted, Running
<1>2. CASE Execute \/ Lose \/ ExpireFile \/ UNCHANGED vars
  BY <1>1, <1>2 DEF Execute, Lose, ExpireFile, vars, requestVars, callVars, reportVars
<1>3. ASSUME NEW j \in Jobs, Submit(j) \/ Request(j) \/ ResponseStarts(j) \/ Disconnect(j)
      PROVE  Slots'
  BY <1>3, AdmissionKeepsSlots
<1>4. ASSUME NEW j \in Jobs, Handle(j) PROVE Slots'
  BY <1>4, HandlerKeepsSlots DEF IInv
<1> QED
  BY <1>2, <1>3, <1>4 DEF Next

LEMMA SlotsInvariance == Spec => []Slots
BY SlotsInit, SlotsNext, Invariance, PTL DEF Spec

(* Every slot of admission and of execution is free or held by exactly one *)
(* request or handler.                                                     *)
THEOREM SlotsAreConserved == Spec => []SlotsConserved
<1>1. Slots => SlotsConserved
  BY DEF Slots, SlotsConserved, Admitted, Running
<1> QED
  BY <1>1, SlotsInvariance, PTL

(* Every variable has its type: no slot counter leaves its range.          *)
THEOREM TypeCorrect == Spec => []TypeOK
<1>1. IInv /\ Slots => TypeOK
  <2> SUFFICES ASSUME IInv, Slots PROVE TypeOK
    OBVIOUS
  <2>1. Cardinality(Admitted) \in Nat /\ Cardinality(Running) \in Nat
    BY CallsAssumption, FS_Subset, FS_CardinalityType DEF Admitted, Running
  <2>2. Limit \in Nat /\ ExecutionLimit \in Nat
    BY CallsAssumption DEF ExecutionLimit, Min2, Max2
  <2>3. ingress \in 0 .. Limit /\ permits \in 0 .. ExecutionLimit
    BY <2>1, <2>2 DEF Slots
  <2> QED
    BY <2>3 DEF TypeOK, IInv, Shape, Slots
<1> QED
  BY <1>1, Invariance, SlotsInvariance, PTL

-----------------------------------------------------------------------------
(* The calls the file can have been taken for *)
PastTaking(j) ==
  kind[j] = "secret" /\ (call[j] \in {"ready", "awaiting", "receiving"} \/ j \in past)

LEMMA ReportKeepsTaking ==
  ASSUME Shape, NEW i \in Jobs, NEW r, Report(i, r), kind' = kind,
         call[i] \in {"ready", "awaiting", "receiving"} /\ kind[i] = "secret"
           => r.outcome \in PastValidation,
         NEW j \in Jobs, PastTaking(j)
  PROVE  PastTaking(j)'
BY DEF Shape, Report, PastTaking

LEMMA TakingKept ==
  ASSUME IInv, [Next]_vars, NEW j \in Jobs, PastTaking(j)
  PROVE  PastTaking(j)'
<1> USE DEF requestVars, callVars, giteaVars, reportVars
<1>0. Shape
  BY DEF IInv
<1>1. CASE Execute \/ Lose \/ ExpireFile \/ UNCHANGED vars
  BY <1>1 DEF Execute, Lose, ExpireFile, vars, PastTaking
<1>2. ASSUME NEW i \in Jobs, Submit(i) \/ Request(i) \/ ResponseStarts(i) \/ Disconnect(i)
      PROVE  PastTaking(j)'
  <2>1. kind' = kind /\ past' = past
    BY <1>2 DEF Submit, Request, BodyArrives, RefuseRequest, StartHandler, ResponseStarts,
                Disconnect
  <2>2. call' = call \/ (call[i] = "none" /\ call' = [call EXCEPT ![i] = "dispatched"])
    BY <1>2 DEF IInv, JobOK, BeforeSending, Submit, Request, BodyArrives, RefuseRequest,
                StartHandler, ResponseStarts, Disconnect
  <2> QED
    BY <1>0, <2>1, <2>2 DEF Shape, PastTaking
<1>3. ASSUME NEW i \in Jobs, Handle(i)
      PROVE  PastTaking(j)'
  <2>0. kind' = kind
    BY <1>3 DEF Handle, Dispatch, Prepare, SendFails, Send, TransportFails, StatusArrives, Receive
  <2>1. CASE /\ past' = past
             /\ \E next \in {"permitted", "ready", "awaiting", "receiving"} :
                  call' = [call EXCEPT ![i] = next]
             /\ call[i] \in {"ready", "awaiting", "receiving"}
                  => call'[i] \in {"ready", "awaiting", "receiving"}
    BY <1>0, <2>0, <2>1 DEF Shape, PastTaking
  <2>2. CASE call[i] \in {"dispatched", "permitted"} /\ \E r : Report(i, r)
    BY <1>0, <2>0, <2>2, ReportKeepsTaking
  <2>3. CASE SendFails(i)
    <3>1. PICK error \in BeforeSend \cup {"connect", "transport"} :
            Report(i, Failure(kind[i], Plain(error)))
      BY <2>3 DEF SendFails
    <3>2. kind[i] = "secret" => Failure(kind[i], Plain(error)).outcome \in PastValidation
      BY DEF Failure, Plain, CallOutcome, BeforeSend, PastValidation
    <3> QED
      BY <1>0, <2>0, <3>1, <3>2, ReportKeepsTaking
  <2>4. CASE TransportFails(i)
    <3>1. Report(i, [outcome |-> "unknown", status |-> "none"])
      BY <1>0, <2>4, TransportIsUnknown DEF Shape, TransportFails
    <3> QED
      BY <1>0, <2>0, <3>1, ReportKeepsTaking DEF PastValidation
  <2>5. CASE Receive(i)
    <3>1. PICK outcome \in {"success", "completed"}, status \in {"success", "refusal"} :
            Report(i, [outcome |-> outcome, status |-> status])
      BY <1>0, <2>5, DeliveredIsCompleted DEF Shape, Receive, Succeeded
    <3> QED
      BY <1>0, <2>0, <3>1, ReportKeepsTaking DEF PastValidation
  <2>6. CASE Dispatch(i) \/ Prepare(i)
    BY <1>0, <2>1, <2>2, <2>6 DEF Shape, Dispatch, Prepare
  <2>7. CASE Send(i) \/ StatusArrives(i)
    BY <1>0, <2>1, <2>7 DEF Shape, Send, StatusArrives
  <2> QED
    BY <1>3, <2>3, <2>4, <2>5, <2>6, <2>7 DEF Handle
<1> QED
  BY <1>1, <1>2, <1>3 DEF Next

(* The uploaded file is taken only for a call that gets past validation,   *)
(* however many clients name it and whatever else ends their calls.        *)
THEOREM FileIsKept == Spec => []FileKept
<1>1. Init => FileKept
  BY DEF Init, FileKept
<1>2. IInv /\ FileKept /\ [Next]_vars => FileKept'
  <2> SUFFICES ASSUME IInv, FileKept, [Next]_vars, staged' = "taken"
               PROVE  \E j \in Jobs : PastTaking(j)'
    BY DEF FileKept, PastTaking
  <2>1. CASE staged = "taken"
    <3>1. PICK j \in Jobs : PastTaking(j)
      BY <2>1 DEF FileKept, PastTaking
    <3> QED
      BY <3>1, TakingKept
  <2>2. CASE staged # "taken"
    <3>1. PICK i \in Jobs : /\ kind[i] = "secret" /\ kind' = kind
                            /\ call' = [call EXCEPT ![i] = "ready"]
      BY <2>2 DEF Next, Handle, Submit, Request, BodyArrives, RefuseRequest, StartHandler,
                  ResponseStarts, Disconnect, Dispatch, Prepare, SendFails, Send,
                  TransportFails, StatusArrives, Receive, Execute, Lose, ExpireFile,
                  vars, requestVars, callVars, giteaVars, reportVars
    <3> QED
      BY <3>1 DEF IInv, Shape, PastTaking
  <2> QED
    BY <2>1, <2>2
<1> QED
  BY <1>1, <1>2, Invariance, PTL DEF Spec
=============================================================================
