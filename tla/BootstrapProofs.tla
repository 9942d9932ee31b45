--------------------------- MODULE BootstrapProofs ---------------------------
(***************************************************************************)
(* The report of a bootstrap run is true, whatever the declarations, the   *)
(* number of runs, what other users change and which answers are lost.     *)
(***************************************************************************)
EXTENDS Bootstrap, TLAPS

-----------------------------------------------------------------------------
(* The inductive invariant *)

(* The requests a target of each kind may come to.                         *)
Way(kind) ==
  CASE kind \in Put -> {"edit"}
    [] kind \in {"label", "hook"} -> {"inventory", "match", "create", "edit"}
    [] kind = "key" -> {"inventory", "match", "create"}
    [] kind \in {"repository", "team"} -> {"lookup", "create", "reread"}
    [] kind = "protection" -> {"lookup", "create", "reread", "edit"}
    [] kind = "variable" -> {"lookup", "create", "edit"}
    [] kind = "token" -> {"lookup", "create"}
    [] OTHER -> {"lookup"}

Requesting == at \notin {"validate", "next", "ended"}
Loaded(kind) == inventory[kind] \in [Of(kind) -> Holdings]

(* Where the workflow is: at a request of its target's way, or between two *)
(* targets.                                                                *)
OnItsWay ==
  /\ at \in {"validate", "next"} => target = NoTarget
  /\ Requesting => target \in Targets /\ at \in Way(Kind[target])
  /\ at = "match" => Loaded(Kind[target])

(* What is wrong with an accepted declaration is what no check refuses.    *)
FlawsUnrefused == \A pair \in flaw : pair[2] \notin Refused(Kind[pair[1]])

(* Gitea holds a value of each attribute.                                  *)
AttributesHeld == \A t \in Targets : Kind[t] \in Attributes => upstream[t] # "absent"

(* All that was created without a compensation are collaborators.          *)
CompensatedBut(missing) == \A t \in made \ compensations : t \in missing \/ Kind[t] \in Unreversed

(* While it goes on, the report is exact: what it changed and created is   *)
(* what it says, and the target it is about is not yet mentioned.          *)
ReportExact ==
  /\ unchanged \subseteq done /\ target \notin done
  /\ made \subseteq changed
  /\ at # "ended" =>
       /\ done = applied \cup unchanged
       /\ changed = applied /\ compensations \subseteq made /\ CompensatedBut({})
       /\ failure = NoFailure /\ ~complete

(* Once it has ended, only the target of the failed step may be amiss, and *)
(* what is said of its request allows for it.                              *)
EndAccounted ==
  at = "ended" =>
    /\ applied \subseteq changed /\ compensations \subseteq made
    /\ unchanged \cap changed = {}
    /\ complete => done = Targets /\ failure = NoFailure
    /\ ~complete =>
         /\ target \in Targets /\ failure.of = target /\ failure.said # "nothing"
         /\ changed \subseteq applied \cup {target}
         /\ CompensatedBut({target})
         /\ failure.said \in {"refused", "not sent"} => target \notin changed

(* A request of this run that Gitea may still execute is the failed one,   *)
(* and its effect is reported as unknown.                                  *)
LateUnknown ==
  \A r \in inFlight :
    /\ r.run <= run
    /\ r.run = run => at = "ended" /\ ~complete /\ r.of = target /\ failure.said = "unknown"

Settled(t) ==
  upstream[t] \in IF Kind[t] \in {"repository", "team"} THEN {"other", "declared"} ELSE {"declared"}

(* What is done stays done, and what an inventory showed as declared stays *)
(* so, unless another user changes it.                                     *)
StaysSettled ==
  meddling = 0 =>
    /\ \A t \in done : Settled(t)
    /\ \A kind \in Listed : Loaded(kind) =>
         \A t \in Of(kind) : inventory[kind][t] = "declared" => upstream[t] = "declared"

IInv ==
  /\ TypeOK /\ OnItsWay /\ FlawsUnrefused /\ AttributesHeld
  /\ ReportExact /\ EndAccounted /\ LateUnknown /\ StaysSettled

-----------------------------------------------------------------------------
(* What the steps of the proof have in common *)

(* The assumptions on the bounds, one at a time.                           *)
LEMMA Constants == MaxRuns \in Nat \ {0} /\ MaxMeddling \in Nat
BY BootstrapAssumption

(* The requests for a target that a run may give up on.                    *)
GaveUp(n, t) == {[run |-> n, of |-> t, request |-> q] : q \in {"create", "edit"}}

LEMMA GaveUpFields ==
  ASSUME NEW n \in 1 .. MaxRuns, NEW t \in Targets, NEW r \in GaveUp(n, t)
  PROVE  /\ r \in [run : 1 .. MaxRuns, of : Targets, request : {"create", "edit"}]
         /\ r.run = n /\ r.of = t
BY DEF GaveUp

LEMMA RunTyped ==
  ASSUME TypeOK
  PROVE  run \in 1 .. MaxRuns /\ run \in Nat /\ run <= run
<1>1. run \in 1 .. MaxRuns
  BY DEF TypeOK
<1> QED
  BY <1>1, Constants

(* The sentinel is no target.                                              *)
LEMMA NoTargetApart == TypeOK => NoTarget \notin Targets
BY BootstrapAssumption DEF TypeOK, Targets

(* Every way is made of requests.                                          *)
LEMMA WayRequests ==
  ASSUME NEW kind
  PROVE  Way(kind) \subseteq {"lookup", "inventory", "match", "create", "reread", "edit"}
BY DEF Way

(* A step of the workflow leaves the declaration alone.                    *)
LEMMA SameDeclaration ==
  ASSUME UNCHANGED Kind
  PROVE  /\ Targets' = Targets
         /\ \A kind : Of(kind)' = Of(kind)
BY DEF Targets, Of

(* No one but another user takes anything from Gitea.                      *)
Improves == \A t \in Targets : upstream'[t] = upstream[t] \/ upstream'[t] = "declared"

(* An inventory is kept, or shows what Gitea holds.                        *)
Watches ==
  /\ DOMAIN inventory' = Listed
  /\ \A kind \in Listed : \/ inventory'[kind] = inventory[kind]
                          \/ inventory'[kind] = [t \in Of(kind) |-> upstream[t]]
                          \/ inventory'[kind] = Unloaded

(* An executed request brings its target to what was declared.             *)
LEMMA ExecuteEffect ==
  ASSUME TypeOK, NEW t \in Targets, NEW request, Execute(t, request)
  PROVE  /\ upstream' \in [Targets -> Holdings] /\ Improves
         /\ upstream'[t] = "declared"
         /\ changed' = changed \cup {t}
         /\ made' = IF Creates(t, request) THEN made \cup {t} ELSE made
<1>1. upstream \in [Targets -> Holdings]
  BY DEF TypeOK
<1>2. upstream' = [upstream EXCEPT ![t] = "declared"]
  BY DEF Execute
<1> QED
  BY <1>1, <1>2 DEF Execute, Improves, Holdings

(* Inventories keep their type.                                            *)
LEMMA WatchesType ==
  ASSUME TypeOK, UNCHANGED Kind, Watches
  PROVE  /\ DOMAIN inventory' = Listed
         /\ \A kind \in Listed :
              inventory'[kind] = Unloaded \/ inventory'[kind] \in [Of(kind)' -> Holdings]
<1>1. \A kind \in Listed :
        /\ inventory[kind] = Unloaded \/ inventory[kind] \in [Of(kind) -> Holdings]
        /\ Of(kind)' = Of(kind)
        /\ [t \in Of(kind) |-> upstream[t]] \in [Of(kind) -> Holdings]
  BY SameDeclaration DEF TypeOK, Of
<1> QED
  BY <1>1 DEF Watches

(* What is settled stays settled.                                          *)
LEMMA SettledStays ==
  ASSUME TypeOK, AttributesHeld, StaysSettled, Improves, Watches, UNCHANGED <<Kind, meddling>>,
         \A t \in done' \ done : t \in Targets /\ (meddling = 0 => Settled(t)')
  PROVE  AttributesHeld' /\ StaysSettled'
<1>1. Targets' = Targets /\ (\A kind : Of(kind)' = Of(kind)) /\ done \subseteq Targets
  BY SameDeclaration DEF TypeOK
<1>2. AttributesHeld'
  BY <1>1 DEF AttributesHeld, Improves
<1>3. ASSUME NEW t \in Targets, Settled(t) PROVE Settled(t)'
  BY <1>3 DEF Settled, Improves
<1>4. ASSUME NEW kind \in Listed, meddling = 0, Loaded(kind)',
             NEW t \in Of(kind), inventory'[kind][t] = "declared"
      PROVE  upstream'[t] = "declared"
  <2>1. t \in Targets
    BY DEF Of
  <2>2. CASE inventory'[kind] = inventory[kind]
    <3>1. Loaded(kind)
      BY <1>1, <1>4, <2>2 DEF Loaded
    <3>2. upstream[t] = "declared"
      BY <1>4, <2>2, <3>1 DEF StaysSettled
    <3> QED
      BY <2>1, <3>2 DEF Improves
  <2>3. CASE inventory'[kind] = [u \in Of(kind) |-> upstream[u]]
    BY <1>4, <2>1, <2>3 DEF Improves
  <2>4. CASE inventory'[kind] = Unloaded
    <3>1. DOMAIN inventory'[kind] = Of(kind)
      BY <1>1, <1>4 DEF Loaded
    <3> QED
      BY <2>4, <3>1 DEF Unloaded
  <2> QED
    BY <2>2, <2>3, <2>4 DEF Watches
<1>5. \A t \in done' : meddling' = 0 => Settled(t)'
  BY <1>1, <1>3 DEF StaysSettled
<1> QED
  BY <1>1, <1>2, <1>4, <1>5 DEF StaysSettled

-----------------------------------------------------------------------------
(* The ends of a step *)

(* The workflow takes up a target or goes on to its next request.          *)
LEMMA MoveKeeps ==
  ASSUME IInv, at # "ended", target' \in Targets \ done, at' \in Way(Kind[target']),
         Watches, at' = "match" => inventory'[Kind[target']] \in [Of(Kind[target']) -> Holdings],
         UNCHANGED <<gitea, asked, done, report, bounds, history>>
  PROVE  IInv'
<1> USE DEF IInv
<1>1. UNCHANGED <<upstream, inFlight, Kind, flaw, adopt, done, applied, unchanged, failure,
                  compensations, complete, run, meddling, made, changed>>
  BY DEF gitea, asked, report, bounds, history
<1>2. Targets' = Targets /\ \A kind : Of(kind)' = Of(kind)
  BY <1>1, SameDeclaration
<1>3. at' \in {"lookup", "inventory", "match", "create", "reread", "edit"}
  BY WayRequests
<1>4. TypeOK'
  <2>1. /\ DOMAIN inventory' = Listed
        /\ \A kind \in Listed :
             inventory'[kind] = Unloaded \/ inventory'[kind] \in [Of(kind)' -> Holdings]
    BY <1>1, WatchesType
  <2>2. at' \in {"lookup", "inventory", "match", "create", "reread", "edit"} /\ target' \in Targets
    BY <1>3
  <2> QED
    BY <1>1, <1>2, <2>1, <2>2 DEF TypeOK
<1>5. OnItsWay'
  BY <1>1, <1>2, <1>3 DEF OnItsWay, Requesting, Loaded
<1>6. FlawsUnrefused'
  BY <1>1 DEF FlawsUnrefused
<1>7. AttributesHeld' /\ StaysSettled'
  BY <1>1, SettledStays DEF Improves
<1>8. ReportExact' /\ EndAccounted'
  BY <1>1, <1>3 DEF ReportExact, EndAccounted, CompensatedBut
<1>9. LateUnknown'
  BY <1>1, <1>3 DEF LateUnknown
<1> QED
  BY <1>4, <1>5, <1>6, <1>7, <1>8, <1>9

(* A target is found as it was declared.                                   *)
LEMMA UnchangedKeeps ==
  ASSUME IInv, Requesting, Unchanged, meddling = 0 => Settled(target),
         UNCHANGED <<gitea, asked, inventory, bounds, history>>
  PROVE  IInv'
<1> USE DEF IInv
<1>1. UNCHANGED <<upstream, inFlight, Kind, flaw, adopt, inventory, applied, failure,
                  compensations, complete, run, meddling, made, changed>>
  BY DEF gitea, asked, bounds, history, Unchanged
<1>2. Targets' = Targets /\ \A kind : Of(kind)' = Of(kind)
  BY <1>1, SameDeclaration
<1>3. target \in Targets /\ target \notin done /\ at # "ended" /\ NoTarget \notin Targets
  BY NoTargetApart DEF OnItsWay, Requesting, ReportExact
<1>4. /\ at' = "next" /\ target' = NoTarget /\ done' = done \cup {target}
      /\ unchanged' = unchanged \cup {target}
  BY DEF Unchanged, Finish
<1>5. Watches
  BY <1>1 DEF Watches, TypeOK
<1>6. TypeOK'
  <2>1. target \notin applied
    BY <1>3 DEF ReportExact
  <2>2. /\ DOMAIN inventory' = Listed
        /\ \A kind \in Listed :
             inventory'[kind] = Unloaded \/ inventory'[kind] \in [Of(kind)' -> Holdings]
    BY <1>1, <1>5, WatchesType
  <2>3. /\ done \subseteq Targets /\ unchanged \subseteq Targets /\ applied \cap unchanged = {}
        /\ done \subseteq applied \cup unchanged
    BY DEF TypeOK
  <2>4. /\ done' \subseteq Targets /\ unchanged' \subseteq Targets /\ applied' \cap unchanged' = {}
        /\ done' \subseteq applied' \cup unchanged'
    BY <1>1, <1>3, <1>4, <2>1, <2>3
  <2> QED
    BY <1>1, <1>2, <1>3, <1>4, <2>2, <2>4 DEF TypeOK
<1>7. OnItsWay'
  BY <1>4 DEF OnItsWay, Requesting
<1>8. FlawsUnrefused'
  BY <1>1 DEF FlawsUnrefused
<1>9. AttributesHeld' /\ StaysSettled'
  <2>1. \A t \in done' \ done : t \in Targets /\ (meddling = 0 => Settled(t)')
    BY <1>1, <1>3, <1>4 DEF Settled
  <2> QED
    BY <1>1, <1>5, <2>1, SettledStays DEF Improves
<1>10. ReportExact'
  <2>1. NoTarget \notin done'
    BY <1>3, <1>4 DEF TypeOK
  <2> QED
    BY <1>1, <1>3, <1>4, <2>1 DEF ReportExact, CompensatedBut
<1>11. EndAccounted'
  BY <1>4 DEF EndAccounted
<1>12. LateUnknown'
  BY <1>1, <1>3 DEF LateUnknown
<1> QED
  BY <1>6, <1>7, <1>8, <1>9, <1>10, <1>11, <1>12

(* A target is brought to what was declared; a creation is compensated,    *)
(* unless it is that of a collaborator.                                    *)
LEMMA AppliedKeeps ==
  ASSUME IInv, Requesting, NEW request, Execute(target, request),
         NEW undo, Applied(undo),
         undo = IF Creates(target, request) /\ Kind[target] \notin Unreversed THEN {target} ELSE {},
         UNCHANGED <<inFlight, asked, inventory, bounds>>
  PROVE  IInv'
<1> USE DEF IInv
<1>1. UNCHANGED <<inFlight, Kind, flaw, adopt, inventory, unchanged, failure, complete, run,
                  meddling>>
  BY DEF asked, bounds, Applied
<1>2. Targets' = Targets /\ \A kind : Of(kind)' = Of(kind)
  BY <1>1, SameDeclaration
<1>3. target \in Targets /\ target \notin done /\ at # "ended" /\ NoTarget \notin Targets
  BY NoTargetApart DEF OnItsWay, Requesting, ReportExact
<1>4. /\ at' = "next" /\ target' = NoTarget /\ done' = done \cup {target}
      /\ applied' = applied \cup {target}
      /\ compensations' = compensations \cup undo
  BY DEF Applied, Finish
<1>5. /\ upstream' \in [Targets -> Holdings] /\ Improves /\ upstream'[target] = "declared"
      /\ changed' = changed \cup {target}
      /\ made' = IF Creates(target, request) THEN made \cup {target} ELSE made
  BY <1>3, ExecuteEffect
<1>6. Watches
  BY <1>1 DEF Watches, TypeOK
<1>7. TypeOK'
  <2>1. target \notin unchanged
    BY <1>3 DEF ReportExact
  <2>2. /\ DOMAIN inventory' = Listed
        /\ \A kind \in Listed :
             inventory'[kind] = Unloaded \/ inventory'[kind] \in [Of(kind)' -> Holdings]
    BY <1>1, <1>6, WatchesType
  <2>3. /\ applied' \cap unchanged' = {} /\ done' \subseteq applied' \cup unchanged'
        /\ done' \subseteq Targets /\ applied' \subseteq Targets /\ compensations' \subseteq Targets
        /\ made' \subseteq Targets /\ changed' \subseteq Targets
    <3>0. undo \subseteq {target}
      OBVIOUS
    <3>1. /\ applied \cap unchanged = {} /\ done \subseteq applied \cup unchanged
          /\ done \subseteq Targets /\ applied \subseteq Targets /\ compensations \subseteq Targets
          /\ made \subseteq Targets /\ changed \subseteq Targets
      BY DEF TypeOK
    <3>2. unchanged' = unchanged
      BY <1>1
    <3> QED
      BY ONLY <1>3, <1>4, <1>5, <2>1, <3>0, <3>1, <3>2
  <2>4. upstream' \in [Targets -> Holdings]
    BY <1>5
  <2> QED
    BY <1>1, <1>2, <1>4, <2>2, <2>3, <2>4 DEF TypeOK
<1>8. OnItsWay'
  BY <1>4 DEF OnItsWay, Requesting
<1>9. FlawsUnrefused'
  BY <1>1 DEF FlawsUnrefused
<1>10. AttributesHeld' /\ StaysSettled'
  <2>1. \A t \in done' \ done : t \in Targets /\ (meddling = 0 => Settled(t)')
    BY <1>3, <1>4, <1>5 DEF Settled
  <2> QED
    BY <1>1, <1>5, <1>6, <2>1, SettledStays
<1>11. ReportExact'
  <2>1. NoTarget \notin done'
    BY <1>3, <1>4 DEF TypeOK
  <2> QED
    BY <1>1, <1>3, <1>4, <1>5, <2>1 DEF ReportExact, CompensatedBut
<1>12. EndAccounted'
  BY <1>4 DEF EndAccounted
<1>13. LateUnknown'
  BY <1>1, <1>3 DEF LateUnknown
<1> QED
  BY <1>7, <1>8, <1>9, <1>10, <1>11, <1>12, <1>13

(* A request fails without an effect; if no answer came it may have one    *)
(* later.                                                                  *)
LEMMA FailKeeps ==
  ASSUME IInv, Requesting, NEW said \in {"refused", "settled", "unknown", "not sent"}, Fail(said),
         UNCHANGED <<upstream, asked, inventory, bounds, history>>,
         NEW late \in SUBSET GaveUp(run, target), inFlight' = inFlight \cup late,
         said # "unknown" => late = {}
  PROVE  IInv'
<1> USE DEF IInv
<1>1. UNCHANGED <<upstream, Kind, flaw, adopt, target, done, inventory, applied, unchanged,
                  compensations, complete, run, meddling, made, changed>>
  BY DEF asked, bounds, history, Fail
<1>2. Targets' = Targets /\ \A kind : Of(kind)' = Of(kind)
  BY <1>1, SameDeclaration
<1>3. target \in Targets /\ target \notin done /\ at # "ended" /\ NoTarget \notin Targets
  BY NoTargetApart DEF OnItsWay, Requesting, ReportExact
<1>4. at' = "ended" /\ failure' = [of |-> target, said |-> said]
  BY DEF Fail
<1>5. Watches
  BY <1>1 DEF Watches, TypeOK
<1>6. /\ done = applied \cup unchanged /\ changed = applied
      /\ compensations \subseteq made /\ CompensatedBut({})
      /\ failure = NoFailure /\ ~complete /\ unchanged \subseteq done
  BY <1>3 DEF ReportExact
<1>7. \A r \in inFlight : r.run <= run /\ r.run # run
  BY <1>3 DEF LateUnknown
<1>8. TypeOK'
  <2>1. /\ DOMAIN inventory' = Listed
        /\ \A kind \in Listed :
             inventory'[kind] = Unloaded \/ inventory'[kind] \in [Of(kind)' -> Holdings]
    BY <1>1, <1>5, WatchesType
  <2>2. failure' \in [of : Targets \cup {NoTarget},
                      said : {"nothing", "refused", "settled", "unknown", "not sent"}]
    BY <1>3, <1>4
  <2>3. inFlight' \subseteq [run : 1 .. MaxRuns, of : Targets, request : {"create", "edit"}]
    <3>1. inFlight \subseteq [run : 1 .. MaxRuns, of : Targets, request : {"create", "edit"}]
      BY DEF TypeOK
    <3> QED
      BY <1>3, <3>1, RunTyped, GaveUpFields
  <2> QED
    BY <1>1, <1>2, <1>4, <2>1, <2>2, <2>3 DEF TypeOK
<1>9. OnItsWay'
  BY <1>4 DEF OnItsWay, Requesting
<1>10. FlawsUnrefused'
  BY <1>1 DEF FlawsUnrefused
<1>11. AttributesHeld' /\ StaysSettled'
  BY <1>1, <1>5, SettledStays DEF Improves
<1>12. ReportExact'
  BY <1>1, <1>4 DEF ReportExact
<1>13. EndAccounted'
  <2>1. applied \cap unchanged = {}
    BY DEF TypeOK
  <2>2. target \notin changed
    BY <1>3, <1>6
  <2> QED
    BY <1>1, <1>2, <1>3, <1>4, <1>6, <2>1, <2>2 DEF EndAccounted, CompensatedBut
<1>14. LateUnknown'
  <2>1. \A r \in late : r.run = run /\ r.of = target
    BY <1>3, RunTyped, GaveUpFields
  <2>2. \A r \in inFlight' : /\ r.run <= run
                             /\ r.run = run => r.of = target /\ said = "unknown"
    <3>1. run <= run
      BY RunTyped
    <3>2. \A r \in late : r.run <= run /\ r.of = target /\ said = "unknown"
      BY <2>1, <3>1
    <3> QED
      BY <1>7, <3>2
  <2>3. ~complete' /\ run' = run /\ target' = target /\ failure'.said = said
    BY <1>1, <1>4, <1>6
  <2> QED
    BY <1>4, <2>2, <2>3 DEF LateUnknown
<1> QED
  BY <1>8, <1>9, <1>10, <1>11, <1>12, <1>13, <1>14

(* A request takes its effect, and its answer is lost, or useless: the     *)
(* target may be reported as applied, but not as done.                     *)
LEMMA FailExecutedKeeps ==
  ASSUME IInv, Requesting, NEW request, Execute(target, request),
         NEW said \in {"settled", "unknown"}, at' = "ended",
         failure' = [of |-> target, said |-> said],
         applied' \in {applied, applied \cup {target}},
         UNCHANGED <<inFlight, asked, target, done, inventory, unchanged, compensations, complete,
                     bounds>>
  PROVE  IInv'
<1> USE DEF IInv
<1>1. UNCHANGED <<inFlight, Kind, flaw, adopt, target, done, inventory, unchanged, compensations,
                  complete, run, meddling>>
  BY DEF asked, bounds
<1>2. Targets' = Targets /\ \A kind : Of(kind)' = Of(kind)
  BY <1>1, SameDeclaration
<1>3. target \in Targets /\ target \notin done /\ at # "ended" /\ NoTarget \notin Targets
  BY NoTargetApart DEF OnItsWay, Requesting, ReportExact
<1>4. Watches
  BY <1>1 DEF Watches, TypeOK
<1>5. /\ upstream' \in [Targets -> Holdings] /\ Improves
      /\ changed' = changed \cup {target}
      /\ made' \in {made, made \cup {target}}
  BY <1>3, ExecuteEffect
<1>6. /\ done = applied \cup unchanged /\ changed = applied
      /\ compensations \subseteq made /\ CompensatedBut({})
      /\ failure = NoFailure /\ ~complete /\ unchanged \subseteq done
  BY <1>3 DEF ReportExact
<1>7. /\ made \subseteq Targets /\ changed \subseteq Targets /\ made \subseteq changed
      /\ applied \cap unchanged = {}
  BY DEF TypeOK, ReportExact
<1>8. TypeOK'
  <2>1. /\ DOMAIN inventory' = Listed
        /\ \A kind \in Listed :
             inventory'[kind] = Unloaded \/ inventory'[kind] \in [Of(kind)' -> Holdings]
    BY <1>1, <1>4, WatchesType
  <2>2. failure' \in [of : Targets \cup {NoTarget},
                      said : {"nothing", "refused", "settled", "unknown", "not sent"}]
    BY <1>3
  <2>3. /\ made' \subseteq Targets /\ changed' \subseteq Targets /\ applied' \subseteq Targets
        /\ applied' \cap unchanged = {} /\ done \subseteq applied' \cup unchanged
    BY <1>3, <1>5, <1>6, <1>7
  <2>4. upstream' \in [Targets -> Holdings]
    BY <1>5
  <2> QED
    BY <1>1, <1>2, <2>1, <2>2, <2>3, <2>4 DEF TypeOK
<1>9. OnItsWay'
  BY DEF OnItsWay, Requesting
<1>10. FlawsUnrefused'
  BY <1>1 DEF FlawsUnrefused
<1>11. AttributesHeld' /\ StaysSettled'
  BY <1>1, <1>4, <1>5, SettledStays
<1>12. ReportExact'
  BY <1>1, <1>3, <1>5, <1>6, <1>7 DEF ReportExact
<1>13. EndAccounted'
  <2>1. applied' \subseteq changed' /\ unchanged' \cap changed' = {}
    BY <1>1, <1>3, <1>5, <1>6, <1>7
  <2>2. compensations' \subseteq made' /\ CompensatedBut({target})'
    BY <1>1, <1>5, <1>6 DEF CompensatedBut
  <2>3. changed' \subseteq applied' \cup {target}
    BY <1>5, <1>6
  <2>4. ~complete' /\ target' = target /\ failure'.of = target /\ failure'.said = said
    BY <1>1, <1>6
  <2> QED
    BY <1>2, <1>3, <2>1, <2>2, <2>3, <2>4 DEF EndAccounted
<1>14. LateUnknown'
  BY <1>1, <1>3 DEF LateUnknown
<1> QED
  BY <1>8, <1>9, <1>10, <1>11, <1>12, <1>13, <1>14

(* The next request for the same target.                                   *)
LEMMA GotoKeeps ==
  ASSUME IInv, Requesting, NEW request \in Way(Kind[target]), Goto(request),
         Watches, request = "match" => inventory'[Kind[target]] \in [Of(Kind[target]) -> Holdings],
         UNCHANGED <<gitea, asked, bounds, history>>
  PROVE  IInv'
<1>1. at' = request /\ UNCHANGED <<target, done, report>>
  BY DEF Goto
<1>2. target \in Targets \ done /\ at # "ended" /\ target' = target
  BY <1>1 DEF IInv, OnItsWay, Requesting, ReportExact
<1> QED
  BY <1>1, <1>2, MoveKeeps

(* A request that reads fails.                                             *)
LEMMA ReadFailsKeeps ==
  ASSUME IInv, Requesting, ReadFails, UNCHANGED <<asked, bounds>>
  PROVE  IInv'
<1>1. PICK outcome \in {"not sent", "refused", "settled", "lost"} : Fail(Said(outcome))
  BY DEF ReadFails
<1>2. Said(outcome) \in {"refused", "settled", "unknown", "not sent"}
  BY DEF Said
<1>3. PICK said \in {"refused", "settled", "unknown", "not sent"} : said = Said(outcome)
  BY <1>2
<1>4. Fail(said)
  BY <1>1, <1>3
<1>5. UNCHANGED <<upstream, asked, inventory, bounds, history>> /\ inFlight' = inFlight
  BY DEF ReadFails, gitea
<1>6. inFlight' = inFlight \cup {} /\ {} \in SUBSET GaveUp(run, target)
  BY <1>5
<1> QED
  BY <1>4, <1>5, <1>6, FailKeeps

(* A request that writes fails, with or without an effect.                 *)
LEMMA WriteFailsKeeps ==
  ASSUME IInv, Requesting, NEW request \in {"create", "edit"}, WriteFails(request),
         UNCHANGED <<asked, inventory, bounds>>
  PROVE  IInv'
<1>1. ASSUME NEW outcome \in {"not sent", "refused"}, Fail(Said(outcome)),
             NotExecuted, UNCHANGED inFlight
      PROVE  IInv'
  <2>1. PICK said \in {"refused", "settled", "unknown", "not sent"} : said = Said(outcome)
    BY DEF Said
  <2>2. Fail(said)
    BY <1>1, <2>1
  <2>3. UNCHANGED <<upstream, asked, inventory, bounds, history>>
    BY <1>1 DEF NotExecuted
  <2>4. inFlight' = inFlight \cup {} /\ {} \in SUBSET GaveUp(run, target)
    BY <1>1
  <2> QED
    BY <2>2, <2>3, <2>4, FailKeeps
<1>2. ASSUME NEW said \in {"settled", "unknown"}, Fail(said), Execute(target, request),
             UNCHANGED inFlight
      PROVE  IInv'
  <2>1. /\ at' = "ended" /\ failure' = [of |-> target, said |-> said]
        /\ applied' \in {applied, applied \cup {target}}
        /\ UNCHANGED <<inFlight, asked, target, done, inventory, unchanged, compensations,
                       complete, bounds>>
    BY <1>2 DEF Fail
  <2> QED
    BY <1>2, <2>1, FailExecutedKeeps
<1>3. ASSUME Fail("unknown"), NotExecuted,
             inFlight' = inFlight \cup {[run |-> run, of |-> target, request |-> request]}
      PROVE  IInv'
  <2>1. UNCHANGED <<upstream, asked, inventory, bounds, history>>
    BY <1>3 DEF NotExecuted
  <2>2. {[run |-> run, of |-> target, request |-> request]} \in SUBSET GaveUp(run, target)
    BY DEF GaveUp
  <2> QED
    BY <1>3, <2>1, <2>2, FailKeeps
<1> QED
  BY <1>1, <1>2, <1>3 DEF WriteFails, Said

-----------------------------------------------------------------------------
(* The steps *)

LEMMA BeginKeeps ==
  ASSUME IInv, NEW t \in Targets, Begin(t)
  PROVE  IInv'
<1>1. /\ at = "next" /\ t \notin done /\ target' = t /\ at' = FirstRequest(Kind[t])
      /\ UNCHANGED <<gitea, asked, done, inventory, report, bounds, history>>
  BY DEF Begin
<1>2. Watches
  BY <1>1 DEF Watches, IInv, TypeOK
<1>3. FirstRequest(Kind[t]) \in Way(Kind[t])
  BY DEF FirstRequest, Way, Put, Listed
<1>4. FirstRequest(Kind[t]) = "match" => inventory[Kind[t]] \in [Of(Kind[t]) -> Holdings]
  <2>1. FirstRequest(Kind[t]) = "match" => Kind[t] \in Listed /\ inventory[Kind[t]] # Unloaded
    BY DEF FirstRequest
  <2> QED
    BY <2>1 DEF IInv, TypeOK
<1> QED
  BY <1>1, <1>2, <1>3, <1>4, MoveKeeps

LEMMA LookupKeeps ==
  ASSUME IInv, Lookup
  PROVE  IInv'
<1>1. at = "lookup" /\ UNCHANGED <<asked, bounds>> /\ Requesting
  BY DEF Lookup, Requesting
<1>2. CASE ReadFails
  BY <1>1, <1>2, ReadFailsKeeps
<1>3. CASE Decide(Kind[target], upstream[target]) /\ UNCHANGED <<gitea, inventory, history>>
  <2>1. Watches
    BY <1>3 DEF Watches, IInv, TypeOK
  <2>2. ASSUME NEW request \in Way(Kind[target]) \ {"match"}, Goto(request)
        PROVE  IInv'
    BY <1>1, <1>3, <2>1, <2>2, GotoKeeps
  <2>3. ASSUME Unchanged, Settled(target) PROVE IInv'
    BY <1>1, <1>3, <2>3, UnchangedKeeps
  <2>4. ASSUME Fail("settled") PROVE IInv'
    <3>1. UNCHANGED <<upstream, asked, inventory, bounds, history>>
      BY <1>1, <1>3 DEF gitea
    <3>2. inFlight' = inFlight \cup {} /\ {} \in SUBSET GaveUp(run, target)
      BY <1>3 DEF gitea
    <3> QED
      BY <1>1, <2>4, <3>1, <3>2, FailKeeps
  <2>5. upstream[target] \in Holdings
    BY <1>1 DEF IInv, TypeOK, OnItsWay
  <2>6. CASE Kind[target] = "owner" /\ VerifyOwner(upstream[target])
    BY <2>3, <2>4, <2>6 DEF VerifyOwner, Settled
  <2>7. CASE Kind[target] = "repository" /\ EnsureRepository(upstream[target])
    <3>1. "create" \in Way(Kind[target]) \ {"match"}
      BY <2>7 DEF Way, Put
    <3>2. upstream[target] # "absent" => Settled(target)
      BY <2>5, <2>7 DEF Settled, Holdings
    <3> QED
      BY <2>2, <2>3, <2>4, <2>7, <3>1, <3>2 DEF EnsureRepository
  <2>8. CASE Kind[target] = "team" /\ ApplyTeam(upstream[target])
    <3>1. "create" \in Way(Kind[target]) \ {"match"}
      BY <2>8 DEF Way, Put
    <3>2. upstream[target] # "absent" => Settled(target)
      BY <2>5, <2>8 DEF Settled, Holdings
    <3> QED
      BY <2>2, <2>3, <2>8, <3>1, <3>2 DEF ApplyTeam
  <2>9. CASE Kind[target] = "variable" /\ ApplyVariable(upstream[target])
    <3>1. {"create", "edit"} \subseteq Way(Kind[target]) \ {"match"}
      BY <2>9 DEF Way, Put
    <3> QED
      BY <2>2, <2>9, <3>1 DEF ApplyVariable
  <2>10. CASE Kind[target] = "protection" /\ ApplyProtection(upstream[target])
    <3>1. {"create", "edit"} \subseteq Way(Kind[target]) \ {"match"}
      BY <2>10 DEF Way, Put
    <3> QED
      BY <2>2, <2>10, <3>1 DEF ApplyProtection
  <2>11. CASE Kind[target] = "token" /\ ApplyAccessToken(upstream[target])
    <3>1. "create" \in Way(Kind[target]) \ {"match"}
      BY <2>11 DEF Way, Put
    <3>2. upstream[target] = "declared" => Settled(target)
      BY <2>11 DEF Settled
    <3> QED
      BY <2>2, <2>3, <2>4, <2>11, <3>1, <3>2 DEF ApplyAccessToken
  <2> QED
    BY <1>3, <2>6, <2>7, <2>8, <2>9, <2>10, <2>11 DEF Decide
<1> QED
  BY <1>2, <1>3 DEF Lookup

LEMMA LoadInventoryKeeps ==
  ASSUME IInv, LoadInventory
  PROVE  IInv'
<1>1. at = "inventory" /\ UNCHANGED <<asked, bounds>> /\ Requesting
  BY DEF LoadInventory, Requesting
<1>2. CASE ReadFails
  BY <1>1, <1>2, ReadFailsKeeps
<1>3. CASE /\ inventory' = [inventory EXCEPT ![Kind[target]] = [t \in Of(Kind[target]) |-> upstream[t]]]
           /\ Goto("match") /\ UNCHANGED <<gitea, history>>
  <2>1. target \in Targets /\ Kind[target] \in Listed
    BY <1>1 DEF IInv, OnItsWay, Way, Put, Listed
  <2>2. DOMAIN inventory = Listed /\ upstream \in [Targets -> Holdings]
    BY DEF IInv, TypeOK
  <2>3. /\ DOMAIN inventory' = Listed
        /\ inventory'[Kind[target]] = [t \in Of(Kind[target]) |-> upstream[t]]
        /\ \A kind \in Listed \ {Kind[target]} : inventory'[kind] = inventory[kind]
    BY <1>3, <2>1, <2>2
  <2>4. Watches
    BY <2>3 DEF Watches
  <2>5. inventory'[Kind[target]] \in [Of(Kind[target]) -> Holdings]
    BY <2>2, <2>3 DEF Of
  <2>6. "match" \in Way(Kind[target])
    BY <2>1 DEF Listed, Way, Put
  <2> QED
    BY <1>1, <1>3, <2>4, <2>5, <2>6, GotoKeeps
<1> QED
  BY <1>2, <1>3 DEF LoadInventory

LEMMA MatchInventoryKeeps ==
  ASSUME IInv, MatchInventory
  PROVE  IInv'
<1> DEFINE seen == inventory[Kind[target]][target]
<1>1. /\ at = "match" /\ Match(Kind[target], seen) /\ Requesting
      /\ UNCHANGED <<gitea, asked, inventory, bounds, history>>
  BY DEF MatchInventory, Requesting
<1>2. Watches
  BY <1>1 DEF Watches, IInv, TypeOK
<1>3. target \in Targets /\ Loaded(Kind[target]) /\ target \in Of(Kind[target])
  BY <1>1 DEF IInv, OnItsWay, Of
<1>4. ASSUME NEW request \in Way(Kind[target]) \ {"match"}, Goto(request)
      PROVE  IInv'
  BY <1>1, <1>2, <1>4, GotoKeeps
<1>5. ASSUME Fail("settled") PROVE IInv'
  <2>1. UNCHANGED <<upstream, asked, inventory, bounds, history>>
    BY <1>1 DEF gitea
  <2>2. inFlight' = inFlight \cup {} /\ {} \in SUBSET GaveUp(run, target)
    BY <1>1 DEF gitea
  <2> QED
    BY <1>1, <1>5, <2>1, <2>2, FailKeeps
<1>6. CASE Kind[target] \in {"label", "hook"} /\ (ApplyLabel(seen) \/ ApplyHook(seen))
  <2>1. {"create", "edit"} \subseteq Way(Kind[target]) \ {"match"}
    BY <1>6 DEF Way, Put
  <2> QED
    BY <1>4, <1>5, <1>6, <2>1 DEF ApplyLabel, ApplyHook
<1>7. CASE Kind[target] = "key" /\ ApplyDeployKey(seen)
  <2>1. "create" \in Way(Kind[target]) \ {"match"}
    BY <1>7 DEF Way, Put
  <2>2. ASSUME seen = "declared", Unchanged PROVE IInv'
    <3>1. meddling = 0 => upstream[target] = "declared"
      BY <1>3, <1>7, <2>2 DEF IInv, StaysSettled, Listed
    <3>2. meddling = 0 => Settled(target)
      BY <1>7, <3>1 DEF Settled
    <3> QED
      BY <1>1, <2>2, <3>2, UnchangedKeeps
  <2> QED
    BY <1>4, <1>5, <1>7, <2>1, <2>2 DEF ApplyDeployKey
<1> QED
  BY <1>1, <1>6, <1>7 DEF Match

LEMMA CreateKeeps ==
  ASSUME IInv, Create
  PROVE  IInv'
<1>1. at = "create" /\ UNCHANGED <<asked, inventory, bounds>> /\ Requesting
  BY DEF Create, Requesting
<1>2. CASE WriteFails("create")
  BY <1>1, <1>2, WriteFailsKeeps
<1>3. ASSUME Created, Applied({target}) PROVE IInv'
  <2>1. Kind[target] \notin Unreversed
    BY <1>1 DEF IInv, OnItsWay, Way, Put, Unreversed
  <2>2. {target} = IF Creates(target, "create") /\ Kind[target] \notin Unreversed THEN {target} ELSE {}
    BY <2>1 DEF Creates
  <2> QED
    BY <1>1, <1>3, <2>2, AppliedKeeps DEF Created
<1>4. ASSUME Created, AppliedWithoutId PROVE IInv'
  <2>1. /\ at' = "ended" /\ failure' = [of |-> target, said |-> "settled"]
        /\ applied' \in {applied, applied \cup {target}}
        /\ UNCHANGED <<inFlight, asked, target, done, inventory, unchanged, compensations,
                       complete, bounds>>
    BY <1>1, <1>4 DEF Created, AppliedWithoutId
  <2> QED
    BY <1>1, <1>4, <2>1, FailExecutedKeeps DEF Created
<1>5. ASSUME Conflicted, Kind[target] \in {"repository", "team", "protection"} PROVE IInv'
  <2>1. Goto("reread") /\ UNCHANGED <<gitea, history>>
    BY <1>5 DEF Conflicted, NotExecuted, gitea
  <2>2. Watches
    BY <1>1 DEF Watches, IInv, TypeOK
  <2>3. "reread" \in Way(Kind[target])
    BY <1>5 DEF Way, Put
  <2> QED
    BY <1>1, <2>1, <2>2, <2>3, GotoKeeps
<1>6. ASSUME \/ Kind[target] = "repository" /\ CreateRepository
             \/ Kind[target] = "team" /\ AddTeam
             \/ Kind[target] = "protection" /\ CreateProtection
      PROVE  IInv'
  BY <1>3, <1>5, <1>6 DEF CreateRepository, AddTeam, CreateProtection
<1>7. ASSUME CreateResource \/ CreateNamedResource \/ CreateAccessToken PROVE IInv'
  BY <1>3, <1>4, <1>7 DEF CreateResource, CreateNamedResource, CreateAccessToken
<1> QED
  BY <1>2, <1>6, <1>7 DEF Create

LEMMA RereadKeeps ==
  ASSUME IInv, Reread
  PROVE  IInv'
<1>1. at = "reread" /\ UNCHANGED <<asked, bounds>> /\ Requesting
  BY DEF Reread, Requesting
<1>2. CASE ReadFails
  BY <1>1, <1>2, ReadFailsKeeps
<1>3. ASSUME UNCHANGED <<gitea, inventory, history>>, Fail("refused") PROVE IInv'
  <2>1. UNCHANGED <<upstream, asked, inventory, bounds, history>>
    BY <1>1, <1>3 DEF gitea
  <2>2. inFlight' = inFlight \cup {} /\ {} \in SUBSET GaveUp(run, target)
    BY <1>3 DEF gitea
  <2> QED
    BY <1>1, <1>3, <2>1, <2>2, FailKeeps
<1>4. ASSUME upstream[target] # "absent", UNCHANGED <<gitea, inventory, history>>,
             \/ Kind[target] = "repository" /\ AdoptAfterConflict
             \/ Kind[target] = "team" /\ ReconcileTeamAdd
             \/ Kind[target] = "protection" /\ ReconcileProtection
      PROVE  IInv'
  <2>1. upstream[target] \in Holdings
    BY <1>1 DEF IInv, TypeOK, OnItsWay
  <2>2. CASE Kind[target] \in {"repository", "team"} /\ Unchanged
    <3>1. Settled(target)
      BY <1>4, <2>1, <2>2 DEF Settled, Holdings
    <3> QED
      BY <1>1, <1>4, <2>2, <3>1, UnchangedKeeps
  <2>3. CASE Kind[target] = "protection" /\ Goto("edit")
    <3>1. "edit" \in Way(Kind[target])
      BY <2>3 DEF Way, Put
    <3>2. Watches
      BY <1>4 DEF Watches, IInv, TypeOK
    <3> QED
      BY <1>1, <1>4, <2>3, <3>1, <3>2, GotoKeeps
  <2> QED
    BY <1>4, <2>2, <2>3 DEF AdoptAfterConflict, ReconcileTeamAdd, ReconcileProtection
<1> QED
  BY <1>2, <1>3, <1>4 DEF Reread

(* A submission creates secrets and collaborators only: an attribute is    *)
(* always there, and nothing else is edited that is not.                   *)
LEMMA EditKeeps ==
  ASSUME IInv, Edit
  PROVE  IInv'
<1>1. at = "edit" /\ UNCHANGED <<asked, inventory, bounds>> /\ Requesting
  BY DEF Edit, Requesting
<1>2. CASE WriteFails("edit")
  BY <1>1, <1>2, WriteFailsKeeps
<1>3. CASE Execute(target, "edit") /\ UNCHANGED inFlight /\ Applied(UndoOfEdit(target))
  <2>1. target \in Targets
    BY <1>1 DEF IInv, OnItsWay
  <2>2. Creates(target, "edit") <=> upstream[target] = "absent"
    BY DEF Creates
  <2>3. upstream[target] = "absent" => Kind[target] \in Put
    BY <1>3 DEF Execute, Executable
  <2>4. upstream[target] = "absent" => Kind[target] \in {"secret", "collaborator"}
    BY <2>1, <2>3 DEF IInv, AttributesHeld, Attributes, Put
  <2>5. UndoOfEdit(target) =
          IF Creates(target, "edit") /\ Kind[target] \notin Unreversed THEN {target} ELSE {}
    BY <2>2, <2>4 DEF UndoOfEdit, Unreversed
  <2> QED
    BY <1>1, <1>3, <2>5, AppliedKeeps
<1> QED
  BY <1>2, <1>3 DEF Edit

LEMMA ValidateKeeps ==
  ASSUME IInv, Validate
  PROVE  IInv'
<1> USE DEF IInv
<1>1. /\ at = "validate" /\ at' = "next"
      /\ UNCHANGED <<upstream, inFlight, Kind, adopt, target, done, inventory, applied, unchanged,
                     failure, compensations, complete, run, meddling, made, changed>>
  BY DEF Validate, gitea, report, bounds, history
<1>2. Targets' = Targets /\ \A kind : Of(kind)' = Of(kind)
  BY <1>1, SameDeclaration
<1>3. /\ flaw' \subseteq Targets \X Parts
      /\ \A pair \in flaw' : pair[2] \notin Refused(Kind[pair[1]])
  <2>1. CASE flaw' = {}
    BY <2>1
  <2>2. ASSUME NEW t \in Targets, NEW part \in Parts \ Refused(Kind[t]), flaw' = {<<t, part>>}
        PROVE  /\ flaw' \subseteq Targets \X Parts
               /\ \A pair \in flaw' : pair[2] \notin Refused(Kind[pair[1]])
    BY <2>2
  <2> QED
    BY <2>1, <2>2 DEF Validate
<1>4. Watches
  BY <1>1 DEF Watches, TypeOK
<1>5. TypeOK'
  <2>1. /\ DOMAIN inventory' = Listed
        /\ \A kind \in Listed :
             inventory'[kind] = Unloaded \/ inventory'[kind] \in [Of(kind)' -> Holdings]
    BY <1>1, <1>4, WatchesType
  <2> QED
    BY <1>1, <1>2, <1>3, <2>1 DEF TypeOK
<1>6. OnItsWay'
  BY <1>1 DEF OnItsWay, Requesting
<1>7. FlawsUnrefused'
  BY <1>1, <1>3 DEF FlawsUnrefused
<1>8. AttributesHeld' /\ StaysSettled'
  BY <1>1, <1>4, SettledStays DEF Improves
<1>9. ReportExact' /\ EndAccounted' /\ LateUnknown'
  BY <1>1 DEF ReportExact, EndAccounted, LateUnknown, CompensatedBut
<1> QED
  BY <1>5, <1>6, <1>7, <1>8, <1>9

(* A run that may not create the declared token ends before it begins.     *)
LEMMA RefuseUnconfiguredKeeps ==
  ASSUME IInv, RefuseUnconfigured
  PROVE  IInv'
<1> USE DEF IInv
<1>1. PICK t \in Of("token") : target' = t /\ failure' = [of |-> t, said |-> "not sent"]
  BY DEF RefuseUnconfigured
<1>2. /\ at = "next" /\ done = {} /\ at' = "ended"
      /\ UNCHANGED <<upstream, inFlight, Kind, flaw, adopt, done, inventory, applied, unchanged,
                     compensations, complete, run, meddling, made, changed>>
  BY DEF RefuseUnconfigured, gitea, asked, bounds, history
<1>3. Targets' = Targets /\ \A kind : Of(kind)' = Of(kind)
  BY <1>2, SameDeclaration
<1>4. t \in Targets
  BY DEF Of
<1>5. applied = {} /\ unchanged = {} /\ changed = {} /\ made = compensations /\ made = {} /\ ~complete
  <2>1. at # "ended" /\ done = {}
    BY <1>2
  <2> QED
    BY <2>1 DEF ReportExact
<1>6. Watches
  BY <1>2 DEF Watches, TypeOK
<1>7. TypeOK'
  <2>1. /\ DOMAIN inventory' = Listed
        /\ \A kind \in Listed :
             inventory'[kind] = Unloaded \/ inventory'[kind] \in [Of(kind)' -> Holdings]
    BY <1>2, <1>6, WatchesType
  <2>2. failure' \in [of : Targets \cup {NoTarget},
                      said : {"nothing", "refused", "settled", "unknown", "not sent"}]
    BY <1>1, <1>4
  <2> QED
    BY <1>1, <1>2, <1>3, <1>4, <2>1, <2>2 DEF TypeOK
<1>8. OnItsWay'
  BY <1>2 DEF OnItsWay, Requesting
<1>9. FlawsUnrefused'
  BY <1>2 DEF FlawsUnrefused
<1>10. AttributesHeld' /\ StaysSettled'
  BY <1>2, <1>6, SettledStays DEF Improves
<1>11. ReportExact'
  BY <1>2, <1>5 DEF ReportExact
<1>12. EndAccounted'
  BY <1>1, <1>2, <1>3, <1>4, <1>5 DEF EndAccounted, CompensatedBut
<1>13. LateUnknown'
  BY <1>2 DEF LateUnknown
<1> QED
  BY <1>7, <1>8, <1>9, <1>10, <1>11, <1>12, <1>13

LEMMA CompleteKeeps ==
  ASSUME IInv, Complete
  PROVE  IInv'
<1> USE DEF IInv
<1>1. /\ at = "next" /\ done = Targets /\ at' = "ended" /\ complete' = TRUE /\ compensations' = {}
      /\ UNCHANGED <<upstream, inFlight, Kind, flaw, adopt, target, done, inventory, applied,
                     unchanged, failure, run, meddling, made, changed>>
  BY DEF Complete, gitea, asked, bounds, history
<1>2. Targets' = Targets /\ \A kind : Of(kind)' = Of(kind)
  BY <1>1, SameDeclaration
<1>3. Watches
  BY <1>1 DEF Watches, TypeOK
<1>4. TypeOK'
  <2>1. /\ DOMAIN inventory' = Listed
        /\ \A kind \in Listed :
             inventory'[kind] = Unloaded \/ inventory'[kind] \in [Of(kind)' -> Holdings]
    BY <1>1, <1>3, WatchesType
  <2> QED
    BY <1>1, <1>2, <2>1 DEF TypeOK
<1>5. OnItsWay'
  BY <1>1 DEF OnItsWay, Requesting
<1>6. FlawsUnrefused'
  BY <1>1 DEF FlawsUnrefused
<1>7. AttributesHeld' /\ StaysSettled'
  BY <1>1, <1>3, SettledStays DEF Improves
<1>8. ReportExact'
  BY <1>1 DEF ReportExact
<1>9. EndAccounted'
  <2>1. changed = applied /\ failure = NoFailure
    BY <1>1 DEF ReportExact
  <2>2. applied \cap unchanged = {}
    BY DEF TypeOK
  <2> QED
    BY <1>1, <1>2, <2>1, <2>2 DEF EndAccounted, NoFailure
<1>10. LateUnknown'
  BY <1>1 DEF LateUnknown
<1> QED
  BY <1>4, <1>5, <1>6, <1>7, <1>8, <1>9, <1>10

(* What an earlier run gave up on is not this run's.                       *)
LEMMA RerunKeeps ==
  ASSUME IInv, Rerun
  PROVE  IInv'
<1> USE DEF IInv
<1>1. /\ run < MaxRuns /\ run' = run + 1 /\ adopt' \in BOOLEAN /\ flaw' = {}
      /\ at' = "validate" /\ target' = NoTarget /\ done' = {}
      /\ inventory' = [kind \in Listed |-> Unloaded]
      /\ applied' = {} /\ unchanged' = {} /\ failure' = NoFailure
      /\ compensations' = {} /\ complete' = FALSE /\ made' = {} /\ changed' = {}
      /\ UNCHANGED <<upstream, inFlight, Kind, meddling>>
  BY DEF Rerun, gitea
<1>2. Targets' = Targets /\ \A kind : Of(kind)' = Of(kind)
  BY <1>1, SameDeclaration
<1>3. Watches
  BY <1>1 DEF Watches
<1>4. run' \in 1 .. MaxRuns
  BY <1>1, RunTyped, Constants
<1>5. TypeOK'
  <2>1. /\ DOMAIN inventory' = Listed
        /\ \A kind \in Listed :
             inventory'[kind] = Unloaded \/ inventory'[kind] \in [Of(kind)' -> Holdings]
    BY <1>1, <1>3, WatchesType
  <2>2. failure' \in [of : Targets \cup {NoTarget},
                      said : {"nothing", "refused", "settled", "unknown", "not sent"}]
    BY <1>1 DEF NoFailure
  <2> QED
    BY <1>1, <1>2, <1>4, <2>1, <2>2 DEF TypeOK
<1>6. OnItsWay'
  BY <1>1 DEF OnItsWay, Requesting
<1>7. FlawsUnrefused'
  BY <1>1 DEF FlawsUnrefused
<1>8. AttributesHeld' /\ StaysSettled'
  BY <1>1, <1>3, SettledStays DEF Improves
<1>9. ReportExact' /\ EndAccounted'
  BY <1>1 DEF ReportExact, EndAccounted, CompensatedBut
<1>10. LateUnknown'
  <2>1. \A r \in inFlight : r.run \in Nat /\ r.run <= run
    <3>1. inFlight \subseteq [run : 1 .. MaxRuns, of : Targets, request : {"create", "edit"}]
      BY DEF TypeOK
    <3> QED
      BY <3>1, Constants DEF LateUnknown
  <2>2. \A r \in inFlight' : r.run <= run' /\ r.run # run'
    BY <1>1, <2>1, RunTyped
  <2> QED
    BY <2>2 DEF LateUnknown
<1> QED
  BY <1>5, <1>6, <1>7, <1>8, <1>9, <1>10

LEMMA MeddleKeeps ==
  ASSUME IInv, Meddle
  PROVE  IInv'
<1> USE DEF IInv
<1>1. /\ meddling < MaxMeddling /\ meddling' = meddling + 1 /\ Consistent(upstream')
      /\ UNCHANGED <<inFlight, Kind, flaw, adopt, at, target, done, inventory, applied, unchanged,
                     failure, compensations, complete, run, made, changed>>
  BY DEF Meddle, asked, report, history
<1>2. Targets' = Targets /\ \A kind : Of(kind)' = Of(kind)
  BY <1>1, SameDeclaration
<1>3. upstream' \in [Targets -> Holdings]
  <2>1. PICK t \in Targets, holding \in Holdings :
          LET next == [upstream EXCEPT ![t] = holding]
              gone == [u \in Targets |->
                         IF ~Scoped(u) THEN next[u]
                         ELSE IF Kind[u] \in Attributes THEN "other" ELSE "absent"]
          IN upstream' = IF Exists(next) THEN next ELSE gone
    BY DEF Meddle
  <2> DEFINE next == [upstream EXCEPT ![t] = holding]
             gone == [u \in Targets |->
                        IF ~Scoped(u) THEN next[u]
                        ELSE IF Kind[u] \in Attributes THEN "other" ELSE "absent"]
  <2>2. next \in [Targets -> Holdings]
    <3>1. upstream \in [Targets -> Holdings]
      BY DEF TypeOK
    <3> QED
      BY <3>1
  <2>3. gone \in [Targets -> Holdings]
    <3>1. "other" \in Holdings /\ "absent" \in Holdings
      BY DEF Holdings
    <3> HIDE DEF next
    <3> QED
      BY <2>2, <3>1
  <2> QED
    BY <2>1, <2>2, <2>3
<1>4. meddling' \in 0 .. MaxMeddling /\ meddling' # 0
  <2>1. meddling \in 0 .. MaxMeddling
    BY DEF TypeOK
  <2> QED
    BY <1>1, <2>1, Constants
<1>5. Watches
  BY <1>1 DEF Watches, TypeOK
<1>6. TypeOK'
  <2>1. /\ DOMAIN inventory' = Listed
        /\ \A kind \in Listed :
             inventory'[kind] = Unloaded \/ inventory'[kind] \in [Of(kind)' -> Holdings]
    BY <1>1, <1>5, WatchesType
  <2> QED
    BY <1>1, <1>2, <1>3, <1>4, <2>1 DEF TypeOK
<1>7. OnItsWay'
  <2>1. \A kind : Loaded(kind)' = Loaded(kind)
    BY <1>1, <1>2 DEF Loaded
  <2> QED
    BY <1>1, <1>2, <2>1 DEF OnItsWay, Requesting, Loaded
<1>8. FlawsUnrefused'
  BY <1>1 DEF FlawsUnrefused
<1>9. AttributesHeld'
  BY <1>1, <1>2 DEF AttributesHeld, Consistent
<1>10. StaysSettled'
  BY <1>4 DEF StaysSettled
<1>11. ReportExact' /\ EndAccounted'
  BY <1>1, <1>2 DEF ReportExact, EndAccounted, NoFailure, CompensatedBut
<1>12. LateUnknown'
  BY <1>1 DEF LateUnknown
<1> QED
  BY <1>6, <1>7, <1>8, <1>9, <1>10, <1>11, <1>12

(* A request given up on takes effect: one of this run belongs to the      *)
(* failed step, one of an earlier run is not in this report.               *)
LEMMA LateKeeps ==
  ASSUME IInv, Late
  PROVE  IInv'
<1> USE DEF IInv
<1>1. PICK r \in inFlight :
        /\ inFlight' = inFlight \ {r}
        /\ \/ NotExecuted
           \/ /\ upstream' = [upstream EXCEPT ![r.of] = "declared"]
              /\ changed' = IF r.run = run THEN changed \cup {r.of} ELSE changed
              /\ made' = IF r.run = run /\ Creates(r.of, r.request) THEN made \cup {r.of} ELSE made
  BY DEF Late
<1>2. UNCHANGED <<Kind, flaw, adopt, at, target, done, inventory, applied, unchanged, failure,
                  compensations, complete, run, meddling>>
  BY DEF Late, asked, report, bounds
<1>3. Targets' = Targets /\ \A kind : Of(kind)' = Of(kind)
  BY <1>2, SameDeclaration
<1>4. r.of \in Targets
  <2>1. inFlight \subseteq [run : 1 .. MaxRuns, of : Targets, request : {"create", "edit"}]
    BY DEF TypeOK
  <2> QED
    BY <2>1
<1>5. upstream' \in [Targets -> Holdings] /\ Improves
  <2>1. upstream \in [Targets -> Holdings]
    BY DEF TypeOK
  <2>2. CASE NotExecuted
    BY <2>1, <2>2 DEF NotExecuted, Improves
  <2>3. CASE upstream' = [upstream EXCEPT ![r.of] = "declared"]
    BY <1>4, <2>1, <2>3 DEF Improves, Holdings
  <2> QED
    BY <1>1, <2>2, <2>3
<1>6. \/ changed' = changed /\ made' = made
      \/ /\ at = "ended" /\ ~complete /\ failure.said = "unknown" /\ target \in Targets
         /\ changed' = changed \cup {target} /\ made' \in {made, made \cup {target}}
  <2>1. r.run = run => /\ at = "ended" /\ ~complete /\ r.of = target /\ failure.said = "unknown"
    BY DEF LateUnknown
  <2> QED
    BY <1>1, <1>4, <2>1 DEF NotExecuted, history
<1>7. Watches
  BY <1>2 DEF Watches, TypeOK
<1>8. TypeOK'
  <2>1. /\ DOMAIN inventory' = Listed
        /\ \A kind \in Listed :
             inventory'[kind] = Unloaded \/ inventory'[kind] \in [Of(kind)' -> Holdings]
    BY <1>2, <1>7, WatchesType
  <2>2. made \subseteq Targets /\ changed \subseteq Targets
    BY DEF TypeOK
  <2>3. made' \subseteq Targets /\ changed' \subseteq Targets
    BY <1>6, <2>2
  <2>4. inFlight' \subseteq inFlight
    BY <1>1
  <2> QED
    BY <1>2, <1>3, <1>5, <2>1, <2>3, <2>4 DEF TypeOK
<1>9. OnItsWay'
  <2>1. \A kind : Loaded(kind)' = Loaded(kind)
    BY <1>2, <1>3 DEF Loaded
  <2> QED
    BY <1>2, <1>3, <2>1 DEF OnItsWay, Requesting, Loaded
<1>10. FlawsUnrefused'
  BY <1>2 DEF FlawsUnrefused
<1>11. AttributesHeld' /\ StaysSettled'
  BY <1>2, <1>5, <1>7, SettledStays
<1>12. ReportExact'
  BY <1>2, <1>6 DEF ReportExact, CompensatedBut
<1>13. EndAccounted'
  <2>1. CASE changed' = changed /\ made' = made
    BY <1>2, <1>3, <2>1 DEF EndAccounted, NoFailure, CompensatedBut
  <2>2. CASE /\ at = "ended" /\ ~complete /\ failure.said = "unknown" /\ target \in Targets
             /\ changed' = changed \cup {target} /\ made' \in {made, made \cup {target}}
    <3>1. target \notin unchanged
      BY DEF ReportExact
    <3>2. /\ applied \subseteq changed' /\ compensations \subseteq made'
          /\ unchanged \cap changed' = {}
          /\ changed' \subseteq applied \cup {target} /\ failure.of = target
      BY <2>2, <3>1 DEF EndAccounted
    <3>3. CompensatedBut({target})
      BY <2>2 DEF EndAccounted
    <3>4. CompensatedBut({target})'
      BY <1>2, <2>2, <3>3 DEF CompensatedBut
    <3> QED
      BY <1>2, <1>3, <2>2, <3>2, <3>4 DEF EndAccounted
  <2> QED
    BY <1>6, <2>1, <2>2
<1>14. LateUnknown'
  BY <1>1, <1>2 DEF LateUnknown
<1> QED
  BY <1>8, <1>9, <1>10, <1>11, <1>12, <1>13, <1>14

-----------------------------------------------------------------------------
(* The theorems *)

LEMMA InitEstablishes == Init => IInv
<1> SUFFICES ASSUME Init PROVE IInv
  OBVIOUS
<1>1. TypeOK
  <2>1. run \in 1 .. MaxRuns /\ meddling \in 0 .. MaxMeddling
    BY Constants DEF Init
  <2> QED
    BY <2>1 DEF Init, TypeOK, NoFailure
<1>2. OnItsWay /\ FlawsUnrefused
  BY DEF Init, OnItsWay, Requesting, FlawsUnrefused
<1>3. AttributesHeld
  BY DEF Init, Consistent, AttributesHeld
<1>4. ReportExact /\ EndAccounted /\ LateUnknown
  BY DEF Init, ReportExact, EndAccounted, LateUnknown, CompensatedBut
<1>5. StaysSettled
  <2>1. ASSUME NEW kind \in Listed, Loaded(kind) PROVE Of(kind) = {}
    <3>1. DOMAIN inventory[kind] = Of(kind) /\ inventory[kind] = Unloaded
      BY <2>1 DEF Loaded, Init
    <3> QED
      BY <3>1 DEF Unloaded
  <2> QED
    BY <2>1 DEF Init, StaysSettled
<1> QED
  BY <1>1, <1>2, <1>3, <1>4, <1>5 DEF IInv

LEMMA NextKeeps == IInv /\ [Next]_vars => IInv'
<1> SUFFICES ASSUME IInv, [Next]_vars PROVE IInv'
  OBVIOUS
<1>1. CASE UNCHANGED vars
  <2>1. UNCHANGED <<upstream, inFlight, Kind, flaw, adopt, at, target, done, inventory, applied,
                    unchanged, failure, compensations, complete, run, meddling, made, changed>>
    BY <1>1 DEF vars, gitea, asked, report, bounds, history
  <2>2. TypeOK' /\ OnItsWay' /\ FlawsUnrefused' /\ AttributesHeld'
    <3>1. TypeOK'
      <4>1. TypeOK /\ Targets' = Targets /\ \A kind : Of(kind)' = Of(kind)
        BY <2>1, SameDeclaration DEF IInv
      <4> QED
        BY <2>1, <4>1 DEF TypeOK
    <3>2. Targets' = Targets /\ \A kind : Loaded(kind)' = Loaded(kind)
      BY <2>1 DEF Targets, Loaded, Of
    <3>3. OnItsWay'
      BY <2>1, <3>2 DEF IInv, OnItsWay, Requesting
    <3>4. FlawsUnrefused' /\ AttributesHeld'
      BY <2>1, <3>2 DEF IInv, FlawsUnrefused, AttributesHeld
    <3> QED
      BY <3>1, <3>3, <3>4
  <2>3. ReportExact' /\ EndAccounted' /\ LateUnknown'
    BY <2>1 DEF IInv, ReportExact, EndAccounted, LateUnknown, Targets, CompensatedBut
  <2>4. StaysSettled'
    <3>1. Targets' = Targets /\ \A kind : Of(kind)' = Of(kind)
      BY <2>1, SameDeclaration
    <3>2. \A kind : Loaded(kind)' = Loaded(kind)
      BY <2>1, <3>1 DEF Loaded
    <3>3. \A t \in done : Settled(t)' = Settled(t)
      BY <2>1 DEF Settled
    <3> QED
      BY <2>1, <3>1, <3>2, <3>3 DEF IInv, StaysSettled
  <2> QED
    BY <2>2, <2>3, <2>4 DEF IInv
<1> QED
  BY <1>1, ValidateKeeps, RefuseUnconfiguredKeeps, BeginKeeps, LookupKeeps, LoadInventoryKeeps,
     MatchInventoryKeeps, CreateKeeps, RereadKeeps, EditKeeps, CompleteKeeps, RerunKeeps,
     MeddleKeeps, LateKeeps DEF Next

LEMMA Invariance == Spec => []IInv
BY InitEstablishes, NextKeeps, PTL DEF Spec

(* Every value has its type, and no target is reported both as applied and *)
(* as unchanged.                                                           *)
THEOREM TypeCorrect == Spec => []TypeOK
<1>1. IInv => TypeOK
  BY DEF IInv
<1> QED
  BY <1>1, Invariance, PTL

(* Following the compensations of a report deletes only what its run       *)
(* created (report of bootstrap.rs).                                       *)
THEOREM CompensationsAreOwn == Spec => []CompensationsOwn
<1>1. IInv => CompensationsOwn
  BY DEF IInv, CompensationsOwn, ReportExact, EndAccounted
<1> QED
  BY <1>1, Invariance, PTL

(* Of what a failed run created, everything but the collaborators it       *)
(* reports as applied is compensated or belongs to the failed step         *)
(* (failed_step, failure_detail, apply_collaborators).                     *)
THEOREM CreationsAreAccounted == Spec => []CreationsAccounted
<1>1. IInv => CreationsAccounted
  <2> SUFFICES ASSUME IInv, at = "ended", ~complete, NEW t \in made \ compensations
               PROVE  \/ failure.of = t /\ failure.said \in {"settled", "unknown"}
                      \/ Kind[t] \in Unreversed /\ t \in applied
    BY DEF CreationsAccounted
  <2>1. t \in changed /\ (t = target \/ Kind[t] \in Unreversed)
    BY DEF IInv, EndAccounted, ReportExact, CompensatedBut
  <2>2. CASE t = target
    <3>1. failure.of = t /\ failure.said \notin {"refused", "not sent", "nothing"}
      BY <2>1, <2>2 DEF IInv, EndAccounted
    <3>2. failure.said \in {"nothing", "refused", "settled", "unknown", "not sent"}
      BY DEF IInv, TypeOK
    <3> QED
      BY <3>1, <3>2
  <2>3. CASE t # target
    BY <2>1, <2>3 DEF IInv, EndAccounted
  <2> QED
    BY <2>2, <2>3
<1> QED
  BY <1>1, Invariance, PTL

(* The outcomes a report gives are true of Gitea, also when a request given*)
(* up on is executed after the report (push_step, failed_step).            *)
THEOREM ReportsAreTrue == Spec => []ReportTruthful
<1>1. IInv => ReportTruthful
  <2> SUFFICES ASSUME IInv PROVE ReportTruthful
    OBVIOUS
  <2>1. applied \cap unchanged = {}
    BY DEF IInv, TypeOK
  <2>2. applied \subseteq changed /\ unchanged \cap changed = {}
    BY <2>1 DEF IInv, EndAccounted, ReportExact
  <2>3. CASE failure = NoFailure
    BY <2>2, <2>3 DEF ReportTruthful, NoFailure
  <2>4. CASE failure # NoFailure
    <3>1. at = "ended" /\ ~complete
      BY <2>4 DEF IInv, EndAccounted, ReportExact
    <3>2. failure.of = target /\ (failure.said \in {"refused", "not sent"} => target \notin changed)
      BY <3>1 DEF IInv, EndAccounted
    <3> QED
      BY <2>2, <3>2 DEF ReportTruthful
  <2> QED
    BY <2>3, <2>4
<1> QED
  BY <1>1, Invariance, PTL

(* A complete run that no one interfered with leaves every target as       *)
(* declared (execute).                                                     *)
THEOREM CompleteRunsConverge == Spec => []Converged
<1>1. IInv => Converged
  <2> SUFFICES ASSUME IInv, complete, meddling = 0, NEW t \in Targets
               PROVE  Settled(t)
    BY DEF Converged, Settled
  <2>1. done = Targets
    BY DEF IInv, ReportExact, EndAccounted
  <2> QED
    BY <2>1 DEF IInv, StaysSettled
<1> QED
  BY <1>1, Invariance, PTL

(* Whatever the way of a target through the workflow takes from the        *)
(* declaration, validate, the schemas or extensions::validate have checked.*)
LEMMA WaysChecked ==
  ASSUME NEW kind, NEW request \in Way(kind)
  PROVE  Takes(kind, request) \subseteq Refused(kind)
<1> USE DEF Way, Takes, TakesOfExtensions, Refused, ValidateRefuses, ProtectionsRefuse,
            ExtensionsRefuse, Put, Listed
<1>1. CASE kind \in {"settings", "topics", "collaborator", "secret", "archive"}
  BY <1>1 DEF SchemaRefuses, ExtensionSchemaRefuses, Rank
<1>2. CASE kind \in {"label", "hook", "key"}
  BY <1>2
<1>3. CASE kind \in {"repository", "team", "protection"}
  BY <1>3
<1>4. CASE kind \in {"variable", "token"}
  BY <1>4
<1>5. CASE kind \notin {"settings", "topics", "collaborator", "secret", "archive", "label", "hook", "key",
                       "repository", "team", "protection", "variable", "token"}
  BY <1>5
<1> QED
  BY <1>1, <1>2, <1>3, <1>4, <1>5

(* No request of an accepted declaration meets what is wrong with it       *)
(* (bootstrap_result, validate).                                           *)
THEOREM RequestsAreSound == Spec => []SoundRequests
<1>1. IInv => SoundRequests
  <2> SUFFICES ASSUME IInv, target # NoTarget, NEW part \in Takes(Kind[target], at)
               PROVE  <<target, part>> \notin flaw
    BY DEF SoundRequests
  <2>1. at \notin {"validate", "next"}
    BY DEF IInv, OnItsWay
  <2>2. at # "ended"
    BY DEF Takes, TakesOfExtensions
  <2>3. at \in Way(Kind[target])
    BY <2>1, <2>2 DEF IInv, OnItsWay, Requesting
  <2>4. part \in Refused(Kind[target])
    BY <2>3, WaysChecked
  <2> QED
    BY <2>4 DEF IInv, FlawsUnrefused
<1> QED
  BY <1>1, Invariance, PTL
=============================================================================
