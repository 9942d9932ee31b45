------------------------------ MODULE Bootstrap ------------------------------
(***************************************************************************)
(* repository.bootstrap (bootstrap.rs and bootstrap/extensions.rs): a      *)
(* workflow that brings a repository to a declared state by one Gitea      *)
(* request after the other, stops at the first failure, and reports what   *)
(* it did and which deletions would undo what it created.                  *)
(*                                                                         *)
(* Other users change the same objects between any two requests.  A        *)
(* request may never be sent, be refused, take effect and have its answer  *)
(* lost or garbled, or take effect long after the workflow gave up on it.  *)
(* A failed workflow may be run again.  A declaration may be flawed: a     *)
(* target may have a name no path can carry or one another target has, or  *)
(* a content that does not fit an operation it may be sent with.           *)
(*                                                                         *)
(* What Gitea holds of a target is nothing, something that differs from    *)
(* the declaration, or what was declared.  The pages of an inventory or a  *)
(* token search are read at one moment here.                               *)
(***************************************************************************)
EXTENDS Integers, FiniteSets

CONSTANTS
  Declarations, \* the declarations a run may be asked for: functions from targets to kinds
  MaxRuns,      \* bound on the number of runs
  MaxMeddling,  \* bound on the changes other users make
  NoTarget

ASSUME BootstrapAssumption ==
  /\ MaxRuns \in Nat \ {0} /\ MaxMeddling \in Nat
  /\ \A declaration \in Declarations : NoTarget \notin DOMAIN declaration

VARIABLES
  Kind,           \* the declaration: the kind of each declared target
  flaw,           \* what is wrong with which target of an accepted declaration
  upstream,       \* what Gitea holds of each target
  inFlight,       \* requests given up on that Gitea may still execute
  adopt,          \* if_exists of this run
  at,             \* the request this run makes next
  target,         \* the target it is about
  done,           \* targets brought to their declared state
  inventory,      \* what the inventory of each kind showed, once loaded
  applied,        \* targets with a step reported as applied
  unchanged,      \* targets with a step reported as unchanged
  failure,        \* the failed step and what it says of its request
  compensations,  \* targets with a reported compensation
  complete,
  run, meddling,  \* counters for the bounds
  made,           \* history: targets this run's requests created
  changed         \* history: targets this run's requests changed

Targets == DOMAIN Kind

asked == <<Kind, flaw, adopt>>
gitea == <<upstream, inFlight>>
report == <<applied, unchanged, failure, compensations, complete>>
history == <<made, changed>>
bounds == <<run, meddling>>
vars == <<gitea, asked, at, target, done, inventory, report, bounds, history>>

Holdings == {"absent", "other", "declared"}

(* The order in which `execute` takes the kinds.                           *)
Rank ==
  [owner |-> 1, repository |-> 2, settings |-> 3, topics |-> 4, team |-> 5,
   collaborator |-> 6, label |-> 7, hook |-> 8, key |-> 9, variable |-> 10, secret |-> 11,
   protection |-> 12, archive |-> 13, token |-> 14]

Listed == {"label", "hook", "key"}                                \* found by an inventory
Put == {"settings", "topics", "collaborator", "secret", "archive"}  \* submitted unread
Attributes == {"owner", "settings", "topics", "archive"}            \* never absent

(* Created by a submission without a compensation: Gitea answers the same  *)
(* whether it added a collaborator or changed a permission.                *)
Unreversed == {"collaborator"}

Of(kind) == {t \in Targets : Kind[t] = kind}
NoFailure == [of |-> NoTarget, said |-> "nothing"]
Unloaded == [t \in {} |-> "absent"]

(* What a declaration of a target may get wrong.                           *)
Parts == {"name", "twice", "create", "edit"}

TypeOK ==
  /\ Kind \in Declarations
  /\ upstream \in [Targets -> Holdings]
  /\ inFlight \subseteq [run : 1 .. MaxRuns, of : Targets, request : {"create", "edit"}]
  /\ adopt \in BOOLEAN /\ complete \in BOOLEAN
  /\ flaw \subseteq Targets \X Parts
  /\ at \in {"validate", "next", "lookup", "inventory", "match", "create", "reread", "edit", "ended"}
  /\ target \in Targets \cup {NoTarget}
  /\ done \subseteq Targets /\ applied \subseteq Targets /\ unchanged \subseteq Targets
  /\ compensations \subseteq Targets /\ made \subseteq Targets /\ changed \subseteq Targets
  /\ applied \cap unchanged = {} /\ done \subseteq applied \cup unchanged
  /\ failure \in [of : Targets \cup {NoTarget},
                   said : {"nothing", "refused", "settled", "unknown", "not sent"}]
  /\ run \in 1 .. MaxRuns /\ meddling \in 0 .. MaxMeddling
  /\ DOMAIN inventory = Listed
  /\ \A kind \in Listed : inventory[kind] = Unloaded \/ inventory[kind] \in [Of(kind) -> Holdings]

(* Without the repository there is nothing in it.                          *)
Scoped(t) == Kind[t] \notin {"owner", "repository", "token"}
Exists(holding) == \E t \in Targets : Kind[t] = "repository" /\ holding[t] # "absent"
Consistent(holding) ==
  /\ \A t \in Targets : Kind[t] \in Attributes => holding[t] # "absent"
  /\ ~Exists(holding) => \A t \in Targets :
       Scoped(t) => holding[t] = IF Kind[t] \in Attributes THEN "other" ELSE "absent"

Init ==
  /\ Kind \in Declarations
  /\ upstream \in {holding \in [Targets -> Holdings] : Consistent(holding)}
  /\ inFlight = {}
  /\ run = 1 /\ meddling = 0
  /\ adopt \in BOOLEAN
  /\ flaw = {}
  /\ at = "validate" /\ target = NoTarget /\ done = {}
  /\ inventory = [kind \in Listed |-> Unloaded]
  /\ applied = {} /\ unchanged = {} /\ failure = NoFailure
  /\ compensations = {} /\ complete = FALSE
  /\ made = {} /\ changed = {}

-----------------------------------------------------------------------------
(* Gitea *)

Archived == \E t \in Targets : Kind[t] = "archive" /\ upstream[t] = "declared"

(* Gitea executes a request where its object allows it: an archived        *)
(* repository takes no changes, an edit needs something to edit, and only  *)
(* labels and hooks may exist twice.                                       *)
Writable(t) == Scoped(t) => Exists(upstream) /\ (~Archived \/ Kind[t] = "archive")
Conflicts(t) == upstream[t] # "absent" /\ Kind[t] \notin {"label", "hook"}
Executable(t, request) ==
  /\ Writable(t)
  /\ IF request = "create" THEN ~Conflicts(t) ELSE Kind[t] \in Put \/ upstream[t] # "absent"

Creates(t, request) == request = "create" \/ upstream[t] = "absent"

Execute(t, request) ==
  /\ Executable(t, request)
  /\ upstream' = [upstream EXCEPT ![t] = "declared"]
  /\ changed' = changed \cup {t}
  /\ made' = IF Creates(t, request) THEN made \cup {t} ELSE made

NotExecuted == UNCHANGED <<upstream, history>>

(* Another user changes what Gitea holds.                                  *)
Meddle ==
  /\ meddling < MaxMeddling
  /\ \E t \in Targets, holding \in Holdings :
       LET next == [upstream EXCEPT ![t] = holding]
           gone == [u \in Targets |->
                      IF ~Scoped(u) THEN next[u]
                      ELSE IF Kind[u] \in Attributes THEN "other" ELSE "absent"]
       IN upstream' = IF Exists(next) THEN next ELSE gone
  /\ Consistent(upstream')
  /\ meddling' = meddling + 1
  /\ UNCHANGED <<inFlight, asked, at, target, done, inventory, report, run, history>>

(* A request given up on is executed after all, or never.                  *)
Late ==
  /\ \E r \in inFlight :
       /\ inFlight' = inFlight \ {r}
       /\ \/ NotExecuted
          \/ /\ Executable(r.of, r.request)
             /\ upstream' = [upstream EXCEPT ![r.of] = "declared"]
             /\ changed' = IF r.run = run THEN changed \cup {r.of} ELSE changed
             /\ made' = IF r.run = run /\ Creates(r.of, r.request) THEN made \cup {r.of} ELSE made
  /\ UNCHANGED <<asked, at, target, done, inventory, report, bounds>>

-----------------------------------------------------------------------------
(* The report *)

Goto(request) == at' = request /\ UNCHANGED <<target, done, report>>

Finish == at' = "next" /\ target' = NoTarget /\ done' = done \cup {target}

(* push_step with outcome unchanged                                        *)
Unchanged ==
  /\ Finish
  /\ unchanged' = unchanged \cup {target}
  /\ UNCHANGED <<applied, failure, compensations, complete>>

(* push_step with outcome applied, and the compensation if there is one    *)
Applied(undo) ==
  /\ Finish
  /\ applied' = applied \cup {target}
  /\ compensations' = compensations \cup undo
  /\ UNCHANGED <<unchanged, failure, complete>>

(* failed_step: the workflow stops here.                                   *)
Fail(said) ==
  /\ at' = "ended"
  /\ failure' = [of |-> target, said |-> said]
  /\ UNCHANGED <<target, done, applied, unchanged, compensations, complete>>

(* create_resource, when the answer lacks the identifier a deletion needs  *)
AppliedWithoutId ==
  /\ at' = "ended"
  /\ applied' = applied \cup {target}
  /\ failure' = [of |-> target, said |-> "settled"]
  /\ UNCHANGED <<target, done, unchanged, compensations, complete>>

(* Mutant: a request whose answer never came is reported as never sent.    *)
LostIsNotSent(outcome) == IF outcome = "lost" THEN "not sent" ELSE outcome

(* failure_detail: what a failed step says of its request.                 *)
Said(outcome) == IF outcome = "lost" THEN "unknown" ELSE outcome

(* A request that only reads fails.                                        *)
ReadFails ==
  /\ \E outcome \in {"not sent", "refused", "settled", "lost"} : Fail(Said(outcome))
  /\ UNCHANGED <<gitea, inventory, history>>

(* A request that changes something fails: without effect, with its effect *)
(* delivered and the answer unusable, or without an answer.                *)
WriteFails(request) ==
  \/ /\ \E outcome \in {"not sent", "refused"} : Fail(Said(outcome))
     /\ NotExecuted /\ UNCHANGED inFlight
  \/ /\ Fail(Said("settled"))
     /\ Execute(target, request) /\ UNCHANGED inFlight
  \/ /\ Fail(Said("lost"))
     /\ \/ Execute(target, request) /\ UNCHANGED inFlight
        \/ /\ NotExecuted
           /\ inFlight' = inFlight \cup {[run |-> run, of |-> target, request |-> request]}

-----------------------------------------------------------------------------
(* The declaration is checked before the first request *)

(* validate_input: what the schema of the tool refuses of each kind.  What *)
(* it takes from the catalogue are the schemas of operations that create,  *)
(* so for what is created first it says nothing of an edit; a repository   *)
(* for another owner is created by an operation the schema does not know.  *)
SchemaRefuses ==
  [kind \in DOMAIN Rank |->
     CASE kind \in {"settings", "collaborator"} -> {"edit"}
       [] kind = "team" -> {"twice"}
       [] kind \in {"protection", "token"} -> {"create"}
       [] OTHER -> {}]

ExtensionSchemaRefuses ==
  [kind \in DOMAIN Rank |->
     CASE kind \in Listed -> {"create"}
       [] kind = "variable" -> {"create", "edit"}
       [] kind = "secret" -> {"edit"}
       [] OTHER -> {}]

(* Mutant: the edit that follows a lost race for a rule is not checked.    *)
ProtectionsRefuseNoEdit(kind) ==
  IF kind = "protection" THEN {"name", "twice", "create"} ELSE {}

(* validate_branch_protections                                             *)
ProtectionsRefuse(kind) ==
  IF kind = "protection" THEN {"name", "twice", "create", "edit"} ELSE {}

(* extensions::validate                                                    *)
ExtensionsRefuse(kind) ==
  CASE kind \in {"label", "hook"} -> {"twice", "create", "edit"}
    [] kind = "key" -> {"twice", "create"}
    [] kind = "variable" -> {"twice", "name", "create", "edit"}
    [] kind = "secret" -> {"twice", "name", "edit"}
    [] OTHER -> {}

(* validate                                                                *)
ValidateRefuses(kind) ==
  CASE kind = "repository" -> {"name", "create"}
    [] kind \in {"settings", "topics"} -> {"edit"}
    [] kind = "team" -> {"name"}
    [] kind = "collaborator" -> {"twice", "name", "edit"}
    [] kind = "token" -> {"create"}
    [] OTHER -> ProtectionsRefuse(kind) \cup ExtensionsRefuse(kind)

Refused(kind) == SchemaRefuses[kind] \cup ExtensionSchemaRefuses[kind] \cup ValidateRefuses(kind)

(* What each request takes from the declaration of its target.             *)
TakesOfExtensions(kind, request) ==
  CASE request = "lookup" /\ kind = "variable" -> {"name"}
    [] request = "match" /\ kind \in Listed -> {"twice"}
    [] request = "create" /\ kind = "variable" -> {"name", "create"}
    [] request = "create" /\ kind \in Listed -> {"create"}
    [] request = "edit" /\ kind \in {"variable", "secret"} -> {"name", "twice", "edit"}
    [] request = "edit" /\ kind \in {"label", "hook"} -> {"edit"}
    [] OTHER -> {}

Takes(kind, request) ==
  CASE request \in {"lookup", "reread"} /\ kind \in {"repository", "team", "protection"} -> {"name"}
    [] request = "create" /\ kind = "team" -> {"name"}
    [] request = "create" /\ kind \in {"repository", "protection", "token"} -> {"create"}
    [] request = "edit" /\ kind \in {"collaborator", "protection"} -> {"name", "twice", "edit"}
    [] request = "edit" /\ kind \in {"settings", "topics"} -> {"edit"}
    [] OTHER -> TakesOfExtensions(kind, request)

(* bootstrap_result: a refused declaration leaves everything as it is.     *)
Validate ==
  /\ at = "validate"
  /\ at' = "next"
  /\ \/ flaw' = {}
     \/ \E t \in Targets : \E part \in Parts \ Refused(Kind[t]) :
          /\ \E request \in {"lookup", "match", "create", "reread", "edit"} :
               part \in Takes(Kind[t], request)
          /\ flaw' = {<<t, part>>}
  /\ UNCHANGED <<Kind, adopt, gitea, target, done, inventory, report, bounds, history>>

-----------------------------------------------------------------------------
(* The workflow *)

FirstRequest(kind) ==
  CASE kind \in Put -> "edit"
    [] kind \in Listed -> IF inventory[kind] = Unloaded THEN "inventory" ELSE "match"
    [] OTHER -> "lookup"

(* execute, when a token is declared and token administration is not      *)
(* configured                                                              *)
RefuseUnconfigured ==
  /\ at = "next" /\ done = {}
  /\ \E t \in Of("token") :
       /\ target' = t
       /\ failure' = [of |-> t, said |-> "not sent"]
  /\ at' = "ended"
  /\ UNCHANGED <<gitea, asked, done, inventory, applied, unchanged, compensations, complete,
                 bounds, history>>

Begin(t) ==
  /\ at = "next"
  /\ t \notin done
  /\ \A u \in Targets \ done : Rank[Kind[t]] <= Rank[Kind[u]]
  /\ target' = t
  /\ at' = FirstRequest(Kind[t])
  /\ UNCHANGED <<gitea, asked, done, inventory, report, bounds, history>>

(* What each target's lookup shows decides how the target is reached.      *)
VerifyOwner(holding) == IF holding = "declared" THEN Unchanged ELSE Fail("settled")

EnsureRepository(holding) ==
  \/ holding = "absent" /\ Goto("create")
  \/ holding # "absent" /\ IF adopt THEN Unchanged ELSE Fail("settled")

ApplyTeam(holding) == IF holding = "absent" THEN Goto("create") ELSE Unchanged

ApplyVariable(holding) == Goto(IF holding = "absent" THEN "create" ELSE "edit")

ApplyProtection(holding) == Goto(IF holding = "absent" THEN "create" ELSE "edit")

(* A token's value is shown once, on creation: one with other scopes can   *)
(* only be refused.                                                        *)
ApplyAccessToken(holding) ==
  \/ holding = "absent" /\ Goto("create")
  \/ holding = "declared" /\ Unchanged
  \/ holding = "other" /\ Fail("settled")

Decide(kind, holding) ==
  \/ kind = "owner" /\ VerifyOwner(holding)
  \/ kind = "repository" /\ EnsureRepository(holding)
  \/ kind = "team" /\ ApplyTeam(holding)
  \/ kind = "variable" /\ ApplyVariable(holding)
  \/ kind = "protection" /\ ApplyProtection(holding)
  \/ kind = "token" /\ ApplyAccessToken(holding)

Lookup ==
  /\ at = "lookup"
  /\ \/ Decide(Kind[target], upstream[target]) /\ UNCHANGED <<gitea, inventory, history>>
     \/ ReadFails
  /\ UNCHANGED <<asked, bounds>>

(* load_inventory                                                          *)
LoadInventory ==
  LET kind == Kind[target]
  IN /\ at = "inventory"
     /\ \/ /\ inventory' = [inventory EXCEPT ![kind] = [t \in Of(kind) |-> upstream[t]]]
           /\ Goto("match")
           /\ UNCHANGED <<gitea, history>>
        \/ ReadFails
     /\ UNCHANGED <<asked, bounds>>

(* The inventory decides for labels and hooks, which may come without the  *)
(* identifier an edit needs, and for deploy keys, which cannot be edited.  *)
ApplyLabel(seen) ==
  IF seen = "absent" THEN Goto("create") ELSE Goto("edit") \/ Fail("settled")

ApplyHook(seen) ==
  IF seen = "absent" THEN Goto("create") ELSE Goto("edit") \/ Fail("settled")

(* Mutant: a deploy key is found by its title alone.                       *)
ApplyDeployKeyByTitle(seen) == IF seen = "absent" THEN Goto("create") ELSE Unchanged

ApplyDeployKey(seen) ==
  \/ seen = "absent" /\ Goto("create")
  \/ seen = "declared" /\ Unchanged
  \/ seen = "other" /\ Fail("settled")

Match(kind, seen) ==
  \/ kind = "label" /\ ApplyLabel(seen)
  \/ kind = "hook" /\ ApplyHook(seen)
  \/ kind = "key" /\ ApplyDeployKey(seen)

MatchInventory ==
  /\ at = "match"
  /\ Match(Kind[target], inventory[Kind[target]][target])
  /\ UNCHANGED <<gitea, asked, inventory, bounds, history>>

(* A creation takes effect, or meets an object another user created        *)
(* meanwhile, which some kinds read again and adopt.                       *)
Created == Execute(target, "create") /\ UNCHANGED inFlight
Conflicted ==
  /\ Writable(target) /\ Conflicts(target)
  /\ Goto("reread")
  /\ NotExecuted /\ UNCHANGED inFlight

CreateRepository == (Created /\ Applied({target})) \/ (adopt /\ Conflicted)
AddTeam == (Created /\ Applied({target})) \/ Conflicted
CreateProtection == (Created /\ Applied({target})) \/ Conflicted
CreateResource == Created /\ (Applied({target}) \/ AppliedWithoutId)
CreateNamedResource == Created /\ Applied({target})
CreateAccessToken == Created /\ Applied({target})

Create ==
  /\ at = "create"
  /\ \/ Kind[target] = "repository" /\ CreateRepository
     \/ Kind[target] = "team" /\ AddTeam
     \/ Kind[target] = "protection" /\ CreateProtection
     \/ Kind[target] \in Listed /\ CreateResource
     \/ Kind[target] = "variable" /\ CreateNamedResource
     \/ Kind[target] = "token" /\ CreateAccessToken
     \/ WriteFails("create")
  /\ UNCHANGED <<asked, inventory, bounds>>

AdoptAfterConflict == Unchanged

(* Mutant: a team another user added meanwhile is reported as added.       *)
TeamAddedAnyway == Applied({target})

ReconcileTeamAdd == Unchanged
ReconcileProtection == Goto("edit")

Reread ==
  /\ at = "reread"
  /\ \/ /\ upstream[target] # "absent"
        /\ \/ Kind[target] = "repository" /\ AdoptAfterConflict
           \/ Kind[target] = "team" /\ ReconcileTeamAdd
           \/ Kind[target] = "protection" /\ ReconcileProtection
        /\ UNCHANGED <<gitea, inventory, history>>
     \/ /\ upstream[target] = "absent" /\ Fail("refused")
        /\ UNCHANGED <<gitea, inventory, history>>
     \/ ReadFails
  /\ UNCHANGED <<asked, bounds>>

(* Mutant: every accepted secret is compensated, replaced ones included.   *)
UndoEverySecret(t) == IF Kind[t] = "secret" THEN {t} ELSE {}

(* apply_secrets: only a secret answered with 201 was created.             *)
UndoOfEdit(t) == IF Kind[t] = "secret" /\ upstream[t] = "absent" THEN {t} ELSE {}

Edit ==
  /\ at = "edit"
  /\ \/ /\ Execute(target, "edit") /\ UNCHANGED inFlight
        /\ Applied(UndoOfEdit(target))
     \/ WriteFails("edit")
  /\ UNCHANGED <<asked, inventory, bounds>>

Complete ==
  /\ at = "next" /\ done = Targets
  /\ at' = "ended"
  /\ complete' = TRUE
  /\ compensations' = {}
  /\ UNCHANGED <<gitea, asked, target, done, inventory, applied, unchanged, failure,
                 bounds, history>>

Rerun ==
  /\ at = "ended" /\ run < MaxRuns
  /\ run' = run + 1
  /\ adopt' \in BOOLEAN
  /\ flaw' = {}
  /\ at' = "validate" /\ target' = NoTarget /\ done' = {}
  /\ inventory' = [kind \in Listed |-> Unloaded]
  /\ applied' = {} /\ unchanged' = {} /\ failure' = NoFailure
  /\ compensations' = {} /\ complete' = FALSE
  /\ made' = {} /\ changed' = {}
  /\ UNCHANGED <<Kind, gitea, meddling>>

Next ==
  \/ Validate \/ RefuseUnconfigured
  \/ \E t \in Targets : Begin(t)
  \/ Lookup \/ LoadInventory \/ MatchInventory \/ Create \/ Reread \/ Edit
  \/ Complete \/ Rerun
  \/ Meddle \/ Late

Spec == Init /\ [][Next]_vars

-----------------------------------------------------------------------------
(* Properties *)

(* A compensation names only what this run created: following the report   *)
(* never deletes what existed before, what another user created while the  *)
(* run was deciding, or what an earlier run left behind.                   *)
CompensationsOwn == compensations \subseteq made

(* Of what a failed run created, everything but a collaborator is either   *)
(* compensated or belongs to the step that failed, and that step does not  *)
(* claim its request was never sent or refused.  A collaborator it added   *)
(* is among the applied steps, or such a failed one, but has no            *)
(* compensation: only the steps mention it (apply_collaborators).          *)
CreationsAccounted ==
  at = "ended" /\ ~complete =>
    \A t \in made \ compensations :
      \/ failure.of = t /\ failure.said \in {"settled", "unknown"}
      \/ Kind[t] \in Unreversed /\ t \in applied

(* Each outcome of the report is true of Gitea: an applied step changed    *)
(* its target, an unchanged one did not, and a step that failed as refused *)
(* or never sent has changed nothing and never will.                       *)
ReportTruthful ==
  /\ applied \subseteq changed
  /\ unchanged \cap changed = {}
  /\ failure.said \in {"refused", "not sent"} => failure.of \notin changed

(* With no one else changing the repository, a complete run leaves every   *)
(* target as declared, and an adopted repository in existence.             *)
Converged ==
  complete /\ meddling = 0 =>
    \A t \in Targets : upstream[t] \in IF Kind[t] \in {"repository", "team"}
                                       THEN {"other", "declared"} ELSE {"declared"}

(* Nothing a run takes from its declaration, on any way through the        *)
(* workflow and its lost races, is found wrong only then: a declaration    *)
(* that Gitea or the client would refuse is refused before the first       *)
(* request changes anything.                                               *)
SoundRequests ==
  target # NoTarget => \A part \in Takes(Kind[target], at) : <<target, part>> \notin flaw
=============================================================================
