---------------------------- MODULE MCBootstrap ----------------------------
(* Small declarations for Bootstrap.                                       *)
EXTENDS Bootstrap

(* A repository with those who may use it and what they may do.            *)
Access ==
  [owner |-> "owner", repository |-> "repository", team |-> "team", collaborator |-> "collaborator",
   protection |-> "protection", token |-> "token"]

(* A repository with its own properties, archived in the end.              *)
Attributed ==
  [repository |-> "repository", settings |-> "settings", topics |-> "topics",
   collaborator |-> "collaborator", secret |-> "secret", archive |-> "archive"]

(* A repository with the targets of the extensions.                        *)
Extensions ==
  [repository |-> "repository", label |-> "label", hook |-> "hook", key |-> "key",
   variable |-> "variable", secret |-> "secret"]

Declared == {Access, Attributed, Extensions}
=============================================================================
