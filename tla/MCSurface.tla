----------------------------- MODULE MCSurface ------------------------------
(* A small catalogue: operations of each class and each kind of parameter, *)
(* as in generated/gitea-1.26.4-operations.json, fewer of each.            *)
EXTENDS Surface

Path(name) == Parameter(name, "path", "string", TRUE, None)
In(at, name, kind, format) == Parameter(name, at, kind, FALSE, format)
Lit(text) == <<<<"literal", text>>>>
Par(name) == <<<<"param", name>>>>

Op(id, tool, domain, method, path, parameters, risk, flags) ==
  [id |-> id, tool |-> tool, domain |-> domain, method |-> method, path |-> path, parameters |-> parameters,
   risk |-> risk, needs |-> {parameters[i].name : i \in {j \in DOMAIN parameters : parameters[j].required}},
   exposed |-> "hidden" \notin flags, deprecated |-> "deprecated" \in flags,
   administrative |-> "administrative" \in flags, secret |-> "secret" \in flags, plain |-> "plain" \in flags]

Repo == <<Lit("repos"), Par("owner"), Par("repo")>>
InRepo == <<Path("owner"), Path("repo")>>

MCOperations == {
  Op("repoGet", "repository.get", "repository", "GET", Repo, InRepo, "read", {}),
  Op("repoDelete", "repository.delete", "repository", "DELETE", Repo, InRepo, "destructive", {}),
  Op("updateRepoSecret", "repository.update_repo_secret", "repository", "PUT",
     Repo \o <<Lit("actions"), Lit("secrets"), Par("secretname")>>,
     InRepo \o <<Path("secretname"), In("body", "body", "object", None)>>, "destructive", {}),
  Op("repoDownloadCommitDiffOrPatch", "repository.download_commit_diff_or_patch", "repository", "GET",
     Repo \o <<<<<<"param", "sha">>, <<"literal", ".">>, <<"param", "diffType">>>>>>,
     InRepo \o <<Path("sha"), Path("diffType")>>, "read", {}),
  Op("repoCreateReleaseAttachment", "repository.create_release_attachment", "repository", "POST",
     Repo \o <<Lit("assets")>>,
     InRepo \o <<In("query", "name", "string", None), In("form", "attachment", "file", None)>>, "mutation", {}),
  Op("notifyGetList", "notification.get_list", "notification", "GET", <<Lit("notifications")>>,
     <<In("query", "all", "boolean", None), In("query", "status-types", "array", "multi")>>, "read", {}),
  Op("renderMarkdownRaw", "miscellaneous.render_markdown_raw", "miscellaneous", "POST", <<Lit("markdown")>>,
     <<Parameter("body", "body", "string", TRUE, None)>>, "read", {"plain"}),
  Op("createOrgRepoDeprecated", "organization.create_org_repo_deprecated", "organization", "POST",
     <<Lit("org"), Par("org"), Lit("repos")>>, <<Path("org"), In("body", "body", "object", None)>>,
     "mutation", {"deprecated"}),
  Op("adminCronList", "admin.cron_list", "admin", "GET", <<Lit("admin"), Lit("cron")>>, <<>>, "read",
     {"administrative"}),
  Op("adminDeleteUser", "admin.delete_user", "admin", "DELETE", <<Lit("admin"), Lit("users"), Par("username")>>,
     <<Path("username"), In("query", "purge", "boolean", None)>>, "destructive", {"administrative"}),
  Op("adminGetRegistrationToken", "admin.create_runner_registration_token", "admin", "POST",
     <<Lit("admin"), Lit("registration-token")>>, <<>>, "mutation", {"administrative", "secret"}),
  Op("getVersion", "miscellaneous.get_version", "miscellaneous", "GET", <<Lit("version")>>, <<>>, "read", {"hidden"}),
  Op("userCreateToken", "user.create_token", "user", "POST", <<Lit("users"), Par("username"), Lit("tokens")>>,
     <<Path("username")>>, "mutation", {"hidden"}),
  Op("userDeleteAccessToken", "user.delete_access_token", "user", "DELETE",
     <<Lit("users"), Par("username"), Lit("tokens"), Par("token")>>, <<Path("username"), Path("token")>>,
     "destructive", {"hidden"})}

MCLedger == {
  [id |-> "getVersion", tool |-> "miscellaneous.get_version", replacement |-> "server.version"],
  [id |-> "userCreateToken", tool |-> "user.create_token", replacement |-> "access_token.create"],
  [id |-> "userDeleteAccessToken", tool |-> "user.delete_access_token", replacement |-> "access_token.revoke"]}

MCAlphabet == <<
  "access_token.create", "access_token.list", "access_token.revoke",
  "admin.create_runner_registration_token", "admin.cron_list", "admin.delete_user",
  "catalog.describe", "catalog.search", "miscellaneous.render_markdown_raw", "notification.get_list",
  "repository.bootstrap", "repository.create_release_attachment", "repository.delete",
  "repository.download_commit_diff_or_patch", "repository.get", "repository.secret.set_from_file",
  "repository.update_repo_secret", "result.select", "server.version">>

(* The terms in names, ids and descriptions, of a vocabulary of eight.     *)
Text(name, id, description, wholeId) ==
  [name |-> name, id |-> id, description |-> description, wholeId |-> wholeId]
Plain == Text({}, {}, {}, {})
MCTexts == [t \in {MCAlphabet[i] : i \in DOMAIN MCAlphabet} |->
  CASE t = "repository.delete" -> Text({"repo", "delete"}, {"repo", "delete"}, {"repo"}, {"repodelete"})
    [] t = "repository.get" -> Text({"repo"}, {"repo"}, {"repo"}, {})
    [] t = "repository.secret.set_from_file" -> Text({"repo", "secret"}, {"repo", "secret"}, {"actions", "secret"}, {})
    [] t = "repository.update_repo_secret" -> Text({"repo", "secret"}, {"repo", "secret"}, {"secret"}, {})
    [] t = "repository.bootstrap" -> Text({"repo"}, {"repo"}, {"repo"}, {})
    [] t = "repository.create_release_attachment" -> Text({"repo"}, {"repo"}, {"pull request"}, {})
    [] t = "repository.download_commit_diff_or_patch" -> Text({"repo"}, {"repo"}, {}, {})
    [] t = "admin.cron_list" -> Text({}, {}, {"actions"}, {})
    [] t = "admin.create_runner_registration_token" -> Text({}, {"actions"}, {"actions"}, {})
    [] t = "admin.delete_user" -> Text({"delete"}, {"delete"}, {}, {})
    [] OTHER -> Plain]

Ask(query, domain, risk, administrative, limit) ==
  [query |-> query, domain |-> domain, risk |-> risk, administrative |-> administrative, limit |-> limit]
MCQueries ==
  {Ask(q, None, None, None, n) : q \in {<<>>, <<"repo">>, <<"delete">>, <<"secret", "repo">>, <<"pr">>, <<"ci">>,
                                        <<"repodelete">>, <<"nothing">>},
                                 n \in {None, 0, 1, 2, 4}}
  \cup {Ask(<<>>, "repository", "destructive", None, 2), Ask(<<"delete">>, None, "read", None, None),
        Ask(<<>>, "nowhere", None, None, None), Ask(<<>>, None, "any", None, None),
        Ask(<<"enormous">>, None, None, None, None), Ask(<<>>, None, None, TRUE, 2)}

(* A call's arguments: of each parameter a few values, at most one of them *)
(* other than usual, an optional one perhaps left out, or one too many.    *)
Usual(p) ==
  CASE p.kind = "array" -> Array(<<Scalar("string", "x"), Scalar("string", "y")>>)
    [] p.kind = "object" -> Upload("x", "x", "none")
    [] p.kind = "file" -> Upload("x", "x", "none")
    [] p.kind = "boolean" -> Scalar("boolean", "true")
    [] p.kind = "string" -> Scalar("string", "x")
MCLoose == [text \in {"\t", ".\n", ".\t.", "y\tx"} |->
  CASE text = "\t" -> "" [] text = ".\n" -> "." [] text = ".\t." -> ".." [] text = "y\tx" -> "yx"]
Odd(p) ==
  {Null, Scalar("number", "1"), Array(<<Upload("x", "x", "none")>>), Array(<<>>), Upload("empty", "empty", "none")}
  \cup {Scalar("string", text) : text \in {"", ".", "..", "y"} \cup DOMAIN MCLoose}
  \cup (IF p.kind = "file" THEN {Upload("long", "x", "none"), Upload("control", "x", "none"), Upload("x", "garbage", "none"),
                                 Upload("x", "large", "none"), Upload("x", "x", "garbage")} ELSE {})
TriesOf(o) ==
  LET parameters == {o.parameters[i] : i \in DOMAIN o.parameters}
      named(n) == CHOOSE p \in parameters : p.name = n
      all == {p.name : p \in parameters}
      usual(names) == [n \in names |-> Usual(named(n))]
  IN {usual(all), usual(o.needs), usual({})}
     \cup UNION {{[usual(all) EXCEPT ![p.name] = v] : v \in Odd(p)} : p \in parameters}
     \cup {[n \in all \cup {"extra"} |-> IF n = "extra" THEN Null ELSE Usual(named(n))]}
MCTries == [id \in {o.id : o \in MCOperations} |-> UNION {TriesOf(o) : o \in {x \in MCOperations : x.id = id}}]

MCSpellings == {{}, {"operation_id"}, {"name", "args"}, {"operation_id", "arguments"}, {"tool", "operation"},
                {"operation", "arguments", "args"}, {"tool", "arguments", "limit"}}
=============================================================================
