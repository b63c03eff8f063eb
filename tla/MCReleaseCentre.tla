-------------------------- MODULE MCReleaseCentre --------------------------
(***************************************************************************)
(* The scenarios with which TLC checks what surrounds the release engine.  *)
(***************************************************************************)
EXTENDS ReleaseCentre, TLC

\* One deploy task with two workers, or two with one worker.
Setup == [typed |-> TRUE, edits |-> FALSE, tasks |-> {"d1"},
          workers |-> {"w1", "w2"}, max |-> 3, manual |-> 0]
MCCallbackSetups == { Setup,
  [Setup EXCEPT !.max = 2, !.manual = 1, !.edits = TRUE],
  [Setup EXCEPT !.tasks = {"d1", "d2"}, !.workers = {"w1"}, !.max = 1],
  [Setup EXCEPT !.typed = FALSE, !.edits = TRUE] }

Push == [event |-> "push", header |-> TRUE, signed |-> FALSE, ref |-> "main", commit |-> "c1"]
MCHookPayloads == {
  Push, [Push EXCEPT !.ref = "dev", !.signed = TRUE], [Push EXCEPT !.event = "release", !.ref = "dev"],
  [Push EXCEPT !.header = FALSE], [Push EXCEPT !.header = FALSE, !.event = "tag"] }

ConfigFields ==
  {"registry", "workingDir", "entrypoint", "health", "script", "image", "command", "memory",
   "replicas", "env", "yaml", "template", "defaultMemory", "defaultReplicas", "oldImage"}
Three(x, y, z) == "r1" :> x @@ "r2" :> y @@ "r3" :> z
Change(o, c) == [op |-> o, column |-> c, user |-> "u", role |-> "viewer"]
Membership(o, u, x) == [op |-> o, column |-> "a", user |-> u, role |-> x]
Row(k, x, y, z) ==
  [kind |-> k, system |-> FALSE, fresh |-> FALSE, owners |-> {}, calls |-> Three(x, y, z)]
FirstCatalogPlan == Row("version", Change("update", "a"), Change("deploy", "b"), Change("deploy", "a"))
Kinds == {"project", "item", "environment", "target", "variable", "version", "credential",
          "callback", "template"}
MCCatalogPlans ==
  {FirstCatalogPlan, Row("version", Change("delete", "a"), Change("deploy", "b"), Change("update", "a")),
   Row("credential", Change("link", "a"), Change("delete", "b"), Change("unlink", "a")),
   [Row("template", Change("update", "a"), Change("delete", "a"), Change("none", "a"))
      EXCEPT !.system = TRUE]}
  \union {Row(k, Change("update", "a"), Change("update", "b"), Change("delete", "a")) : k \in Kinds}
  \union {[Row(k, Change("create", "a"), Change("update", "b"), Change("update", "a"))
             EXCEPT !.fresh = TRUE] : k \in Kinds}
  \union {[Row("project", x, y, z) EXCEPT !.owners = {"u", "v"}] :
            x \in {Membership("remove", "u", "owner"), Membership("add", "w", "viewer")},
            y \in {Membership("remove", "v", "owner"), Membership("role", "v", "viewer"),
                   Membership("add", "w", "owner")},
            z \in {Membership("add", "w", "viewer"), Membership("role", "w", "owner"),
                   Membership("remove", "w", "owner")}}

\* One field set in some of the layers, or a reference of a version.
Layer(x, fs) == [f \in ConfigFields |-> IF f \in fs THEN x ELSE ""]
Branches == [branch |-> "main", tag |-> "old", commit |-> ""]
Settings(k, f, layers, default, type) ==
  [kind |-> k, field |-> f, branches |-> Branches, git |-> [type |-> type, name |-> "r"],
   project |-> [Layer("p", IF 1 \in layers THEN {"image", f} ELSE {"image"} \ {f})
                  EXCEPT !["defaultMemory"] = default],
   version |-> Layer("v", IF 2 \in layers THEN {f} ELSE {}),
   task |-> Layer("t", IF 3 \in layers THEN {f} ELSE {})]
MCConfigPlans ==
  {Settings("gitpull", "image", {}, "nil", x) : x \in {"", "tag", "branch", "commit"}}
  \union {Settings(k, f, s, "nil", "") : k \in {"container", "kubernetes"}, s \in SUBSET {1, 2, 3},
            f \in {"registry", "image", "command", "entrypoint", "replicas", "yaml", "oldImage"}}
  \union {Settings(k, "memory", s, x, "") : k \in {"container", "kubernetes"},
            s \in SUBSET {1, 2, 3}, x \in {"nil", "", "d"}}

Account(o, u, n, x) ==
  [op |-> o, user |-> u, role |-> n, on |-> TRUE, menus |-> {"m1", "m2"}, name |-> x]
GiveMenus(n, ms) == [Account("setMenus", "u", n, 0) EXCEPT !.menus = ms]
Accountable(x, y, z) == [users |-> {"u"}, roles |-> {1, 2}, calls |-> Three(x, y, z)]
FirstAccountPlan ==
  Accountable(Account("login", "u", 1, 0), Account("visit", "u", 1, 0), Account("logout", "u", 1, 0))
MCAccountPlans == {
  FirstAccountPlan,
  Accountable(Account("login", "u", 1, 0), Account("visit", "u", 1, 0),
              [Account("update", "u", 1, 0) EXCEPT !.on = FALSE]),
  Accountable(Account("register", "w", 1, 0), Account("register", "w", 1, 0), Account("remove", "w", 1, 0)),
  Accountable(Account("create", "w", 2, 0), Account("dropRole", "w", 2, 0), Account("reset", "w", 2, 0)),
  Accountable(Account("update", "u", 2, 0), Account("dropRole", "w", 2, 0), Account("addRole", "w", 2, 3)),
  Accountable(Account("addRole", "u", 2, 3), Account("dropRole", "w", 2, 3), Account("copyRole", "w", 1, 4)),
  Accountable(Account("rename", "u", 1, 3), Account("addRole", "w", 2, 3), Account("rename", "w", 2, 3)),
  Accountable(GiveMenus(1, {"m1"}), GiveMenus(1, {"m2"}), Account("copyRole", "w", 1, 4)),
  Accountable(GiveMenus(1, {"m1", "m2"}), Account("copyRole", "w", 1, 3), GiveMenus(2, {"m2"})) }

Entry(i, at, hit, s, v) == [id |-> i, at |-> at, hit |-> hit, status |-> s, level |-> v]
FewRows == {Entry(1, 1, TRUE, "success", "info"), Entry(2, 2, FALSE, "failed", "info"),
            Entry(3, 3, TRUE, "running", "critical")}
MCTables ==
  {FewRows, {[e EXCEPT !.at = 1, !.hit = TRUE] : e \in FewRows},
   {[e EXCEPT !.hit = TRUE] : e \in FewRows} \union {Entry(4, 4, TRUE, "success", "critical")}}

Deploy(rem, first, login, health) ==
  [kind |-> "deploy", name |-> "app", removeOld |-> rem, pullFirst |-> first,
   login |-> login, health |-> health, image |-> TRUE]
Swap == Deploy(TRUE, FALSE, FALSE, TRUE)
Careful == Deploy(TRUE, TRUE, TRUE, FALSE)
Add == Deploy(FALSE, FALSE, FALSE, FALSE)
Do(op, v) == [kind |-> "script", op |-> op, version |-> v]
Check == [kind |-> "check"]
MCHostJobs ==
  {<<Swap, Careful>>, <<Careful, Add>>, <<Careful, [Careful EXCEPT !.login = FALSE]>>,
   <<[Add EXCEPT !.image = FALSE], Swap, [kind |-> "collect"]>>,
   <<Do("install", "v1"), Do("uninstall", "v1"), Check>>,
   <<Do("install", "v1"), Do("install", "v2"), Check>>, <<Do("empty", "v1"), Check>>}

Main == [kind |-> "deploy", commit |-> "", tag |-> "", branch |-> "main", pre |-> FALSE,
         backup |-> FALSE, clean |-> FALSE, post |-> FALSE]
Safe == [Main EXCEPT !.backup = TRUE, !.clean = TRUE]
Versions == [kind |-> "versions"]
MCGitJobs ==
  {<<Safe, Safe>>, <<[Main EXCEPT !.pre = TRUE, !.post = TRUE], Main>>, <<Safe, Main>>,
   <<[Main EXCEPT !.commit = "c0"], Versions>>, <<Safe, Versions>>,
   <<[Main EXCEPT !.tag = "t", !.branch = ""], [Safe EXCEPT !.branch = ""]>>}
EmptyDir == [there |-> FALSE, git |-> FALSE, files |-> FALSE, head |-> "", on |-> "",
             local |-> "", origin |-> ""]
OldTree == [there |-> TRUE, git |-> TRUE, files |-> TRUE, head |-> "c0", on |-> "main",
            local |-> "c0", origin |-> "c0"]

Tag(n, v) == [name |-> n, version |-> v]
Repository(a, bs, ts) == [auth |-> a, branches |-> bs, tags |-> ts]
Tagged == Repository("ssh", {"main", "dev"},
            <<Tag("v1.0", <<1, 0>>), Tag("1.10", <<1, 10>>), Tag("latest", <<>>), Tag("v1", <<1>>)>>)
Developed == Repository("ssh", {"dev"}, <<Tag("v2.1", <<2, 1>>)>>)
Bare == Repository("ssh", {"dev"}, <<>>)
Tokened == Repository("token", {"master"}, <<>>)
Both(p, q) == [r \in {"r1", "r2"} |-> IF r = "r1" THEN p ELSE q]
MCKeyPlans == {Both(Tagged, Developed), Both(Tagged, Tokened), Both(Developed, Tokened),
             Both(Bare, Developed)}
MCConfigClients == <<"c1", "c2">>
MCContainers == {{}, {"app"}}
MCGitDirs == {EmptyDir, OldTree}
=============================================================================
