----------------------------- MODULE DeployConfig -----------------------------
(***************************************************************************)
(* pkg/release/models/config_merge.go and what leads from it to a command: *)
(* a run of a deploy task loads the version and the project, merges the    *)
(* project's configuration, the version's and the task's override for each *)
(* client, and sends what the engine and the remote executor carry over.   *)
(* Administrators edit the rows and preview the merge meanwhile.           *)
(***************************************************************************)
EXTENDS Integers, SequencesExt

CONSTANTS
  Clients,     \* the clients of the task, a sequence
  Runs,        \* runs of the task: the canary's and those after it
  Plans,       \* kind, layers and number of edits to choose from
  MaxEdits     \* bound: edits of a row

VARIABLES
  plan,        \* kind : of the project, task : its override, git : the version's reference
  project,     \* the project's configuration in the database, a value for each field
  version,     \* the version's
  run,         \* each run: what it loaded, the clients it has still to do
  got,         \* the commands sent: run and client -> values
  preview,     \* what an administrator is shown
  edits

vars == <<plan, project, version, run, got, preview, edits>>

Unset == ""
Kinds == {"container", "kubernetes", "gitpull"}

\* A field for each way the merge treats one.  A key of the environment is a
\* field: maps are merged by key.
Fixed == {"registry"}
ByVersion == {"workingDir", "entrypoint", "health", "script"}
ByTask == {"image", "command", "memory", "replicas", "env"}
YamlFields == {"yaml", "template"}
Fallbacks == {"defaultMemory", "defaultReplicas", "oldImage"}
Fields == Fixed \cup ByVersion \cup ByTask \cup YamlFields \cup Fallbacks
GitRefTypes == {"branch", "tag", "commit"}

Idle == [pc |-> "idle"]
TypeOK ==
  /\ plan.kind \in Kinds
  /\ DOMAIN project = Fields /\ DOMAIN version = Fields
  /\ \A r \in Runs : run[r].pc \in {"idle", "project", "deploy", "done"}
  /\ \A r \in Runs : DOMAIN got[r] \subseteq ToSet(Clients)
  /\ preview.pc \in {"idle", "version", "done"}
  /\ edits \in 0 .. MaxEdits

Init ==
  /\ plan \in Plans
  /\ project = plan.project /\ version = plan.version
  /\ run = [r \in Runs |-> Idle]
  /\ got = [r \in Runs |-> <<>>]
  /\ preview = Idle
  /\ edits = 0

-----------------------------------------------------------------------------
(* The merge: project < version < task.                                     *)

Over(base, override) == IF override # Unset THEN override ELSE base

\* Resources of the project: its defaults, or the older fields.  A project with
\* defaults never falls back to the older field, even where they say nothing.
ProjectMemory(p) == IF p["defaultMemory"] = "nil" THEN p["memory"] ELSE p["defaultMemory"]

\* Replicas of the project: the default, the older field, one.
ProjectReplicas(p) == Over(Over("1", p["replicas"]), p["defaultReplicas"])

\* Slip: the version has the last word.
MergedTaskFirst(p, v, t) ==
  [f \in Fields |->
     CASE f \in ByTask -> Over(Over(p[f], t[f]), v[f])
       [] f \in ByVersion -> Over(p[f], v[f])
       [] OTHER -> p[f]]

\* What the two merges have in common.
Merged(p, v, t) ==
  [f \in Fields |->
     CASE f \in ByTask -> Over(Over(p[f], v[f]), t[f])
       [] f \in ByVersion -> Over(p[f], v[f])
       [] OTHER -> p[f]]

MergeContainerConfig(p, v, t) ==
  Merged([p EXCEPT !["memory"] = ProjectMemory(p)], v, t)

\* The version's full YAML replaces the project's; its patch only the template.
MergeK8sConfig(p, v, t) ==
  LET m == Merged([p EXCEPT !["memory"] = ProjectMemory(p), !["replicas"] = ProjectReplicas(p)],
                  v, t)
  IN IF v["yaml"] # Unset THEN [m EXCEPT !["yaml"] = v["yaml"]]
     ELSE [m EXCEPT !["template"] = Over(p["template"], v["template"])]

Final(k, p, v, t) ==
  IF k = "container" THEN MergeContainerConfig(p, v, t) ELSE MergeK8sConfig(p, v, t)

\* The reference of a version replaces the project's, as its type says; without
\* a type the project's stays.
GitTarget(p, ref) ==
  CASE ref.type = "tag" -> [branch |-> Unset, tag |-> ref.name, commit |-> Unset]
    [] ref.type = "branch" -> [branch |-> ref.name, tag |-> Unset, commit |-> Unset]
    [] ref.type = "commit" -> [branch |-> p.branch, tag |-> Unset, commit |-> ref.name]
    [] OTHER -> p

-----------------------------------------------------------------------------
(* From the merge to the command.                                           *)

\* The fields of the old versions count when the merge found nothing.
WithOldImage(k, m, v) ==
  [m EXCEPT !["image"] = IF k = "container" THEN Over(v["oldImage"], @) ELSE @,
            !["yaml"] = IF k = "kubernetes" THEN Over(v["oldImage"], @) ELSE @]

Deployable(k, m) ==
  CASE k = "container" -> m["image"] # Unset
    [] k = "kubernetes" -> \E f \in {"image", "yaml", "template"} : m[f] # Unset
    [] k = "gitpull" -> TRUE

\* ExecuteContainerDeployWithMergedConfig leaves the scripts behind, and the
\* remote executor the working directory among others; for Kubernetes the engine
\* leaves the command, the entry point and the directory too.
Carried(k) ==
  CASE k = "container" -> {"registry", "image", "env", "command", "entrypoint", "health", "memory"}
    [] k = "kubernetes" -> {"registry", "image", "env", "memory", "replicas", "yaml", "template"}
    [] k = "gitpull" -> {}

Command(k, m, git) == [fields |-> Restrict(m, Carried(k)), git |-> git]

-----------------------------------------------------------------------------
(* The runs, the administrators and the preview.                            *)

LoadVersion(r) ==
  /\ run[r] = Idle
  /\ run' = [run EXCEPT ![r] = [pc |-> "project", version |-> version, todo |-> Clients]]
  /\ UNCHANGED <<plan, project, version, got, preview, edits>>

LoadProject(r) ==
  /\ run[r].pc = "project"
  /\ run' = [run EXCEPT ![r] = [pc |-> "deploy", version |-> @.version, project |-> project,
                                todo |-> @.todo]]
  /\ UNCHANGED <<plan, project, version, got, preview, edits>>

\* Slip: each client is deployed from the row of the moment.
DeployFresh(r) ==
  /\ run[r].pc = "deploy" /\ run[r].todo # <<>>
  /\ LET k == plan.kind
         m == WithOldImage(k, Final(k, run[r].project, version, plan.task), version)
     IN got' = IF Deployable(k, m)
               THEN [got EXCEPT ![r] = Head(run[r].todo) :>
                                         Command(k, m, GitTarget(plan.branches, plan.git)) @@ @]
               ELSE got
  /\ run' = [run EXCEPT ![r].todo = Tail(@)]
  /\ UNCHANGED <<plan, project, version, preview, edits>>

\* One client: the merge is made again for each, from what the run has loaded.
Deploy(r) ==
  /\ run[r].pc = "deploy" /\ run[r].todo # <<>>
  /\ LET k == plan.kind
         v == run[r].version
         m == WithOldImage(k, Final(k, run[r].project, v, plan.task), v)
         g == GitTarget(plan.branches, plan.git)
     IN got' = IF Deployable(k, m)
               THEN [got EXCEPT ![r] = Head(run[r].todo) :> Command(k, m, g) @@ @]
               ELSE got
  /\ run' = [run EXCEPT ![r].todo = Tail(@)]
  /\ UNCHANGED <<plan, project, version, preview, edits>>

Finish(r) ==
  /\ run[r].pc = "deploy" /\ run[r].todo = <<>>
  /\ run' = [run EXCEPT ![r].pc = "done"]
  /\ UNCHANGED <<plan, project, version, got, preview, edits>>

\* UpdateProject and UpdateVersion, of one field.
Edit ==
  /\ edits < MaxEdits /\ edits' = edits + 1
  /\ \/ project' = [project EXCEPT ![plan.field] = "p2"] /\ UNCHANGED version
     \/ version' = [version EXCEPT ![plan.field] = "v2"] /\ UNCHANGED project
  /\ UNCHANGED <<plan, run, got, preview>>

\* PreviewDeployConfig reads the project and then the version.
PreviewProject ==
  /\ plan.kind # "gitpull" /\ preview = Idle
  /\ preview' = [pc |-> "version", project |-> project]
  /\ UNCHANGED <<plan, project, version, run, got, edits>>

PreviewDeployConfig ==
  /\ preview.pc = "version"
  /\ preview' = [pc |-> "done", project |-> preview.project, version |-> version,
                 final |-> Final(plan.kind, preview.project, version, plan.task)]
  /\ UNCHANGED <<plan, project, version, run, got, edits>>

Next ==
  \/ \E r \in Runs : LoadVersion(r) \/ LoadProject(r) \/ Deploy(r) \/ Finish(r)
  \/ Edit \/ PreviewProject \/ PreviewDeployConfig

Spec == Init /\ [][Next]_vars

-----------------------------------------------------------------------------
(* Clients that one run deploys to are given the same configuration,       *)
(* whatever is edited while it goes from one to the next                   *)
(* (executeDeployTask).                                                    *)
OneConfigurationPerRun ==
  \A r \in Runs : \A c, d \in DOMAIN got[r] : got[r][c] = got[r][d]

\* The layers that may set a field, and the highest that does.
Layers(p, v, t, f) ==
  IF f \in ByTask THEN <<p[f], v[f], t[f]>>
  ELSE IF f \in Fixed THEN <<p[f]>> ELSE <<p[f], v[f]>>
Highest(s) ==
  LET set == {i \in DOMAIN s : s[i] # Unset}
  IN IF set = {} THEN Unset ELSE s[Max(set)]

(* A task's override beats the version and the version the project, for    *)
(* every field a command carries and a layer sets ("任务覆盖配置"): nothing *)
(* of the way from the rows to the client puts a lower layer back.  (The   *)
(* project's own value may be a default of it.)                            *)
HighestLayerWins ==
  \A r \in Runs : \A c \in DOMAIN got[r] :
    \A f \in Carried(plan.kind) \ {"yaml", "template"} :
      LET s == Tail(Layers(run[r].project, run[r].version, plan.task, f))
      IN Highest(s) # Unset => got[r][c].fields[f] = Highest(s)

(* What the preview showed is what a client gets from the same two rows,   *)
(* field by field, unless an old version's image fills a gap               *)
(* (PreviewDeployConfig merges without it).                                *)
ShownIsSent ==
  preview.pc = "done" =>
    \A r \in Runs : \A c \in DOMAIN got[r] :
      preview.project = run[r].project /\ preview.version = run[r].version =>
        \A f \in Carried(plan.kind) :
          preview.final[f] # Unset => got[r][c].fields[f] = preview.final[f]

(* A version that names a tag or a branch leaves no other reference for    *)
(* the client to prefer (ExecuteGitPullDeployTask).                        *)
OneReference ==
  \A r \in Runs : \A c \in DOMAIN got[r] :
    plan.kind = "gitpull" /\ plan.git.type \in {"tag", "branch"} =>
      Cardinality({x \in GitRefTypes : got[r][c].git[x] # Unset}) = 1

CommandsAreAsConfigured ==
  TypeOK /\ OneConfigurationPerRun /\ HighestLayerWins /\ ShownIsSent /\ OneReference
=============================================================================
