----------------------------- MODULE HostDeploy -----------------------------
(***************************************************************************)
(* Commands of the release centre at one host: container.deploy writes a   *)
(* script (log in, pull, stop and remove, pull, run, wait for health) and  *)
(* runs it, release.execute runs the script of a version in its work       *)
(* directory, release.check looks at that directory and container.collect  *)
(* lists the containers.  The client's workers run commands at the same    *)
(* time, and a script ends after any of its commands when its time is up.  *)
(***************************************************************************)
EXTENDS Integers, FiniteSets, Sequences

CONSTANTS
  Jobs,       \* sequences of commands: [kind |-> "deploy", name, removeOld, pullFirst,
              \* login, health, image], [kind |-> "script", op, version] or [kind |-> "check"]
  Containers  \* sets of names of containers that are there at first

VARIABLES
  plan,    \* the commands and the containers at first
  host,    \* name -> what is there: [by : command (0: before), state]
  dir,     \* the work directory: absent, or there with a version
  jobs,    \* command -> [pc, step of the script, answer, seen]
  beside   \* command -> the commands at work at the same time, [other, where it was] (history)

vars == <<plan, host, dir, jobs, beside>>

Nothing == [by |-> 0, state |-> "none"]
NoDir == [there |-> FALSE, version |-> ""]
Ids == DOMAIN plan.jobs
Names == {n \in DOMAIN host : host[n] # Nothing}
AtWork(i) == jobs[i].pc \notin {"waiting", "done"}

TypeOK ==
  /\ \A n \in DOMAIN host : host[n].by \in {0} \union Ids
                            /\ host[n].state \in {"none", "created", "running", "healthy"}
  /\ dir.there \in BOOLEAN
  /\ \A i \in Ids : jobs[i].answer \in {"none", "ok", "error"}

-----------------------------------------------------------------------------
\* The commands of the script that deploys a container: set -e, so the first
\* that fails is the last.  A command for stopping or removing may fail.
Script(j) ==
  (IF j.login THEN <<"login">> ELSE <<>>) \o (IF j.pullFirst THEN <<"pull">> ELSE <<>>)
  \o (IF j.removeOld THEN <<"stop", "rm">> ELSE <<>>)
  \o (IF j.pullFirst THEN <<>> ELSE <<"pull">>) \o <<"run">>
  \o (IF j.health THEN <<"health">> ELSE <<>>)

Job(i) == plan.jobs[i]
Deploys(i) == Job(i).kind = "deploy"
Runs(i) == Job(i).kind = "script"
To(i, pc) == jobs' = [jobs EXCEPT ![i].pc = pc]
Answer(i, a, seen) == jobs' = [jobs EXCEPT ![i].pc = "done", ![i].answer = a, ![i].seen = seen]
Fail(i) == Answer(i, "error", [at |-> jobs[i].step])
At(i, cmd) ==
  Deploys(i) /\ jobs[i].pc = "script" /\ Script(Job(i))[jobs[i].step] = cmd

Init ==
  /\ plan \in [jobs : Jobs, there : Containers]
  /\ host = [n \in plan.there \union {Job(i).name : i \in {k \in Ids : Deploys(k)}} |->
               IF n \in plan.there THEN [by |-> 0, state |-> "running"] ELSE Nothing]
  /\ dir = NoDir
  /\ jobs = [i \in Ids |-> [pc |-> "waiting", step |-> 1, answer |-> "none", seen |-> Nothing]]
  /\ beside = [i \in Ids |-> {}]

\* container.deploy wants an image; a script that is empty is a success.
Start(i) ==
  /\ jobs[i].pc = "waiting"
  /\ \/ Deploys(i) /\ ~Job(i).image /\ Fail(i)
     \/ Deploys(i) /\ Job(i).image /\ To(i, "script")
     \/ Runs(i) /\ Job(i).op = "empty" /\ Answer(i, "ok", Nothing)
     \/ Runs(i) /\ Job(i).op # "empty" /\ To(i, "prepare")
     \/ Job(i).kind = "check" /\ To(i, "check")
     \/ Job(i).kind = "collect" /\ To(i, "list")
  /\ LET others == {j \in Ids \ {i} : AtWork(j)} IN
     beside' = [j \in Ids |-> IF j = i THEN others
                              ELSE IF j \in others THEN beside[j] \union {i} ELSE beside[j]]
  /\ UNCHANGED <<plan, host, dir>>

\* The last command of the script makes it succeed; the handler then asks for
\* the container of that name, whoever it belongs to by now, and may not learn it.
Ahead(i) ==
  IF jobs[i].step < Len(Script(Job(i))) THEN jobs' = [jobs EXCEPT ![i].step = @ + 1]
  ELSE To(i, "inspect")

Keep == UNCHANGED <<plan, dir, beside>>

Fetch(i) ==
  /\ At(i, "login") \/ At(i, "pull")
  /\ Ahead(i) \/ Fail(i)
  /\ UNCHANGED host /\ Keep

Stop(i) ==
  /\ At(i, "stop") /\ Ahead(i)
  /\ LET n == Job(i).name IN
     \/ host' = [host EXCEPT ![n].state = IF @ = "none" THEN @ ELSE "created"]
     \/ UNCHANGED host
  /\ Keep

\* docker rm refuses a container that runs.
Remove(i) ==
  /\ At(i, "rm") /\ Ahead(i)
  /\ LET n == Job(i).name IN
     host' = IF host[n].state = "created" THEN [host EXCEPT ![n] = Nothing] ELSE host
  /\ Keep

\* The name is taken, or the container is made; then it starts or does not.
Run(i) ==
  /\ At(i, "run")
  /\ LET n == Job(i).name IN
     \/ host[n] # Nothing /\ Fail(i) /\ UNCHANGED host
     \/ /\ host[n] = Nothing /\ Ahead(i)
        /\ host' = [host EXCEPT ![n] = [by |-> i, state |-> "running"]]
     \/ /\ host[n] = Nothing /\ Fail(i)
        /\ host' = [host EXCEPT ![n] = [by |-> i, state |-> "created"]]
  /\ Keep

\* Thirty looks at the health of whatever has the name.
WaitHealthy(i) ==
  /\ At(i, "health")
  /\ \/ host[Job(i).name].state = "healthy" /\ Ahead(i)
     \/ Fail(i)
  /\ UNCHANGED host /\ Keep

Inspect(i) ==
  /\ jobs[i].pc = "inspect"
  /\ Answer(i, "ok", host[Job(i).name]) \/ Answer(i, "ok", Nothing)
  /\ UNCHANGED host /\ Keep

\* A container passes its health check, or it exits.
ContainerMoves(n) ==
  /\ \E i \in Ids : Deploys(i) /\ AtWork(i)
  /\ host[n].state = "running"
  /\ \E s \in {"healthy", "created"} : host' = [host EXCEPT ![n].state = s]
  /\ Keep /\ UNCHANGED jobs

\* The time of the command is up: bash is killed, the command it waits for ends.
Kill(i) ==
  /\ Deploys(i) /\ jobs[i].pc = "script" /\ Fail(i)
  /\ UNCHANGED host /\ Keep

-----------------------------------------------------------------------------
\* release.execute: the directory of the script is made before it runs; when it
\* cannot be, the script is not run.
Prepare(i) ==
  /\ jobs[i].pc = "prepare"
  /\ \/ To(i, "running") /\ dir' = [dir EXCEPT !.there = TRUE]
     \/ Fail(i) /\ UNCHANGED dir
  /\ UNCHANGED <<plan, host, beside>>

\* The script: it does its work, or fails or is killed before or after.
RunScript(i) ==
  /\ jobs[i].pc = "running"
  /\ \/ /\ dir' = IF Job(i).op = "uninstall" THEN NoDir
                  ELSE [there |-> TRUE, version |-> Job(i).version]
        /\ Answer(i, "ok", Nothing) \/ Fail(i)
     \/ Fail(i) /\ UNCHANGED dir
  /\ UNCHANGED <<plan, host, beside>>

\* release.check: whether the directory is there, then the file of the version.
CheckDir(i) ==
  /\ jobs[i].pc = "check"
  /\ IF dir.there THEN To(i, "version") ELSE Answer(i, "ok", NoDir)
  /\ UNCHANGED <<plan, host, dir, beside>>

CheckVersion(i) ==
  /\ jobs[i].pc = "version" /\ Answer(i, "ok", [there |-> TRUE, version |-> dir.version])
  /\ UNCHANGED <<plan, host, dir, beside>>

\* container.collect: the list of one moment, then figures of each container,
\* zero when it is gone by then.
ListContainers(i) ==
  /\ jobs[i].pc = "list"
  /\ jobs' = [jobs EXCEPT ![i].pc = "figures", ![i].seen = [n \in Names |-> host[n]]]
  /\ UNCHANGED <<plan, host, dir, beside>>

CollectFigures(i) ==
  /\ jobs[i].pc = "figures"
  /\ Answer(i, "ok", [n \in DOMAIN jobs[i].seen |->
                        [c |-> jobs[i].seen[n], figures |-> host[n].by = jobs[i].seen[n].by
                                                            /\ host[n].state # "none"]])
  /\ UNCHANGED <<plan, host, dir, beside>>

Next ==
  \/ \E i \in Ids :
       \/ Start(i) \/ Fetch(i) \/ Stop(i) \/ Remove(i) \/ Run(i) \/ WaitHealthy(i)
       \/ Inspect(i) \/ Kill(i) \/ Prepare(i) \/ RunScript(i)
       \/ CheckDir(i) \/ CheckVersion(i) \/ ListContainers(i) \/ CollectFigures(i)
  \/ \E n \in DOMAIN host : ContainerMoves(n)

Spec == Init /\ [][Next]_vars

-----------------------------------------------------------------------------
(* Properties.                                                              *)

Same(i) == {j \in Ids : Deploys(j) /\ Job(j).name = Job(i).name}
Alone(i) == beside[i] \intersect Same(i) = {}

(* A container that was there is gone only if a command that removes took  *)
(* it, and that one is still at work, failed, or put its own in its place; *)
(* one that pulls first and does not get the image leaves it (RemoveOld,   *)
(* PullBeforeStop of BuildDeployScript).                                   *)
RemovedForCause ==
  \A n \in plan.there :
    /\ host[n].by # 0 \/ host[n] = Nothing =>
         \E i \in Ids : Deploys(i) /\ Job(i).name = n /\ Job(i).removeOld /\ jobs[i].pc # "waiting"
    /\ host[n] = Nothing => \E i \in Ids : Deploys(i) /\ Job(i).name = n /\ Job(i).removeOld
         /\ (AtWork(i) \/ jobs[i].answer = "error" \/ ~Alone(i))
    /\ \A i \in Ids :
         /\ Deploys(i) /\ Job(i).name = n /\ Job(i).image /\ Job(i).pullFirst
         /\ jobs[i].answer = "error" /\ Script(Job(i))[jobs[i].seen.at] \in {"login", "pull"}
         /\ \A j \in Same(i) \ {i} : jobs[j].pc = "waiting"
         => host[n].by = 0 /\ host[n] # Nothing

(* A command that answers success while no other deploys that name reports *)
(* the container that it made itself (ContainerDeploy inspects by name).   *)
SuccessIsItsOwn ==
  \A i \in Ids : Deploys(i) /\ jobs[i].answer = "ok" /\ Alone(i) =>
    jobs[i].seen \in {Nothing} \union [by : {i}, state : {"created", "running", "healthy"}]

(* release.check finds a directory only if a script was started, and a     *)
(* version only if one wrote it; the containers that container.collect     *)
(* lists were there, and one without figures was replaced meanwhile.       *)
ReportsAreOfTheHost ==
  \A i \in Ids : jobs[i].answer = "ok" =>
    /\ Job(i).kind = "check" /\ jobs[i].seen.there =>
         /\ \E j \in Ids : Runs(j) /\ jobs[j].pc \notin {"waiting", "prepare"}
         /\ jobs[i].seen.version # "" =>
              \E j \in Ids : Runs(j) /\ Job(j).op = "install" /\ Job(j).version = jobs[i].seen.version
                             /\ jobs[j].pc = "done"
    /\ Job(i).kind = "collect" =>
         \A n \in DOMAIN jobs[i].seen :
           ~jobs[i].seen[n].figures => \E j \in beside[i] : Deploys(j) /\ Job(j).name = n

HostIsAsAnswered == RemovedForCause /\ SuccessIsItsOwn /\ ReportsAreOfTheHost

=============================================================================
