------------------------------ MODULE GitPull -------------------------------
(***************************************************************************)
(* gitpull.deploy at a client: a script before, a backup, a cleaning, then *)
(* git clone or git fetch, checkout and pull, and a script after, all in   *)
(* one directory that other commands may work in at the same time, while   *)
(* commits are pushed to the repository.  git.versions reads the directory.*)
(***************************************************************************)
EXTENDS Integers, FiniteSets, Sequences

CONSTANTS
  Jobs,   \* sequences of [kind |-> "deploy", commit, tag, branch, pre, backup, clean, post]
          \* or [kind |-> "versions"]
  Dirs    \* directories at first

VARIABLES
  plan,    \* the commands and the directory at first
  tip,     \* the last commit of the branch main of the repository
  dir,     \* the work directory
  backups, \* copies of it
  jobs,    \* command -> [pc, answer, commit, ref, note : what was ignored]
  beside   \* command -> those at work at the same time (history)

vars == <<plan, tip, dir, backups, jobs, beside>>

\* A tag is on the first commit.  A directory: is it there, is .git in it, are
\* other files; the commit and the branch of HEAD, the local branch, origin/main.
Commits == {"c0", "c1", "c2"}
Tagged == "c0"
NoDir == [there |-> FALSE, git |-> FALSE, files |-> FALSE, head |-> "", on |-> "",
          local |-> "", origin |-> ""]
Ids == DOMAIN plan.jobs
Job(i) == plan.jobs[i]
AtWork(i) == jobs[i].pc \notin {"waiting", "done"}

TypeOK ==
  /\ tip \in Commits /\ dir.head \in Commits \union {""} /\ dir.local \in Commits \union {""}
  /\ dir.git => dir.there
  /\ \A i \in Ids : jobs[i].answer \in {"none", "ok", "error"}

At(i, pc) == jobs[i].pc = pc
To(i, pc) == jobs' = [jobs EXCEPT ![i].pc = pc]
Fail(i) == jobs' = [jobs EXCEPT ![i].pc = "done", ![i].answer = "error"]
Note(i, n, pc) == jobs' = [jobs EXCEPT ![i].pc = pc, ![i].note = @ \union {n}]
Keep == UNCHANGED <<plan, tip, beside>>
Quiet == UNCHANGED backups /\ Keep

Init ==
  /\ plan \in [jobs : Jobs, dir : Dirs]
  /\ tip = "c1" /\ dir = plan.dir /\ backups = {}
  /\ jobs = [i \in Ids |-> [pc |-> "waiting", answer |-> "none", commit |-> "", ref |-> "",
                            note |-> {}]]
  /\ beside = [i \in Ids |-> {}]

Start(i) ==
  /\ At(i, "waiting")
  /\ To(i, IF Job(i).kind = "deploy" THEN "pre" ELSE "current")
  /\ LET others == {j \in Ids \ {i} : AtWork(j)} IN
     beside' = [j \in Ids |-> IF j = i THEN others
                              ELSE IF j \in others THEN beside[j] \union {i} ELSE beside[j]]
  /\ UNCHANGED <<plan, tip, dir, backups>>

Push == /\ tip = "c1" /\ (\E i \in Ids : AtWork(i)) /\ tip' = "c2"
        /\ UNCHANGED <<plan, dir, backups, jobs, beside>>

\* executeScript makes the directory tmp in the work directory, and leaves it.
PreScript(i) ==
  /\ At(i, "pre")
  /\ IF Job(i).pre
     THEN /\ dir' = [dir EXCEPT !.there = TRUE, !.files = TRUE]
          /\ To(i, "backup") \/ Fail(i)
     ELSE To(i, "backup") /\ UNCHANGED dir
  /\ Quiet

\* cp -a of what is there; a copy of the same second goes into the first one.
BackupDirectory(i) ==
  /\ At(i, "backup") /\ UNCHANGED dir
  /\ IF Job(i).backup /\ dir.there
     THEN \/ To(i, "clean") /\ backups' = backups \union {dir}
          \/ Fail(i) /\ UNCHANGED backups
     ELSE To(i, "clean") /\ UNCHANGED backups
  /\ Keep

Clean(i) ==
  /\ At(i, "clean")
  /\ IF Job(i).clean /\ dir.there
     THEN \/ To(i, "git") /\ dir' = NoDir
          \/ Fail(i) /\ dir' \in {dir, [NoDir EXCEPT !.there = TRUE, !.files = TRUE]}
     ELSE To(i, "git") /\ UNCHANGED dir
  /\ Quiet

\* Without .git it is a clone, and git refuses a directory that is not empty.
CloneStarts(i) ==
  /\ At(i, "git") /\ ~dir.git
  /\ IF dir.files THEN Fail(i) /\ UNCHANGED dir
     ELSE To(i, "clone") /\ dir' = [NoDir EXCEPT !.there = TRUE, !.git = TRUE]
  /\ Quiet

\* clone -b takes the branch, or the tag; the commit is not looked at.  When git
\* fails it takes away what it made; when its time is up it is killed.
Cloned(i) ==
  IF Job(i).branch = "" /\ Job(i).tag # ""
  THEN [dir EXCEPT !.files = TRUE, !.head = Tagged, !.on = "HEAD", !.origin = tip]
  ELSE [dir EXCEPT !.files = TRUE, !.head = tip, !.on = "main", !.local = tip, !.origin = tip]
CloneEnds(i) ==
  /\ At(i, "clone")
  /\ \/ dir.git /\ dir' = Cloned(i) /\ Note(i, "cloned", "read")
     \/ Fail(i) /\ dir' \in {NoDir, dir}
  /\ Quiet

Fetch(i) ==
  /\ At(i, "git") /\ dir.git
  /\ \/ To(i, "checkout") /\ dir' = [dir EXCEPT !.origin = tip]
     \/ Fail(i) /\ UNCHANGED dir
  /\ Quiet

\* The commit, or the tag, or the branch, or origin/main.  A branch that cannot
\* be checked out is tried again with the prefix origin/.
Fixed(i) == Job(i).commit # "" \/ Job(i).tag # ""
Detached(c) == [dir EXCEPT !.files = TRUE, !.head = c, !.on = "HEAD"]
Ref(i) ==
  CASE Job(i).commit # "" -> Detached(Job(i).commit)
    [] Job(i).commit = "" /\ Job(i).tag # "" -> Detached(Tagged)
    [] ~Fixed(i) /\ Job(i).branch # "" ->
         LET c == IF dir.local = "" THEN dir.origin ELSE dir.local
         IN [dir EXCEPT !.files = TRUE, !.head = c, !.on = "main", !.local = c]
    [] OTHER -> Detached(dir.origin)
Checkout(i) ==
  /\ At(i, "checkout")
  /\ \/ dir.git /\ dir' = Ref(i) /\ To(i, IF Fixed(i) THEN "read" ELSE "pull")
     \/ /\ dir.git /\ Job(i).branch # "" /\ dir' = Detached(dir.origin)
        /\ Note(i, "retried", IF Fixed(i) THEN "read" ELSE "pull")
     \/ Fail(i) /\ UNCHANGED dir
  /\ Quiet

\* pull --ff-only, whose failure is ignored.
PullBranch(i) ==
  /\ At(i, "pull")
  /\ \/ /\ dir.git /\ dir.on = "main" /\ To(i, "read")
        /\ dir' = [dir EXCEPT !.head = tip, !.local = tip, !.origin = tip]
     \/ Note(i, "unpulled", "read") /\ UNCHANGED dir
  /\ Quiet

\* The commit, then the branch, for the answer; then the script after.
ReadCommit(i) ==
  /\ At(i, "read")
  /\ jobs' = [jobs EXCEPT ![i].pc = "branch", ![i].commit = dir.head]
  /\ UNCHANGED dir /\ Quiet
ReadBranch(i) ==
  /\ At(i, "branch")
  /\ jobs' = [jobs EXCEPT ![i].pc = IF Job(i).kind = "deploy" THEN "post" ELSE "done",
                          ![i].answer = IF Job(i).kind = "deploy" THEN @ ELSE "ok",
                          ![i].ref = dir.on]
  /\ UNCHANGED dir /\ Quiet
PostScript(i) ==
  /\ At(i, "post")
  /\ \/ jobs' = [jobs EXCEPT ![i].pc = "done", ![i].answer = "ok"]
     \/ Job(i).post /\ Fail(i)
  /\ UNCHANGED dir /\ Quiet

\* git.versions: an error without a clone.
GitVersions(i) ==
  /\ At(i, "current")
  /\ IF dir.git THEN To(i, "read") ELSE Fail(i)
  /\ UNCHANGED dir /\ Quiet

Next ==
  \/ Push
  \/ \E i \in Ids :
       \/ Start(i) \/ PreScript(i) \/ BackupDirectory(i) \/ Clean(i) \/ CloneStarts(i)
       \/ CloneEnds(i) \/ Fetch(i) \/ Checkout(i) \/ PullBranch(i) \/ ReadCommit(i)
       \/ ReadBranch(i) \/ PostScript(i) \/ GitVersions(i)

Spec == Init /\ [][Next]_vars

-----------------------------------------------------------------------------
(* Properties.                                                              *)

Alone(i) == beside[i] = {}
Wanted(i) ==
  CASE Job(i).commit # "" -> {Job(i).commit}
    [] Job(i).commit = "" /\ Job(i).tag # "" -> {Tagged}
    [] OTHER -> {"c1", tip}

(* A deployment that no other command overlapped and that succeeded has    *)
(* the commit, the tag or a recent commit of the branch it was asked for;  *)
(* only a clone does not look at the commit, nor at the tag beside a       *)
(* branch, and only a pull or a checkout that failed leaves an older one   *)
(* (executeGitOperation).                                                  *)
DeployedAsAsked ==
  \A i \in Ids : Job(i).kind = "deploy" /\ jobs[i].answer = "ok" /\ Alone(i) =>
    \/ jobs[i].commit \in Wanted(i)
    \/ "cloned" \in jobs[i].note /\ (Job(i).commit # "" \/ Job(i).branch # "")
    \/ jobs[i].note \intersect {"unpulled", "retried"} # {}

(* What was in the directory at first is there or in a backup as long as   *)
(* every command that cleans makes one, however commands overlap and       *)
(* wherever one of them fails (BackupBefore, CleanBefore).                 *)
OldTreeIsKept ==
  (\A i \in Ids : Job(i).kind = "deploy" => Job(i).backup \/ ~Job(i).clean) /\ plan.dir.git =>
    \E b \in backups \union {dir} : b.git /\ b.head # ""

(* The commit and the branch that git.versions answers were those of one   *)
(* moment unless a deployment overlapped; and a first deployment with a    *)
(* script before it succeeds only if it cleans (GitVersions, PreScript).   *)
AnswersAreOfOneMoment ==
  \A i \in Ids : jobs[i].answer = "ok" /\ Alone(i) =>
    /\ jobs[i].ref = "main" => jobs[i].commit # ""
    /\ Job(i).kind = "deploy" /\ Job(i).pre /\ ~Job(i).clean => "cloned" \notin jobs[i].note

GitPullIsAsAsked == DeployedAsAsked /\ OldTreeIsKept /\ AnswersAreOfOneMoment

=============================================================================
