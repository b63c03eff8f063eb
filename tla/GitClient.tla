----------------------------- MODULE GitClient ------------------------------
(***************************************************************************)
(* The server's own git: FetchVersions lists the tags, the branches and    *)
(* the last commits of a repository for a request.  The key of ssh goes    *)
(* into a file and its name into GIT_SSH_COMMAND, a variable of the whole  *)
(* process, so requests at the same time share it.  A request with a token *)
(* puts it into the address and leaves the variable alone.                 *)
(***************************************************************************)
EXTENDS Integers, FiniteSets, Sequences

CONSTANTS
  Requests,  \* the requests
  Plans      \* functions from Requests to [auth, branches, tags : sequence]

VARIABLES
  plan,      \* the requests
  sshKey,    \* GIT_SSH_COMMAND: the request whose key it names
  keyFiles,  \* requests whose key file is there
  work,      \* request -> [pc, started with : the key of its git command, messages, commits]
  answer,    \* request -> [status, tags, default branch, own : were all its commands with its key]
  beside     \* request -> those at work at the same time (history)

vars == <<plan, sshKey, keyFiles, work, answer, beside>>

NoKey == "none"
MaxTags == 2
AtWork(r) == work[r].pc \notin {"waiting", "done"}

TypeOK ==
  /\ sshKey \in Requests \union {NoKey} /\ keyFiles \subseteq Requests
  /\ \A r \in Requests : answer[r].status \in {"none", "ok", "error"}

Init ==
  /\ plan \in Plans
  /\ sshKey = NoKey /\ keyFiles = {}
  /\ work = [r \in Requests |-> [pc |-> "waiting", key |-> NoKey]]
  /\ answer = [r \in Requests |->
                 [status |-> "none", tags |-> <<>>, default |-> "", messages |-> FALSE,
                  commits |-> FALSE, own |-> TRUE]]
  /\ beside = [r \in Requests |-> {}]

At(r, pc) == work[r].pc = pc
To(r, pc) == work' = [work EXCEPT ![r].pc = pc]

\* setupSSHEnv: a directory, the key, the variable.
Begin(r) ==
  /\ At(r, "waiting")
  /\ IF plan[r].auth = "ssh"
     THEN \/ To(r, "lsRemote") /\ sshKey' = r /\ keyFiles' = keyFiles \union {r}
             /\ UNCHANGED answer
          \/ /\ To(r, "done") /\ UNCHANGED <<sshKey, keyFiles>>
             /\ answer' = [answer EXCEPT ![r].status = "error"]
     ELSE To(r, "lsRemote") /\ UNCHANGED <<sshKey, keyFiles, answer>>
  /\ LET others == {q \in Requests \ {r} : AtWork(q)} IN
     beside' = [q \in Requests |-> IF q = r THEN others
                                   ELSE IF q \in others THEN beside[q] \union {r} ELSE beside[q]]
  /\ UNCHANGED plan

\* A git command starts with a copy of the variables of the process, ...
GitStarts(r, cmd) ==
  /\ At(r, cmd)
  /\ work' = [work EXCEPT ![r] = [pc |-> cmd \o "Runs", key |-> sshKey]]
  /\ answer' = [answer EXCEPT ![r].own = @ /\ (plan[r].auth = "ssh" => sshKey = r)]
  /\ UNCHANGED <<plan, sshKey, keyFiles, beside>>

\* ... and gets in with a key file that is still there.
GetsIn(r) == plan[r].auth = "token" \/ work[r].key \in keyFiles

\* Tags by their numbers, and those without any last; equal ones in any order.
CompareVersions(a, b) ==
  LET Part(t, i) == IF i <= Len(t.version) THEN t.version[i] ELSE 0
      Differ == {i \in 1 .. 3 : Part(a, i) # Part(b, i)}
      First == CHOOSE i \in Differ : \A j \in Differ : i <= j
  IN IF a.version = <<>> \/ b.version = <<>> THEN Len(a.version) - Len(b.version)
     ELSE IF Differ = {} THEN 0 ELSE Part(a, First) - Part(b, First)
ParseTags(tags) ==
  {[i \in DOMAIN tags |-> tags[p[i]]] : p \in
     {q \in [DOMAIN tags -> DOMAIN tags] :
        /\ \A i, j \in DOMAIN tags : i # j => q[i] # q[j]
        /\ \A i, j \in DOMAIN tags : i < j => CompareVersions(tags[q[i]], tags[q[j]]) >= 0}}

\* ls-remote --refs leaves HEAD out: the default branch is main or master.
ParseBranches(bs) ==
  IF "main" \in bs THEN "main" ELSE IF "master" \in bs THEN "master" ELSE ""

LsRemote(r) ==
  /\ At(r, "lsRemoteRuns")
  /\ \/ /\ GetsIn(r)
        /\ \E tags \in ParseTags(plan[r].tags) :
             answer' = [answer EXCEPT
               ![r].tags = SubSeq(tags, 1, IF Len(tags) < MaxTags THEN Len(tags) ELSE MaxTags),
               ![r].default = ParseBranches(plan[r].branches)]
        /\ To(r, IF plan[r].tags # <<>> THEN "tagMessages"
                 ELSE IF ParseBranches(plan[r].branches) # "" THEN "commits" ELSE "cleanup")
     \/ answer' = [answer EXCEPT ![r].status = "error"] /\ To(r, "cleanup")
  /\ UNCHANGED <<plan, sshKey, keyFiles, beside>>

\* A clone of the default branch, or of main; what fails is left out of the answer.
FetchTagMessages(r) ==
  /\ At(r, "tagMessagesRuns")
  /\ \E got \in {FALSE, GetsIn(r) /\ ("main" \in plan[r].branches \/ answer[r].default # "")} :
       answer' = [answer EXCEPT ![r].messages = got]
  /\ To(r, IF answer[r].default # "" THEN "commits" ELSE "cleanup")
  /\ UNCHANGED <<plan, sshKey, keyFiles, beside>>

FetchRecentCommits(r) ==
  /\ At(r, "commitsRuns")
  /\ \E got \in {FALSE, GetsIn(r)} : answer' = [answer EXCEPT ![r].commits = got]
  /\ To(r, "cleanup")
  /\ UNCHANGED <<plan, sshKey, keyFiles, beside>>

\* The deferred cleanup: the variable first, then the directory.
Unset(r) ==
  /\ At(r, "cleanup") /\ To(r, "remove")
  /\ sshKey' = IF plan[r].auth = "ssh" THEN NoKey ELSE sshKey
  /\ answer' = [answer EXCEPT ![r].status = IF @ = "none" THEN "ok" ELSE @]
  /\ UNCHANGED <<plan, keyFiles, beside>>
RemoveKey(r) ==
  /\ At(r, "remove") /\ To(r, "done") /\ keyFiles' = keyFiles \ {r}
  /\ UNCHANGED <<plan, sshKey, answer, beside>>

Next ==
  \E r \in Requests :
    \/ Begin(r) \/ LsRemote(r) \/ FetchTagMessages(r) \/ FetchRecentCommits(r)
    \/ Unset(r) \/ RemoveKey(r)
    \/ \E cmd \in {"lsRemote", "tagMessages", "commits"} : GitStarts(r, cmd)

Spec == Init /\ [][Next]_vars

-----------------------------------------------------------------------------
(* Properties.                                                              *)

Weight(t) == LET P(i) == IF i <= Len(t.version) THEN t.version[i] ELSE 0
             IN IF t.version = <<>> THEN -1 ELSE 10000 * P(1) + 100 * P(2) + P(3)

(* The variable names a file that is there, or nothing; no key outlives    *)
(* its request; a request whose git ran with another's key, or with none,  *)
(* ran beside another with a key; and the tags that are answered are not   *)
(* older than those left out (setupSSHEnv, parseTags).                     *)
KeysAreKept ==
  /\ sshKey = NoKey \/ sshKey \in keyFiles
  /\ \A r \in keyFiles : AtWork(r)
  /\ \A r \in Requests :
       /\ answer[r].own \/ \E q \in beside[r] : plan[q].auth = "ssh"
       /\ answer[r].tags # <<>> =>
            \A t \in {plan[r].tags[i] : i \in DOMAIN plan[r].tags} :
              \/ \E i \in DOMAIN answer[r].tags : answer[r].tags[i] = t
              \/ \A i \in DOMAIN answer[r].tags : Weight(answer[r].tags[i]) >= Weight(t)

=============================================================================
