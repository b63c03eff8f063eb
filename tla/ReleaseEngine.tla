--------------------------- MODULE ReleaseEngine ---------------------------
(***************************************************************************)
(* pkg/release/engine and the release handlers of pkg/release/api: one     *)
(* release, the requests that act on it, the goroutine of every execution, *)
(* the goroutines of its targets and the commands they send to the         *)
(* clients.  Every writer saves the whole row from a copy of its own;      *)
(* the target goroutines of one execution share that execution's copy.     *)
(***************************************************************************)
EXTENDS Integers, SequencesExt

CONSTANTS
  TargetIDs,   \* the targets of the release, in the order of the query
  Plans,       \* project, environment and strategy to choose from
  MaxRequests  \* HTTP requests in one behaviour

Targets == ToSet(TargetIDs)
Requests == 1 .. MaxRequests   \* in the order of their arrival

Statuses == {"pending", "scheduled", "approving", "running", "paused",
             "success", "failed", "cancelled"}
ResultStatuses == {"pending", "running", "success", "failed"}
Approvals == {"none", "pending", "approved", "rejected"}
Kinds == {"script", "local", "container", "kubernetes", "gitpull"}
Operations == {"deploy", "install", "update", "rollback", "uninstall"}

\* An ID is in the list once.
ASSUME EngineAssumption ==
  /\ TargetIDs \in Seq(Targets)
  /\ \A i, j \in 1 .. Len(TargetIDs) : TargetIDs[i] = TargetIDs[j] => i = j
  /\ MaxRequests \in Nat
  /\ Plans \subseteq [type : {"rolling", "canary", "blue-green"}, size : Int,
                      canaries : SUBSET Targets, percent : Int, auto : BOOLEAN,
                      approval : BOOLEAN, kind : Kinds, op : Operations,
                      workDir : BOOLEAN,            \* CheckInstallation finds one
                      scripts : SUBSET Operations,  \* the project has them
                      before : {"none", "old", "new"},
                      requests : Requests, crashes : BOOLEAN,
                      deletable : SUBSET Targets]

VARIABLES
  plan,      \* the project, the environment and the request, never changed
  present,   \* targets that are still in the database
  row,       \* the release in the database
  approval,  \* the status of its approval record
  pc,        \* where a request is, and then the execution it starts
  copy,      \* its copy of the row
  auto,      \* the request starts the release it creates
  todo,      \* targets an execution has still to do, ...
  rest,      \* ... and those that come after the canaries
  judged,    \* it has passed its canaries
  work,      \* the goroutine of a target
  cmd,       \* the command an execution has sent for a target
  node,      \* what is installed on a target
  approved,  \* somebody has approved the release (history)
  crashed    \* the server has stopped and been started again

execution == <<todo, rest, judged, work>>
vars == <<plan, present, row, approval, pc, copy, auto, execution, cmd, node, approved,
          crashed>>

Releases == [status : Statuses, results : [Targets -> ResultStatuses]]
NoRelease == [status |-> "none"]
TargetWork == [pc : {"none", "mark", "marked", "check", "send", "poll", "judged"},
               op : Operations, snap : Releases \union {NoRelease}]
NoWork == [pc |-> "none", op |-> "deploy", snap |-> NoRelease]

Active == {r \in Requests : pc[r] # "idle"}
Works(r) == {t \in Targets : work[r][t].pc # "none"}

TypeOK ==
  /\ plan \in Plans
  /\ present \subseteq Targets
  /\ row \in Releases \union {NoRelease}
  /\ approval \in Approvals
  /\ pc \in [Requests -> {"idle", "approving", "record", "cancel", "start", "promote",
                          "permit", "refuse", "load", "batch", "done"}]
  /\ copy \in [Requests -> Releases \union {NoRelease}]
  /\ auto \in [Requests -> BOOLEAN]
  /\ todo \in [Requests -> SUBSET Targets] /\ rest \in [Requests -> SUBSET Targets]
  /\ judged \in [Requests -> BOOLEAN]
  /\ work \in [Requests -> [Targets -> TargetWork]]
  /\ cmd \in [Requests -> [Targets -> {"none", "sent", "ok", "error"}]]
  /\ node \in [Targets -> {"none", "old", "new"}]
  /\ approved \in BOOLEAN /\ crashed \in BOOLEAN

Init ==
  /\ plan \in Plans
  /\ present = Targets
  /\ row = NoRelease
  /\ approval = "none"
  /\ pc = [r \in Requests |-> "idle"]
  /\ copy = [r \in Requests |-> NoRelease]
  /\ auto = [r \in Requests |-> FALSE]
  /\ todo = [r \in Requests |-> {}]
  /\ rest = [r \in Requests |-> {}]
  /\ judged = [r \in Requests |-> FALSE]
  /\ work = [r \in Requests |-> [t \in Targets |-> NoWork]]
  /\ cmd = [r \in Requests |-> [t \in Targets |-> "none"]]
  /\ node = [t \in Targets |-> plan.before]
  /\ approved = FALSE
  /\ crashed = FALSE

-----------------------------------------------------------------------------
(* CreateRelease: one write, or three when the environment wants approval.  *)

NextRequest(r) == r <= plan.requests /\ Active = 1 .. r - 1

\* A request goes on at the position p with the copy c, or ends.
At(r, p, c) == pc' = [pc EXCEPT ![r] = p] /\ copy' = [copy EXCEPT ![r] = c]
Done(r) == At(r, "done", NoRelease)
Arrive(r, p, c) == NextRequest(r) /\ At(r, p, c)

\* Where a creation goes on: the three service handlers start what they made.
Created(r) == IF auto[r] THEN At(r, "permit", NoRelease) ELSE Done(r)

CreateRelease(r) == \E starts \in BOOLEAN, status \in {"pending", "scheduled"} :
  LET c == [status |-> status, results |-> [t \in Targets |-> "pending"]]
  IN /\ row = NoRelease
     /\ row' = c
     /\ auto' = [auto EXCEPT ![r] = starts]
     /\ Arrive(r, IF plan.approval THEN "approving" ELSE IF starts THEN "permit" ELSE "done",
               IF plan.approval THEN c ELSE NoRelease)
     /\ UNCHANGED <<plan, present, approval, execution, cmd, node, approved, crashed>>

\* The second write puts the whole copy back, whatever happened to the row.
WithStatus(c, status) == [c EXCEPT !.status = status]

SaveApproving(r) ==
  LET c == WithStatus(copy[r], "approving")
  IN /\ pc[r] = "approving"
     /\ row' = c
     /\ At(r, "record", c)
     /\ UNCHANGED <<plan, present, approval, auto, execution, cmd, node, approved, crashed>>

\* The insert of the approval record may fail: the release stays as it is.
CreateApproval(r) ==
  /\ pc[r] = "record"
  /\ \/ approval' = "pending" /\ Created(r)
     \/ approval' = approval /\ Done(r)
  /\ UNCHANGED <<plan, present, row, auto, execution, cmd, node, approved, crashed>>

-----------------------------------------------------------------------------
(* Starting, approving, rejecting, cancelling and promoting it.             *)

\* Slip: a cancelled release may be started again.
RestartsFrom == {"pending", "approving", "cancelled"}

StartsFrom == {"pending", "approving"}

\* Slip: the approval record need only be there.
MayStartIfAsked == /\ row # NoRelease
                   /\ row.status \in StartsFrom
                   /\ row.status = "approving" => approval # "none"

MayStart == /\ row # NoRelease
            /\ row.status \in StartsFrom
            /\ row.status = "approving" => approval = "approved"

\* StartRelease reads the row and its approval, and refuses ...
StartRelease(r) ==
  /\ \/ MayStart /\ Arrive(r, "start", row)
     \/ pc[r] = "permit" /\ MayStart /\ At(r, "start", row)
     \/ pc[r] = "permit" /\ ~MayStart /\ Done(r)
  /\ UNCHANGED <<plan, present, row, approval, auto, execution, cmd, node, approved, crashed>>

\* ... or saves its copy as running and leaves the rest to a goroutine.
LaunchOf(r, from) ==
  LET c == WithStatus(copy[r], "running")
  IN /\ pc[r] = from
     /\ row' = c
     /\ At(r, "load", c)
     /\ UNCHANGED <<plan, present, approval, auto, execution, cmd, node, approved, crashed>>

Launch(r) == LaunchOf(r, "start")

\* ApproveRelease: whatever the approval record says now.
ApproveRelease(r) ==
  /\ approval # "none"
  /\ approval' = "approved"
  /\ approved' = TRUE
  /\ Arrive(r, "permit", NoRelease)
  /\ UNCHANGED <<plan, present, row, auto, execution, cmd, node, crashed>>

\* RejectRelease: the record first, then the status column, whatever it holds.
RejectRelease(r) ==
  /\ approval # "none"
  /\ approval' = "rejected"
  /\ Arrive(r, "refuse", NoRelease)
  /\ UNCHANGED <<plan, present, row, auto, execution, cmd, node, approved, crashed>>

RejectedRelease(r) ==
  /\ pc[r] = "refuse"
  /\ row' = WithStatus(row, "cancelled")
  /\ Done(r)
  /\ UNCHANGED <<plan, present, approval, auto, execution, cmd, node, approved, crashed>>

\* CancelRelease changes the row only; PromoteCanary executes it once more.
CancelRelease(r) ==
  /\ row # NoRelease /\ row.status \in {"running", "paused"}
  /\ Arrive(r, "cancel", row)
  /\ UNCHANGED <<plan, present, row, approval, auto, execution, cmd, node, approved, crashed>>

\* Slip: another spelling of the status is saved.
CancelledMisspelt(r) ==
  /\ pc[r] = "cancel"
  /\ row' = WithStatus(copy[r], "canceled")
  /\ Done(r)
  /\ UNCHANGED <<plan, present, approval, auto, execution, cmd, node, approved, crashed>>

CancelledRelease(r) ==
  /\ pc[r] = "cancel"
  /\ row' = WithStatus(copy[r], "cancelled")
  /\ Done(r)
  /\ UNCHANGED <<plan, present, approval, auto, execution, cmd, node, approved, crashed>>

PromoteCanary(r) ==
  /\ row # NoRelease /\ row.status = "paused"
  /\ Arrive(r, "promote", row)
  /\ UNCHANGED <<plan, present, row, approval, auto, execution, cmd, node, approved, crashed>>

Promoted(r) == LaunchOf(r, "promote")

DeleteTarget(t) ==
  /\ t \in present \intersect plan.deletable
  /\ present' = present \ {t}
  /\ UNCHANGED <<plan, row, approval, pc, copy, auto, execution, cmd, node, approved, crashed>>

-----------------------------------------------------------------------------
(* executeRelease: which targets, in which batches.                         *)

\* The first n of a set of targets, in the order of the list.
Precedes(u, t) ==
  \E i, j \in 1 .. Len(TargetIDs) : i < j /\ TargetIDs[i] = u /\ TargetIDs[j] = t
First(S, n) == {t \in S : Cardinality({u \in S : Precedes(u, t)}) < n}

\* How many targets are canaries when the strategy names none.
CanaryCount(S) ==
  LET share == (Cardinality(S) * plan.percent) \div 100
  IN IF plan.percent > 0 /\ share >= 1 THEN share ELSE 1

Canaries(S) ==
  IF plan.canaries # {} THEN S \intersect plan.canaries ELSE First(S, CanaryCount(S))

\* Who is next: a batch in parallel, one canary or other, or everyone at once.
Batch(S) ==
  CASE plan.type = "rolling"    -> First(S, IF plan.size <= 0 THEN 1 ELSE plan.size)
    [] plan.type = "canary"     -> First(S, 1)
    [] plan.type = "blue-green" -> S

\* The slice bounds of executeCanary: beyond them the goroutine panics and
\* takes the server with it.
SliceFits(S) ==
  plan.type = "canary" /\ plan.canaries = {} => CanaryCount(S) <= Cardinality(S)

\* Every request and goroutine is gone; nothing looks for them after a restart.
Restart ==
  /\ crashed' = TRUE
  /\ pc' = [r \in Requests |-> IF pc[r] = "idle" THEN "idle" ELSE "done"]
  /\ copy' = [r \in Requests |-> NoRelease]
  /\ auto' = [r \in Requests |-> FALSE]
  /\ todo' = [r \in Requests |-> {}]
  /\ rest' = [r \in Requests |-> {}]
  /\ judged' = [r \in Requests |-> FALSE]
  /\ work' = [r \in Requests |-> [t \in Targets |-> NoWork]]
  /\ UNCHANGED <<plan, present, row, approval, cmd, node, approved>>

\* A crash of the server, once in a behaviour.
Crash == plan.crashes /\ ~crashed /\ Active # {} /\ Restart

\* The execution takes the targets as the database has them now.
Load(r) ==
  /\ pc[r] = "load"
  /\ IF SliceFits(present)
     THEN /\ LET first == IF plan.type = "canary" THEN Canaries(present) ELSE present
             IN /\ todo' = [todo EXCEPT ![r] = first]
                /\ rest' = [rest EXCEPT ![r] = present \ first]
          /\ pc' = [pc EXCEPT ![r] = "batch"]
          /\ UNCHANGED <<plan, present, row, approval, copy, auto, judged, work, cmd, node,
                         approved, crashed>>
     ELSE Restart

Between(r) == pc[r] = "batch" /\ Works(r) = {}

\* The next batch: one goroutine for each of its targets.
StartBatch(r) ==
  /\ Between(r) /\ todo[r] # {}
  /\ LET batch == Batch(todo[r])
     IN /\ todo' = [todo EXCEPT ![r] = @ \ batch]
        /\ work' = [work EXCEPT ![r] =
             [t \in Targets |-> IF t \in batch
                             THEN [pc |-> "mark", op |-> plan.op, snap |-> NoRelease]
                             ELSE NoWork]]
  /\ UNCHANGED <<plan, present, row, approval, pc, copy, auto, rest, judged, cmd, node,
                 approved, crashed>>

\* Slip: one target that did not fail is enough.
HasFailedAll(r) == \A t \in Targets : copy[r].results[t] = "failed"

HasFailed(r) == \E t \in Targets : copy[r].results[t] = "failed"

\* failRelease, completeRelease, and the pause of executeCanary.
Finish(r, status) ==
  /\ row' = WithStatus(copy[r], status)
  /\ Done(r)
  /\ rest' = [rest EXCEPT ![r] = {}]
  /\ judged' = [judged EXCEPT ![r] = FALSE]
  /\ UNCHANGED <<plan, present, approval, auto, todo, work, cmd, node, approved, crashed>>

\* RollbackConfig is nil in every release there is: no failure stops a rolling one.
FinishRolling(r) ==
  /\ Between(r) /\ todo[r] = {} /\ plan.type = "rolling"
  /\ Finish(r, "success")

FinishBlueGreen(r) ==
  /\ Between(r) /\ todo[r] = {} /\ plan.type = "blue-green"
  /\ Finish(r, IF HasFailed(r) THEN "failed" ELSE "success")

\* The canaries are done: fail, wait for a promotion, or go on with the others.
\* What these do is not looked at.
GoOn(r) ==
  /\ todo' = [todo EXCEPT ![r] = rest[r]]
  /\ judged' = [judged EXCEPT ![r] = TRUE]
  /\ UNCHANGED <<plan, present, row, approval, pc, copy, auto, rest, work, cmd, node,
                 approved, crashed>>

JudgeCanaries(r) ==
  /\ Between(r) /\ todo[r] = {} /\ plan.type = "canary" /\ ~judged[r]
  /\ \/ HasFailed(r) /\ Finish(r, "failed")
     \/ ~HasFailed(r) /\ ~plan.auto /\ Finish(r, "paused")
     \/ ~HasFailed(r) /\ plan.auto /\ GoOn(r)

FinishCanary(r) ==
  /\ Between(r) /\ todo[r] = {} /\ plan.type = "canary" /\ judged[r]
  /\ Finish(r, "success")

-----------------------------------------------------------------------------
(* executeTarget: one goroutine.  It changes the shared copy and saves a    *)
(* snapshot of it, which another goroutine's save may overtake.             *)

Work(r, t, p) == pc[r] = "batch" /\ t \in Targets /\ work[r][t].pc = p

WithResult(c, t, result) ==
  [c EXCEPT !.results = [u \in Targets |-> IF u = t THEN result ELSE c.results[u]]]

WorkAt(r, t, p, op, snap) ==
  work' = [work EXCEPT ![r][t] = [pc |-> p, op |-> op, snap |-> snap]]

Judge(r, t, result, p) ==
  LET c == WithResult(copy[r], t, result)
  IN /\ copy' = [copy EXCEPT ![r] = c]
     /\ WorkAt(r, t, p, work[r][t].op, c)
     /\ UNCHANGED <<pc, auto, todo, rest, judged>>

Goto(r, t, p, op) ==
  WorkAt(r, t, p, op, NoRelease) /\ UNCHANGED <<pc, copy, auto, todo, rest, judged>>

MarkRunning(r, t) ==
  /\ Work(r, t, "mark")
  /\ Judge(r, t, "running", "marked")
  /\ UNCHANGED <<plan, present, row, approval, cmd, node, approved, crashed>>

SaveRunning(r, t) ==
  /\ Work(r, t, "marked")
  /\ row' = work[r][t].snap
  /\ Goto(r, t, IF plan.kind \in {"script", "local"} /\ plan.op = "deploy" THEN "check"
                ELSE "send", work[r][t].op)
  /\ UNCHANGED <<plan, present, approval, cmd, node, approved, crashed>>

SaveJudged(r, t) ==
  /\ Work(r, t, "judged")
  /\ row' = work[r][t].snap
  /\ Goto(r, t, "none", "deploy")
  /\ UNCHANGED <<plan, present, approval, cmd, node, approved, crashed>>

\* CheckInstallation: the work directory tells whether there is something to
\* update, and a failed installation or anything else may have made it.
Answers(t) == IF plan.workDir THEN {"update"} \union (IF node[t] = "none" THEN {"install"} ELSE {})
              ELSE {"install"}

Determine(r, t) ==
  /\ Work(r, t, "check")
  /\ \/ \E op \in Answers(t) :
           Goto(r, t, "send", op)
     \/ plan.workDir /\ Judge(r, t, "failed", "judged")
  /\ UNCHANGED <<plan, present, row, approval, cmd, node, approved, crashed>>

\* A target of no client runs its scripts on the server itself.
IsLocal == plan.kind = "local"

\* DetermineOperation of RemoteExecutor asks the client, which may not answer;
\* that of ScriptExecutor the server's own disk.
DetermineOperation(r, t) == plan.kind = "script" /\ Determine(r, t)
DetermineLocally(r, t) == IsLocal /\ Determine(r, t)

\* getScript: deploy is update's script.
HasScript(op) == (IF op = "deploy" THEN "update" ELSE op) \in plan.scripts

\* The other kinds look the target up again and resolve the variables of their
\* configuration before anything is sent; a database without the target, like
\* anything that does not resolve, is an error (the refusal in SendWhen).
ContainerReady(t) == t \in present
KubernetesReady(t) == t \in present
GitPullReady(t) == t \in present

\* What a successful operation leaves on its target.
Effect(op) == CASE op \in {"deploy", "install", "update"} -> "new"
                [] op = "rollback" -> "old"
                [] op = "uninstall" -> "none"

\* The client's handlers of containers and of git deploy whatever is asked of them.
Performed == IF plan.kind \in {"container", "gitpull"} THEN "deploy" ELSE plan.op

\* executeScript ends within its time, or it fails somewhere on its way.
ScriptEnds(r, t) ==
  /\ HasScript(work[r][t].op)
  /\ node' = [node EXCEPT ![t] = Effect(work[r][t].op)]
  /\ Judge(r, t, "success", "judged")
ScriptFails(r, t) == UNCHANGED node /\ Judge(r, t, "failed", "judged")

\* ScriptExecutor.Execute, on the server: one script at a time (its mutex).
ExecuteLocally(r, t) ==
  /\ Work(r, t, "send") /\ IsLocal
  /\ ScriptEnds(r, t) \/ ScriptFails(r, t)
  /\ UNCHANGED <<plan, present, row, approval, cmd, approved, crashed>>

\* RemoteExecutor: a command goes to the client, or cannot be built or sent.
SendWhen(r, t, ready) ==
  /\ Work(r, t, "send")
  /\ \/ /\ ready
        /\ cmd' = [cmd EXCEPT ![r][t] = "sent"]
        /\ Goto(r, t, "poll", work[r][t].op)
     \/ UNCHANGED cmd /\ Judge(r, t, "failed", "judged")
  /\ UNCHANGED <<plan, present, row, approval, node, approved, crashed>>

Execute(r, t) ==
  plan.kind = "script" /\ Work(r, t, "send") /\ SendWhen(r, t, HasScript(work[r][t].op))
ExecuteContainerDeploy(r, t) == plan.kind = "container" /\ SendWhen(r, t, ContainerReady(t))
ExecuteK8sDeploy(r, t) == plan.kind = "kubernetes" /\ SendWhen(r, t, KubernetesReady(t))
ExecuteGitPullDeploy(r, t) == plan.kind = "gitpull" /\ SendWhen(r, t, GitPullReady(t))

\* The client's handler, whoever still waits for it; the command manager
\* keeps the answer.  No client has a handler for Kubernetes.
ClientExecutes(r, t) ==
  /\ cmd[r][t] = "sent"
  /\ \/ /\ plan.kind # "kubernetes"
        /\ cmd' = [cmd EXCEPT ![r][t] = "ok"]
        /\ node' = [node EXCEPT ![t] = Effect(Performed)]
     \/ cmd' = [cmd EXCEPT ![r][t] = "error"] /\ UNCHANGED node
  /\ UNCHANGED <<plan, present, row, approval, pc, copy, auto, execution, approved, crashed>>

\* waitForCompletion: the answer is there, ...
Poll(r, t) ==
  /\ Work(r, t, "poll") /\ cmd[r][t] \in {"ok", "error"}
  /\ Judge(r, t, IF cmd[r][t] = "ok" THEN "success" ELSE "failed", "judged")
  /\ cmd' = [cmd EXCEPT ![r][t] = "none"]
  /\ UNCHANGED <<plan, present, row, approval, node, approved, crashed>>

\* Slip: it waits for as long as it takes.
DeadlineNever(r, t) == FALSE /\ Work(r, t, "poll") /\ UNCHANGED vars

\* Slip: a command that was accepted counts as deployed when the wait is over.
DeadlineAsSuccess(r, t) ==
  /\ Work(r, t, "poll") /\ cmd[r][t] = "sent"
  /\ Judge(r, t, "success", "judged")
  /\ UNCHANGED <<plan, present, row, approval, cmd, node, approved, crashed>>

\* ... or the wait is over and the command is left to itself.
Deadline(r, t) ==
  /\ Work(r, t, "poll") /\ cmd[r][t] = "sent"
  /\ Judge(r, t, "failed", "judged")
  /\ UNCHANGED <<plan, present, row, approval, cmd, node, approved, crashed>>

-----------------------------------------------------------------------------
Request(r) ==
  \/ CreateRelease(r)
  \/ StartRelease(r)
  \/ ApproveRelease(r)
  \/ RejectRelease(r)
  \/ CancelRelease(r)
  \/ PromoteCanary(r)

Handler(r) ==
  \/ SaveApproving(r)
  \/ CreateApproval(r)
  \/ Launch(r)
  \/ RejectedRelease(r)
  \/ CancelledRelease(r)
  \/ Promoted(r)

Execution(r) ==
  \/ Load(r)
  \/ StartBatch(r)
  \/ FinishRolling(r)
  \/ FinishBlueGreen(r)
  \/ JudgeCanaries(r)
  \/ FinishCanary(r)

TargetStep(r, t) ==
  \/ MarkRunning(r, t)
  \/ SaveRunning(r, t)
  \/ DetermineOperation(r, t)
  \/ DetermineLocally(r, t)
  \/ ExecuteLocally(r, t)
  \/ Execute(r, t)
  \/ ExecuteContainerDeploy(r, t)
  \/ ExecuteK8sDeploy(r, t)
  \/ ExecuteGitPullDeploy(r, t)
  \/ Poll(r, t)
  \/ Deadline(r, t)
  \/ SaveJudged(r, t)

Next ==
  \/ \E r \in Requests :
       Request(r) \/ Handler(r) \/ Execution(r)
       \/ \E t \in Targets : TargetStep(r, t) \/ ClientExecutes(r, t)
  \/ \E t \in Targets : DeleteTarget(t)
  \/ Crash

Spec == Init /\ [][Next]_vars

\* The handlers and the goroutines go on; no client need ever answer.
FairSpec ==
  Spec /\ \A r \in Requests :
            /\ WF_vars(Handler(r)) /\ WF_vars(Execution(r))
            /\ WF_vars(pc[r] = "permit" /\ StartRelease(r))
            /\ \A t \in Targets : WF_vars(TargetStep(r, t))

-----------------------------------------------------------------------------
(* Properties                                                               *)

\* A canary: one of those named, or the first of the list.
IsCanary(t) == IF plan.canaries # {} THEN t \in plan.canaries ELSE t = Head(TargetIDs)

\* No goroutine touches a target that is not a canary before every canary
\* still in the database has been deployed, whatever requests and executions
\* of the same release run at the same time (executeCanary).
CanariesFirst ==
  \A r \in Requests : \A t \in Works(r) :
    judged[r] => \A c \in present : IsCanary(c) => node[c] = Effect(Performed)

\* A target whose result in the row is success has what the operation leaves,
\* although the answers of commands, their deadlines, the saves of the shared
\* copy and a second execution interleave (executeTarget, waitForCompletion).
SuccessIsDeployed ==
  row # NoRelease =>
    \A t \in Targets : row.results[t] = "success" => node[t] = Effect(Performed)

\* A blue-green release that succeeded has succeeded on every target that is
\* still in the database (executeBlueGreen; executeRolling promises less).
BlueGreenIsWhole ==
  plan.type = "blue-green" /\ row # NoRelease /\ row.status = "success"
    => \A t \in present : row.results[t] = "success"

\* An execution of a release that wants approval is launched without one only
\* by a start that read the row before CreateRelease had saved it again.
UnapprovedOnlyEarly ==
  [][\A r \in Requests :
       Launch(r) /\ plan.approval => approved \/ copy[r].status = "pending"]_vars

\* A cancelled release that no request or execution holds a copy of is never
\* started, promoted or saved again (CancelRelease, RejectRelease): only what
\* was under way at the cancellation can undo it.
Held == \E r \in Requests : pc[r] \in {"approving", "record", "start", "promote", "cancel",
                                       "load", "batch"}
CancelledStays ==
  [][row # NoRelease /\ row.status = "cancelled" /\ ~Held
       => row' = row /\ ~Held']_vars

\* A release that runs comes to an end or to a pause unless the server
\* crashes: every wait for a client has its deadline.
EventuallySettled ==
  row # NoRelease /\ row.status = "running"
    ~> crashed \/ row.status # "running"

\* The four together: what requests, executions, commands and deadlines may
\* overlap without breaking.
ReleasesAreWhole == TypeOK /\ CanariesFirst /\ SuccessIsDeployed /\ BlueGreenIsWhole

\* Executions start only where the row allowed it: not without the approval,
\* and not after a cancellation.
StartsAreAllowed == UnapprovedOnlyEarly /\ CancelledStays

-----------------------------------------------------------------------------
(* Bounds for model checking: two targets and three requests.               *)

MCTargets == <<"t1", "t2">>

\* The bounds of a behaviour are part of its plan: requests, a crash, and the
\* targets that may be deleted.
Plan == [type |-> "rolling", size |-> 2, canaries |-> {}, percent |-> 0, auto |-> TRUE,
         approval |-> FALSE, kind |-> "container", op |-> "deploy", workDir |-> TRUE,
         scripts |-> {"install", "update"}, before |-> "none",
         requests |-> 3, crashes |-> FALSE, deletable |-> {}]

MCPlanList == <<
  \* commands of parallel targets, their deadlines, a cancellation
  [Plan EXCEPT !.requests = 1],
  [Plan EXCEPT !.type = "blue-green", !.kind = "script", !.op = "uninstall", !.before = "old",
               !.scripts = {"uninstall"}, !.requests = 1, !.crashes = TRUE],
  [Plan EXCEPT !.kind = "kubernetes", !.requests = 1],
  \* parallel saves of two executions
  [Plan EXCEPT !.kind = "local", !.op = "install", !.requests = 2],
  [Plan EXCEPT !.type = "blue-green", !.kind = "local", !.op = "rollback",
               !.scripts = {"rollback"}, !.before = "new", !.requests = 2,
               !.deletable = {"t2"}],
  [Plan EXCEPT !.size = 0, !.kind = "local", !.requests = 2],
  \* canaries: by share, by default, by name; alone, or all of the list
  [Plan EXCEPT !.type = "canary", !.percent = 50, !.kind = "script", !.before = "old",
               !.requests = 2],
  [Plan EXCEPT !.type = "canary", !.auto = FALSE, !.approval = TRUE, !.kind = "local",
               !.requests = 3],
  [Plan EXCEPT !.type = "canary", !.auto = FALSE, !.kind = "local",
               !.requests = 2, !.deletable = {"t1", "t2"}],
  [Plan EXCEPT !.type = "canary", !.canaries = {"t2"}, !.kind = "gitpull",
               !.op = "rollback", !.deletable = {"t1"}, !.requests = 2],
  [Plan EXCEPT !.type = "canary", !.canaries = {"t1", "t2"}, !.kind = "local",
               !.workDir = FALSE, !.scripts = {"install"}] >>

MCPlans == ToSet(MCPlanList)

=============================================================================
