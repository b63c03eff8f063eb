----------------------------- MODULE DeployTask -----------------------------
(***************************************************************************)
(* pkg/release/api: one deploy task of the release centre, its handlers    *)
(* and the goroutines they start.  Every handler reads the whole row,      *)
(* changes its copy and writes the whole copy back; a goroutine goes on    *)
(* writing the copy it was started with.  Nothing locks the row.           *)
(***************************************************************************)
EXTENDS Integers, SequencesExt

CONSTANTS
  ClientIDs,  \* the clients of the task, in its order
  Plans,      \* configurations of the task to start from
  MaxRequests \* HTTP requests in one behaviour

Clients == ToSet(ClientIDs)
N == Len(ClientIDs)
Requests == 1 .. MaxRequests   \* in the order of their arrival

ASSUME DeployAssumption ==
  /\ ClientIDs \in Seq(Clients)
  /\ N > 0 /\ Cardinality(Clients) = N
  /\ MaxRequests \in Nat
  /\ Plans \subseteq [canary : BOOLEAN, percent : 1 .. 100,
                      strategy : {"continue", "pause", "abort"},
                      auto : BOOLEAN,     \* an update with AutoRollback
                      script : BOOLEAN,   \* the version has a RollbackScript
                      tracked : BOOLEAN]  \* the task was created with Results

VARIABLES
  plan,      \* the configuration in the row, never changed
  row,       \* the row in the database
  run,       \* a request and the goroutine it starts, with their copy of the row
  undoing,   \* autoRollbackClient goroutines: run and client
  node,      \* what a client runs
  undone,    \* clients on which a rollback script was run (history)
  promoted   \* a promotion has been accepted (history)

vars == <<plan, row, run, undoing, node, undone, promoted>>

Statuses == {"pending", "scheduled", "running", "canary", "paused",
             "completed", "failed", "cancelled"}
ResultStatuses == {"pending", "running", "success", "failed", "rollback"}
Ops == {"start", "cancel", "pause", "promote", "rollback"}

Tracked == IF plan.tracked THEN Clients ELSE {}
Tasks == [status : Statuses, results : [Tracked -> ResultStatuses],
          success : Nat, failed : Nat, pending : Int]

Idle == [pc |-> "idle"]
Arrived == {r \in Requests : run[r] # Idle}

TypeOK ==
  /\ plan \in Plans
  /\ row \in Tasks
  /\ \A r \in Arrived :
        /\ run[r].op \in Ops
        /\ run[r].pc \in {"read", "resave", "prepare", "next", "deploy", "ok", "err",
                          "stop", "undo", "lost", "done"}
        /\ run[r].task \in Tasks
        /\ ToSet(run[r].todo) \subseteq Clients
  /\ undoing \subseteq Requests \X Clients
  /\ node \in [Clients -> {"old", "new"}]
  /\ undone \subseteq Clients
  /\ promoted \in BOOLEAN

\* CreateDeployTask, or the webhook that creates a task without results.
Init ==
  /\ plan \in Plans
  /\ row \in [status : {"pending", "scheduled"},
              results : {[c \in Tracked |-> "pending"]},
              success : {0}, failed : {0}, pending : {Cardinality(Tracked)}]
  /\ run = [r \in Requests |-> Idle]
  /\ undoing = {}
  /\ node = [c \in Clients |-> "old"]
  /\ undone = {}
  /\ promoted = FALSE

-----------------------------------------------------------------------------
(* The handlers: a first step reads the row and checks it, a second writes. *)

Admits(op) ==
  CASE op = "start"    -> {"pending", "scheduled"}
    [] op = "cancel"   -> Statuses \ {"completed", "cancelled"}
    [] op = "pause"    -> {"running", "canary"}
    [] op = "promote"  -> {"canary"}
    [] op = "rollback" -> {"canary", "running", "failed"}

Read(r, op) ==
  /\ Arrived = 1 .. r - 1
  /\ row.status \in Admits(op)
  /\ run' = [run EXCEPT ![r] = [op |-> op, pc |-> "read", task |-> row, todo |-> <<>>,
                                tried |-> <<>>, failures |-> {}]]
  /\ UNCHANGED <<plan, row, undoing, node, undone, promoted>>

\* Go on at pc with the copy t, saved or not.
Step(r, pc, t) == run' = [run EXCEPT ![r].pc = pc, ![r].task = t]
Save(t) == row' = t
Copy(r, s) == [run[r].task EXCEPT !.status = s]

\* Slip: the goroutine is not told of the canary phase.
StartWhole(r) ==
  /\ run[r].op = "start"
  /\ Save(Copy(r, IF plan.canary THEN "canary" ELSE "running"))
  /\ Step(r, "prepare", Copy(r, "running"))
  /\ UNCHANGED promoted

\* StartDeployTask
Start(r) ==
  LET t == Copy(r, IF plan.canary THEN "canary" ELSE "running")
  IN /\ run[r].op = "start"
     /\ Save(t)
     /\ Step(r, "prepare", t)
     /\ UNCHANGED promoted

\* Slip: another spelling of the status is saved.
CancelMisspelt(r) ==
  /\ run[r].op = "cancel"
  /\ Save(Copy(r, "canceled"))
  /\ Step(r, "done", Copy(r, "canceled"))
  /\ UNCHANGED promoted

\* CancelDeployTask and PauseDeployTask: they change the row and nothing else.
Cancel(r) ==
  /\ run[r].op = "cancel"
  /\ Save(Copy(r, "cancelled"))
  /\ Step(r, "done", Copy(r, "cancelled"))
  /\ UNCHANGED promoted

Pause(r) ==
  /\ run[r].op = "pause"
  /\ Save(Copy(r, "paused"))
  /\ Step(r, "done", Copy(r, "paused"))
  /\ UNCHANGED promoted

\* PromoteDeployTask; promoteDeployTask saves the same copy once more.
Promote(r) ==
  /\ run[r].op = "promote"
  /\ Save(Copy(r, "running"))
  /\ promoted' = TRUE
  /\ Step(r, "resave", Copy(r, "running"))

\* RollbackDeployTask writes nothing.  Without the version or its script nothing
\* is rolled back.
Rollback(r) ==
  /\ run[r].op = "rollback"
  /\ \E pc \in {"done"} \cup (IF plan.script THEN {"undo"} ELSE {}) :
       run' = [run EXCEPT ![r].pc = pc, ![r].todo = ClientIDs]
  /\ UNCHANGED <<row, promoted>>

Write(r) ==
  /\ r \in Arrived /\ run[r].pc = "read"
  /\ Start(r) \/ Cancel(r) \/ Pause(r) \/ Promote(r) \/ Rollback(r)
  /\ UNCHANGED <<plan, undoing, node, undone>>

-----------------------------------------------------------------------------
(* executeDeployTask, on the copy of the goroutine.                         *)

Resave(r) ==
  /\ run[r].pc = "resave"
  /\ Save(run[r].task)
  /\ Step(r, "prepare", run[r].task)
  /\ UNCHANGED <<plan, undoing, node, undone, promoted>>

CanaryCount ==
  LET share == (N * plan.percent) \div 100
  IN IF share < 1 THEN 1 ELSE share

ClientsToExecute(t) ==
  IF plan.canary /\ t.status = "canary" THEN SubSeq(ClientIDs, 1, CanaryCount)
  ELSE ClientIDs

\* The version and the project are loaded: if one was deleted the run just ends.
Prepare(r) ==
  /\ run[r].pc = "prepare"
  /\ \/ run' = [run EXCEPT ![r].pc = "next",
                             ![r].todo = ClientsToExecute(run[r].task)]
     \/ Step(r, "lost", run[r].task)
  /\ UNCHANGED <<plan, row, undoing, node, undone, promoted>>

WithResult(t, c, s) ==
  [t EXCEPT !.results = [d \in DOMAIN t.results |-> IF d = c THEN s ELSE t.results[d]]]

Mark(r) ==
  /\ run[r].pc = "next"
  /\ run[r].todo # <<>>
  /\ LET t == WithResult(run[r].task, Head(run[r].todo), "running")
     IN Save(t) /\ Step(r, "deploy", t)
  /\ UNCHANGED <<plan, undoing, node, undone, promoted>>

\* A script the client is sent and what the server hears of it: an error, or a
\* wait that ran out, may hide that it was run.
ExecuteRemote(c, v) ==
  [ok : {TRUE}, now : {v}] \cup [ok : {FALSE}, now : {node[c], v}]

Deploy(r) ==
  LET c == Head(run[r].todo)
  IN /\ run[r].pc = "deploy"
     /\ \E x \in ExecuteRemote(c, "new") :
          /\ node' = [node EXCEPT ![c] = x.now]
          /\ run' = [run EXCEPT ![r].pc = IF x.ok THEN "ok" ELSE "err",
                                 ![r].tried = Append(@, c),
                                 ![r].failures = IF x.ok THEN @ ELSE @ \cup {c}]
     /\ UNCHANGED <<plan, row, undoing, undone, promoted>>

\* Slip: every result counts as a success.
CountedLoosely(t, c, ok) ==
  IF c \notin DOMAIN t.results THEN t
  ELSE [WithResult(t, c, IF ok THEN "success" ELSE "failed") EXCEPT
          !.success = @ + 1, !.pending = @ - 1]

\* The counters belong to the entry in Results: without one nothing is counted.
Counted(t, c, ok) ==
  IF c \notin DOMAIN t.results THEN t
  ELSE [WithResult(t, c, IF ok THEN "success" ELSE "failed") EXCEPT
          !.success = IF ok THEN @ + 1 ELSE @,
          !.failed  = IF ok THEN @ ELSE @ + 1,
          !.pending = @ - 1]

\* Slip: the strategy abort is forgotten.
RecordAndGoOn(r) ==
  LET t == Counted(run[r].task, Head(run[r].todo), run[r].pc = "ok")
  IN /\ run[r].pc \in {"ok", "err"}
     /\ Save(t)
     /\ undoing' = undoing
     /\ run' = [run EXCEPT ![r].task = t, ![r].todo = Tail(@),
                   ![r].pc = IF @ = "err" /\ plan.strategy = "pause" THEN "stop" ELSE "next"]
     /\ UNCHANGED <<plan, node, undone, promoted>>

\* The result of one client, its automatic rollback and the failure strategy.
Record(r) ==
  LET c  == Head(run[r].todo)
      ok == run[r].pc = "ok"
      t  == Counted(run[r].task, c, ok)
  IN /\ run[r].pc \in {"ok", "err"}
     /\ Save(t)
     /\ undoing' = undoing \cup
          (IF ~ok /\ plan.auto /\ plan.script /\ c \in DOMAIN t.results
           THEN {<<r, c>>} ELSE {})
     /\ run' = [run EXCEPT ![r].task = t, ![r].todo = Tail(@),
                   ![r].pc = IF ~ok /\ plan.strategy # "continue" THEN "stop" ELSE "next"]
     /\ UNCHANGED <<plan, node, undone, promoted>>

Stop(r) ==
  LET t == Copy(r, IF plan.strategy = "abort" THEN "failed" ELSE "paused")
  IN /\ run[r].pc = "stop"
     /\ Save(t)
     /\ Step(r, "done", t)
     /\ UNCHANGED <<plan, undoing, node, undone, promoted>>

\* Slip: the last status is not saved.
FinishUnsaved(r) ==
  LET t == Copy(r, IF run[r].task.failed > 0 THEN "failed" ELSE "completed")
  IN /\ run[r].pc = "next"
     /\ run[r].todo = <<>>
     /\ Step(r, "done", t)
     /\ UNCHANGED <<plan, row, undoing, node, undone, promoted>>

\* A canary run ends in the status canary, any other in completed or failed.
Finish(r) ==
  LET s == run[r].task.status
      t == Copy(r, IF s = "canary" THEN s
                   ELSE IF run[r].task.failed > 0 THEN "failed" ELSE "completed")
  IN /\ run[r].pc = "next"
     /\ run[r].todo = <<>>
     /\ Save(t)
     /\ Step(r, "done", t)
     /\ UNCHANGED <<plan, undoing, node, undone, promoted>>

-----------------------------------------------------------------------------
(* The rollbacks.                                                           *)

\* The loop of rollbackDeployTask passes over the clients without an outcome.
Touched(t, c) == c \in DOMAIN t.results /\ t.results[c] \in {"success", "failed"}
NextTouched(r) ==
  {i \in 1 .. Len(run[r].todo) :
     /\ Touched(run[r].task, run[r].todo[i])
     /\ \A j \in 1 .. i - 1 : ~Touched(run[r].task, run[r].todo[j])}

\* One client, with or without an error.
UndoAt(r, i) ==
  LET c == run[r].todo[i]
  IN /\ undone' = undone \cup {c}
     /\ \E x \in ExecuteRemote(c, "old") :
          /\ node' = [node EXCEPT ![c] = x.now]
          /\ run' = [run EXCEPT ![r].todo = SubSeq(@, i + 1, Len(@)),
                                 ![r].task = IF x.ok THEN WithResult(@, c, "rollback") ELSE @]
     /\ UNCHANGED <<plan, row, undoing, promoted>>

Undo(r) == run[r].pc = "undo" /\ \E i \in NextTouched(r) : UndoAt(r, i)

UndoEnd(r) ==
  LET t == Copy(r, "cancelled")
  IN /\ run[r].pc = "undo"
     /\ NextTouched(r) = {}
     /\ Save(t)
     /\ Step(r, "done", t)
     /\ UNCHANGED <<plan, undoing, node, undone, promoted>>

\* autoRollbackClient: nobody waits for it or looks at its result.
AutoRollback(r, c) ==
  /\ <<r, c>> \in undoing
  /\ undoing' = undoing \ {<<r, c>>}
  /\ undone' = undone \cup {c}
  /\ \E x \in ExecuteRemote(c, "old") : node' = [node EXCEPT ![c] = x.now]
  /\ UNCHANGED <<plan, row, run, promoted>>

-----------------------------------------------------------------------------
Run(r) == \/ Write(r) \/ Resave(r) \/ Prepare(r) \/ Mark(r) \/ Deploy(r)
          \/ Record(r) \/ Stop(r) \/ Finish(r) \/ Undo(r) \/ UndoEnd(r)

Next ==
  \/ \E r \in Requests : (\E op \in Ops : Read(r, op)) \/ Run(r)
  \/ \E r \in Requests, c \in Clients : AutoRollback(r, c)

\* A request that has read the row writes it; the goroutines run, and a remote
\* execution ends, at the latest with its timeout.
Fairness == WF_vars(\E r \in Requests : Run(r))

Spec == Init /\ [][Next]_vars /\ Fairness

-----------------------------------------------------------------------------
(* Properties.                                                              *)

Canaries == {ClientIDs[i] : i \in 1 .. CanaryCount}

\* Until a promotion is accepted, no client outside the canary share is deployed
\* to, whatever requests overlap: the share is taken again in every run.
CanaryFirst ==
  plan.canary /\ ~promoted =>
    \A r \in Arrived : ToSet(run[r].tried) \subseteq Canaries

\* A task shown as completed has a success for every client, and every client
\* runs the new version unless a rollback script was run on it: no failure, pause
\* or promotion before, and no other run of the same task, lets a client slip by.
CompletedIsDeployed ==
  row.status = "completed" =>
    \A c \in Tracked : /\ row.results[c] = "success"
                       /\ node[c] = "new" \/ c \in undone

\* Until a promotion, the counters of the row are those of its results: copies
\* overwrite each other as a whole and never mix.
CountsMatchResults ==
  LET With(S) == Cardinality({c \in Tracked : row.results[c] \in S})
  IN ~promoted /\ With({"rollback"}) = 0 =>
       /\ row.success = With({"success"})
       /\ row.failed  = With({"failed"})
       /\ row.pending = With({"pending", "running"})

\* With the strategies abort and pause a run deploys to nobody after its first
\* failure.
StopsAtFailure ==
  plan.strategy # "continue" =>
    \A r \in Arrived : run[r].failures # {} =>
      run[r].failures = {Last(run[r].tried)}

\* A task does not stay in the status running, whichever copy was written last,
\* unless a run ended because its version or project was deleted.
EventuallySettled ==
  row.status = "running" ~>
    (row.status # "running" \/ \E r \in Requests : run[r].pc = "lost")

\* What a row says of its deployment, whatever runs of the task overlap and
\* whichever copy is saved last: canaries first, completed means deployed, and
\* counters and results come from one copy, and a failure ends a run that is not
\* told to go on.
DeploysAreSound ==
  TypeOK /\ CanaryFirst /\ CompletedIsDeployed /\ CountsMatchResults /\ StopsAtFailure

-----------------------------------------------------------------------------
(* Claims the code does not keep.                                           *)

\* A promotion deploys to the remaining clients (release-system-usage.md:455,
\* and the comments of PromoteDeployTask and promoteDeployTask).
PromotesTheRest ==
  \A r \in Arrived : run[r].op = "promote" =>
    ToSet(run[r].tried) \cap Canaries = {}

\* A cancelled task stays cancelled.
CancelledStays == [][row.status = "cancelled" => row'.status = "cancelled"]_vars

\* A completed task leaves every client with the new version.
CompletedIsNew ==
  row.status = "completed" => \A c \in Clients : node[c] = "new"

\* A promotion comes after the canary phase.
PromotedAfterCanaries ==
  [][promoted' # promoted =>
       \A r \in Arrived : run[r].op = "start" => run[r].pc = "done"]_vars

-----------------------------------------------------------------------------
(* Bounds for model checking.                                               *)

TwoClients == <<"c1", "c2">>

Plan(canary, percent, strategy, auto, script, tracked) ==
  [canary |-> canary, percent |-> percent, strategy |-> strategy, auto |-> auto,
   script |-> script, tracked |-> tracked]

SmallPlans ==
  {Plan(TRUE, 10, "continue", FALSE, TRUE, TRUE),
   Plan(TRUE, 50, "abort", TRUE, TRUE, TRUE),
   Plan(FALSE, 10, "pause", TRUE, FALSE, FALSE)}

=============================================================================
