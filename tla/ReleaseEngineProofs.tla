------------------------ MODULE ReleaseEngineProofs ------------------------
(***************************************************************************)
(* What holds of a release for any list of targets, any project, strategy  *)
(* and number of overlapping requests and executions.                      *)
(***************************************************************************)
EXTENDS ReleaseEngine, FiniteSetTheorems, TLAPS

\* What a target holds when the operation of the release has been done on it.
Goal == Effect(Performed)

\* Where a copy of the row is at hand, and what it says there.
Holding == {"approving", "record", "cancel", "start", "promote", "load", "batch"}
Placed ==
  /\ approval # "none" => row \in Releases
  /\ \A r \in Requests :
       /\ pc[r] \in Holding => copy[r] \in Releases
       /\ pc[r] \in {"approving", "record", "refuse"} => row \in Releases
       /\ pc[r] \in {"load", "batch"} => copy[r].status = "running"
       /\ pc[r] # "batch" => Works(r) = {} /\ ~judged[r]

\* A goroutine of a target does the operation, or the one of installing and
\* updating that the target needs; what it saves is a row that runs.
Does(op) ==
  op = plan.op \/ (plan.kind \in {"script", "local"} /\ plan.op = "deploy"
                   /\ op \in {"install", "update"})
Worked ==
  \A r \in Requests, t \in Targets :
    /\ work[r][t].pc # "none" => Does(work[r][t].op)
    /\ work[r][t].pc = "check" => plan.kind \in {"script", "local"} /\ plan.op = "deploy"
    /\ work[r][t].pc \in {"marked", "judged"} =>
         work[r][t].snap \in Releases /\ work[r][t].snap.status = "running"
    /\ work[r][t].pc = "judged" => copy[r].results[t] \in {"success", "failed"}

\* A success that is on record anywhere is one.
Deployed(c) == c \in Releases => \A t \in Targets : c.results[t] = "success" => node[t] = Goal
Honest ==
  /\ Deployed(row)
  /\ \A r \in Requests : Deployed(copy[r])
  /\ \A r \in Requests, t \in Targets :
       Deployed(work[r][t].snap) /\ (cmd[r][t] = "ok" => node[t] = Goal)

\* A blue-green execution, and one before its verdict on the canaries, misses
\* no target it has to do.
Due(t) == plan.type = "blue-green" \/ (plan.type = "canary" /\ IsCanary(t))
Covered ==
  \A r \in Requests : pc[r] = "batch" /\ ~judged[r] =>
    \A t \in present : Due(t) =>
      t \in todo[r] \/ t \in Works(r) \/ copy[r].results[t] \in {"success", "failed"}

\* The verdict was right.
CanariesDone ==
  \A r \in Requests : judged[r] =>
    plan.type = "canary" /\ \A c \in present : IsCanary(c) => node[c] = Goal

EInv ==
  TypeOK /\ Placed /\ Worked /\ Honest /\ Covered /\ CanariesDone /\ BlueGreenIsWhole

\* Who is about to launch has the approval, or read the row before it wanted one.
Permitted ==
  /\ approval = "approved" => approved
  /\ \A r \in Requests :
       pc[r] = "start" /\ plan.approval => approved \/ copy[r].status = "pending"

-----------------------------------------------------------------------------
(* Facts about the model's operators.                                       *)

\* No release is a release.
LEMMA NoneIsNone == NoRelease \notin Releases
BY DEF NoRelease, Releases, Statuses

\* Writing the status leaves the results alone.
LEMMA StatusFields ==
  ASSUME NEW c \in Releases, NEW s \in Statuses
  PROVE  /\ WithStatus(c, s) \in Releases
         /\ WithStatus(c, s).status = s
         /\ WithStatus(c, s).results = c.results
BY DEF WithStatus, Releases

\* Writing one result leaves the status and the other results alone.
LEMMA ResultFields ==
  ASSUME NEW c \in Releases, NEW t \in Targets, NEW s \in ResultStatuses
  PROVE  /\ WithResult(c, t, s) \in Releases
         /\ WithResult(c, t, s).status = c.status
         /\ \A u \in Targets : WithResult(c, t, s).results[u] = IF u = t THEN s ELSE c.results[u]
BY DEF WithResult, Releases

\* A new release, as CreateRelease writes it.
LEMMA NewRelease ==
  ASSUME NEW s \in Statuses
  PROVE  /\ [status |-> s, results |-> [t \in Targets |-> "pending"]] \in Releases
         /\ [status |-> s, results |-> [t \in Targets |-> "pending"]].status = s
         /\ \A t \in Targets :
              [status |-> s, results |-> [u \in Targets |-> "pending"]].results[t] = "pending"
BY DEF Releases, ResultStatuses

\* The list of targets is finite, and a share of it is at least one target.
LEMMA TargetsFinite == IsFiniteSet(Targets)
<1>1. Len(TargetIDs) \in Nat /\ TargetIDs \in [1 .. Len(TargetIDs) -> Targets]
  BY EngineAssumption
<1>2. Targets = {TargetIDs[i] : i \in 1 .. Len(TargetIDs)}
  BY <1>1 DEF Targets, ToSet
<1>3. TargetIDs \in Surjection(1 .. Len(TargetIDs), Targets)
  BY <1>1, <1>2 DEF Surjection
<1> QED BY <1>1, <1>3, FS_Interval, FS_Surjection

\* A share of the targets is at least one, whatever the percentage.
LEMMA CanaryCountPositive ==
  ASSUME plan \in Plans, NEW S \in SUBSET Targets
  PROVE  CanaryCount(S) \in Int /\ CanaryCount(S) >= 1
<1>1. Cardinality(S) \in Nat
  BY TargetsFinite, FS_Subset, FS_CardinalityType
<1>2. plan.percent \in Int
  BY EngineAssumption
<1> QED BY <1>1, <1>2 DEF CanaryCount

\* The first target of the list is among the first of any set it is in.
LEMMA HeadIsFirst ==
  ASSUME NEW S \in SUBSET Targets, NEW n \in Int, n >= 1, Head(TargetIDs) \in S
  PROVE  Head(TargetIDs) \in First(S, n)
<1>1. Len(TargetIDs) \in Nat /\ TargetIDs \in [1 .. Len(TargetIDs) -> Targets]
  BY EngineAssumption
<1>2. PICK i \in 1 .. Len(TargetIDs) : TRUE
  BY <1>1 DEF Targets, ToSet
<1>3. 1 \in 1 .. Len(TargetIDs) /\ Head(TargetIDs) = TargetIDs[1]
  BY <1>1, <1>2, EngineAssumption
<1>4. \A u \in S : ~Precedes(u, Head(TargetIDs))
  BY <1>1, <1>3, EngineAssumption DEF Precedes
<1>5. {u \in S : Precedes(u, Head(TargetIDs))} = {}
  BY <1>4
<1>6. Cardinality({u \in S : Precedes(u, Head(TargetIDs))}) = 0
  BY <1>5, FS_EmptySet
<1> QED BY <1>6 DEF First

\* So a canary that is still there is chosen.
LEMMA CanaryChosen ==
  ASSUME plan \in Plans, NEW S \in SUBSET Targets, NEW t \in S, IsCanary(t)
  PROVE  t \in Canaries(S)
BY CanaryCountPositive, HeadIsFirst DEF IsCanary, Canaries

\* The plan has the fields the code reads.
LEMMA PlanFields ==
  ASSUME plan \in Plans
  PROVE  /\ plan.type \in {"rolling", "canary", "blue-green"} /\ plan.kind \in Kinds
         /\ plan.op \in Operations /\ plan.canaries \subseteq Targets
         /\ plan.before \in {"none", "old", "new"} /\ plan.auto \in BOOLEAN
         /\ plan.approval \in BOOLEAN /\ plan.workDir \in BOOLEAN
BY EngineAssumption

\* The goal of a release is that of its plan.
LEMMA GoalKept == ASSUME UNCHANGED plan PROVE Goal' = Goal
BY DEF Goal, Effect, Performed

\* A script that does its part of the operation reaches the goal.
LEMMA DoesGoal ==
  ASSUME plan \in Plans, NEW op \in Operations, Does(op), IsLocal PROVE Effect(op) = Goal
BY PlanFields DEF Does, Goal, Effect, Performed, IsLocal, Operations

\* It is something a target can have.
LEMMA GoalTyped == ASSUME plan \in Plans PROVE Goal \in {"none", "old", "new"}
BY PlanFields DEF Goal, Effect, Performed, Operations

-----------------------------------------------------------------------------
(* What the steps do, by kind.                                             *)

Positions == {"idle", "approving", "record", "cancel", "start", "promote", "permit", "refuse",
              "load", "batch", "done"}

\* A row whose results are those of one that is known, or say nothing yet.
Known(c, r) ==
  /\ c \in Releases
  /\ \/ \A t \in Targets : c.results[t] # "success"
     \/ row \in Releases /\ c.results = row.results
     \/ copy[r] \in Releases /\ c.results = copy[r].results

\* Requests and their handlers leave every execution alone.
Handled(r) ==
  /\ UNCHANGED <<plan, present, execution, cmd, node, crashed>>
  /\ pc' = [pc EXCEPT ![r] = pc'[r]] /\ copy' = [copy EXCEPT ![r] = copy'[r]]
  /\ pc[r] \notin {"load", "batch"} /\ pc'[r] \in Positions \ {"batch"}
  /\ \/ copy'[r] = NoRelease /\ pc'[r] \notin Holding
     \/ Known(copy'[r], r) /\ (pc'[r] = "load" => copy'[r].status = "running")
  /\ row' = row \/ (Known(row', r) /\ row'.status # "success")
  /\ approval' # "none" \/ pc'[r] \in {"approving", "record", "refuse"} => row' \in Releases
  /\ approval' \in Approvals /\ auto' \in [Requests -> BOOLEAN] /\ approved' \in BOOLEAN
  /\ approved => approved'
  /\ approval' = "approved" => approval = "approved" \/ approved'
  /\ pc'[r] = "start" => MayStart /\ copy'[r] = row

\* A request, or a later step of its handler, is one of these.
LEMMA Handles ==
  ASSUME TypeOK, Placed, NEW r \in Requests, Request(r) \/ Handler(r)
  PROVE  Handled(r)
<1> USE DEF TypeOK, At, Done, Handled
<1>0. row # NoRelease => row \in Releases
  OBVIOUS
<1>1. pc[r] \in Holding => copy[r] \in Releases
  BY DEF Placed
<1>2. pc[r] \in {"approving", "record", "refuse"} \/ approval # "none" => row \in Releases
  BY DEF Placed
<1>3. NextRequest(r) => pc[r] = "idle"
  BY DEF NextRequest, Active, Requests
<1>4. CASE CreateRelease(r)
  <2>1. PICK starts \in BOOLEAN, status \in {"pending", "scheduled"} :
          LET c == [status |-> status, results |-> [t \in Targets |-> "pending"]]
          IN /\ row' = c
             /\ auto' = [auto EXCEPT ![r] = starts]
             /\ Arrive(r, IF plan.approval THEN "approving" ELSE IF starts THEN "permit" ELSE "done",
                       IF plan.approval THEN c ELSE NoRelease)
             /\ UNCHANGED <<plan, present, approval, execution, cmd, node, approved, crashed>>
    BY <1>4 DEF CreateRelease
  <2>2. row' \in Releases /\ row'.status = status /\ \A t \in Targets : row'.results[t] = "pending"
    BY <2>1, NewRelease DEF Statuses
  <2> QED BY <1>3, <2>1, <2>2 DEF Arrive, Known, Positions, Holding
<1>5. CASE SaveApproving(r)
  <2>1. pc[r] = "approving" /\ copy[r] \in Releases
    BY <1>1, <1>5 DEF SaveApproving, Holding
  <2>2. Known(WithStatus(copy[r], "approving"), r)
        /\ WithStatus(copy[r], "approving").status = "approving"
    BY <2>1, StatusFields DEF Known, Statuses
  <2> QED BY <1>5, <2>1, <2>2 DEF SaveApproving, Positions, Known
<1>6. CASE CreateApproval(r)
  BY <1>2, <1>6 DEF CreateApproval, Created, Approvals, Positions, Holding
<1>7. CASE StartRelease(r)
  BY <1>0, <1>2, <1>3, <1>7 DEF StartRelease, Arrive, MayStart, Known, Positions, Holding
<1>8. ASSUME NEW from \in {"start", "promote"}, LaunchOf(r, from) PROVE Handled(r)
  <2>1. pc[r] \in {"start", "promote"} /\ copy[r] \in Releases
    BY <1>1, <1>8 DEF LaunchOf, Holding
  <2>2. Known(WithStatus(copy[r], "running"), r)
        /\ WithStatus(copy[r], "running").status = "running"
    BY <2>1, StatusFields DEF Known, Statuses
  <2> QED BY <1>8, <2>1, <2>2 DEF LaunchOf, Positions, Known
<1>9. CASE ApproveRelease(r) \/ RejectRelease(r)
  BY <1>2, <1>3, <1>9 DEF ApproveRelease, RejectRelease, Arrive, Approvals, Positions, Holding
<1>10. CASE RejectedRelease(r)
  <2>1. pc[r] = "refuse" /\ row \in Releases
    BY <1>2, <1>10 DEF RejectedRelease
  <2>2. Known(WithStatus(row, "cancelled"), r)
        /\ WithStatus(row, "cancelled").status = "cancelled"
    BY <2>1, StatusFields DEF Known, Statuses
  <2> QED BY <1>10, <2>1, <2>2 DEF RejectedRelease, Positions, Known, Holding
<1>11. CASE CancelRelease(r) \/ PromoteCanary(r)
  BY <1>0, <1>2, <1>3, <1>11 DEF CancelRelease, PromoteCanary, Arrive, Known, Positions, Holding
<1>12. CASE CancelledRelease(r)
  <2>1. pc[r] = "cancel" /\ copy[r] \in Releases
    BY <1>1, <1>12 DEF CancelledRelease, Holding
  <2>2. Known(WithStatus(copy[r], "cancelled"), r)
        /\ WithStatus(copy[r], "cancelled").status = "cancelled"
    BY <2>1, StatusFields DEF Known, Statuses
  <2> QED BY <1>12, <2>1, <2>2 DEF CancelledRelease, Positions, Known, Holding
<1> QED
  BY <1>4, <1>5, <1>6, <1>7, <1>8, <1>9, <1>10, <1>11, <1>12
     DEF Request, Handler, Launch, Promoted

\* An execution that ends leaves its copy as the row.
Finished(r, status) ==
  /\ Between(r) /\ todo[r] = {}
  /\ row' \in Releases /\ row'.status = status /\ row'.results = copy[r].results
  /\ pc' = [pc EXCEPT ![r] = "done"] /\ copy' = [copy EXCEPT ![r] = NoRelease]
  /\ rest' = [rest EXCEPT ![r] = {}] /\ judged' = [judged EXCEPT ![r] = FALSE]
  /\ UNCHANGED <<plan, present, approval, auto, todo, work, cmd, node, approved, crashed>>

\* An execution that fails, completes or pauses ends this way.
LEMMA Finishes ==
  ASSUME TypeOK, Placed, NEW r \in Requests, Between(r), todo[r] = {},
         NEW status \in Statuses, Finish(r, status)
  PROVE  Finished(r, status)
<1>1. copy[r] \in Releases
  BY DEF Between, Placed, Holding
<1> QED BY <1>1, StatusFields DEF Finish, Done, At, Finished

\* The goroutine of a target moves on, with a snapshot of the copy or without.
Moved(r, t, p, op, snap) ==
  /\ pc[r] = "batch" /\ copy[r] \in Releases /\ work[r][t] \in TargetWork
  /\ work[r][t].pc # "none"
  /\ work' \in [Requests -> [Targets -> TargetWork]]
  /\ work'[r][t].pc = p /\ work'[r][t].op = op /\ work'[r][t].snap = snap
  /\ \A q \in Requests, u \in Targets : q # r \/ u # t => work'[q][u] = work[q][u]
  /\ UNCHANGED <<plan, present, approval, pc, auto, todo, rest, judged, approved, crashed>>

Judged(r, t, result, p) ==
  /\ Moved(r, t, p, work[r][t].op, copy'[r])
  /\ copy' \in [Requests -> Releases \union {NoRelease}]
  /\ copy'[r] \in Releases /\ copy'[r].status = copy[r].status
  /\ \A u \in Targets : copy'[r].results[u] = IF u = t THEN result ELSE copy[r].results[u]
  /\ \A q \in Requests : q # r => copy'[q] = copy[q]
  /\ row' = row

\* A write to the position of one goroutine leaves the others alone.
LEMMA MovesOn ==
  ASSUME TypeOK, Placed, NEW r \in Requests, NEW t \in Targets,
         pc[r] = "batch", work[r][t].pc # "none",
         NEW p \in {"none", "marked", "check", "send", "poll", "judged"},
         NEW op \in Operations, NEW snap \in Releases \union {NoRelease},
         WorkAt(r, t, p, op, snap),
         UNCHANGED <<plan, present, approval, pc, auto, todo, rest, judged, approved, crashed>>
  PROVE  Moved(r, t, p, op, snap)
<1> DEFINE w == [pc |-> p, op |-> op, snap |-> snap]
<1>1. w \in TargetWork /\ w.pc = p /\ w.op = op /\ w.snap = snap
  BY DEF TargetWork
<1>2. work' = [work EXCEPT ![r][t] = w]
  BY DEF WorkAt
<1> HIDE DEF w
<1> QED BY <1>1, <1>2 DEF Moved, TypeOK, Placed, Holding

\* A result goes into the shared copy and into the snapshot to be saved.
LEMMA Judges ==
  ASSUME TypeOK, Placed, NEW r \in Requests, NEW t \in Targets,
         pc[r] = "batch", work[r][t].pc # "none",
         NEW result \in ResultStatuses, NEW p \in {"marked", "judged"},
         Judge(r, t, result, p), UNCHANGED <<plan, present, row, approval, approved, crashed>>
  PROVE  Judged(r, t, result, p)
<1> DEFINE c == WithResult(copy[r], t, result)
<1>1. copy[r] \in Releases /\ work[r][t].op \in Operations
  BY DEF Placed, Holding, TypeOK, TargetWork
<1>2. /\ c \in Releases /\ c.status = copy[r].status
      /\ \A u \in Targets : c.results[u] = IF u = t THEN result ELSE copy[r].results[u]
  BY <1>1, ResultFields
<1>3. copy' = [copy EXCEPT ![r] = c] /\ WorkAt(r, t, p, work[r][t].op, c)
      /\ UNCHANGED <<pc, auto, todo, rest, judged>>
  BY DEF Judge
<1> HIDE DEF c
<1>4. Moved(r, t, p, work[r][t].op, c)
  BY <1>1, <1>2, <1>3, MovesOn
<1>5. copy'[r] = c /\ (\A q \in Requests : q # r => copy'[q] = copy[q])
      /\ copy' \in [Requests -> Releases \union {NoRelease}]
  BY <1>2, <1>3 DEF TypeOK
<1> QED BY <1>2, <1>4, <1>5 DEF Judged

\* A step of a target's goroutine, or of the client it has sent a command to.
NodeStep(t) ==
  /\ node' \in [Targets -> {"none", "old", "new"}]
  /\ node'[t] \in {node[t], Goal}
  /\ \A u \in Targets : u # t => node'[u] = node[u]
CmdStep(r, t) ==
  /\ cmd' \in [Requests -> [Targets -> {"none", "sent", "ok", "error"}]]
  /\ cmd'[r][t] = "ok" => cmd[r][t] = "ok" \/ node'[t] = Goal
  /\ \A q \in Requests, u \in Targets : q # r \/ u # t => cmd'[q][u] = cmd[q][u]
Verdict(r, t) ==
  \E s \in {"success", "failed"} :
    Judged(r, t, s, "judged") /\ (s = "success" => node'[t] = Goal)
Proceeds(r, t) ==
  /\ copy' = copy
  /\ \/ row' = row
     \/ work[r][t].pc \in {"marked", "judged"} /\ row' = work[r][t].snap
  /\ \E p \in {"check", "send", "poll", "none"}, op \in Operations :
       /\ Moved(r, t, p, op, NoRelease)
       /\ p = "none" => work[r][t].pc = "judged"
       /\ p # "none" => Does(op)
       /\ p = "check" => plan.kind \in {"script", "local"} /\ plan.op = "deploy"
Stepped(r, t) ==
  /\ NodeStep(t) /\ CmdStep(r, t)
  /\ \/ Judged(r, t, "running", "marked")
     \/ Verdict(r, t)
     \/ Proceeds(r, t)
     \/ UNCHANGED <<plan, present, row, approval, pc, copy, auto, execution, approved, crashed>>

\* The goroutine of a target and its client do nothing else.
LEMMA Steps ==
  ASSUME EInv, NEW r \in Requests, NEW t \in Targets, TargetStep(r, t) \/ ClientExecutes(r, t)
  PROVE  Stepped(r, t)
<1>0. /\ TypeOK /\ Placed /\ plan \in Plans /\ plan.op \in Operations
      /\ \A p \in {"mark", "marked", "check", "send", "poll", "judged"} :
           Work(r, t, p) => /\ pc[r] = "batch" /\ work[r][t].pc = p /\ work[r][t].pc # "none"
                            /\ copy[r] \in Releases
                            /\ work[r][t].op \in Operations /\ Does(work[r][t].op)
  BY PlanFields DEF EInv, TypeOK, Placed, Holding, Work, Worked, TargetWork
<1>1. UNCHANGED <<node, cmd>> => NodeStep(t) /\ CmdStep(r, t)
  BY <1>0 DEF NodeStep, CmdStep, TypeOK
<1>2. "success" \in ResultStatuses /\ "failed" \in ResultStatuses /\ "running" \in ResultStatuses
  BY DEF ResultStatuses
<1>3. \A op \in Operations, p \in {"check", "send", "poll", "none"} :
        /\ work[r][t].pc # "none" /\ pc[r] = "batch"
        /\ Goto(r, t, p, op)
        /\ UNCHANGED <<plan, present, approval, approved, crashed>>
        => Moved(r, t, p, op, NoRelease) /\ copy' = copy
  BY <1>0, MovesOn DEF Goto
<1>4. ASSUME Judge(r, t, "failed", "judged"), UNCHANGED <<plan, present, row, approval, approved, crashed>>,
             pc[r] = "batch", work[r][t].pc # "none"
      PROVE  Verdict(r, t)
  BY <1>0, <1>2, <1>4, Judges DEF Verdict
<1>5. CASE MarkRunning(r, t)
  BY <1>0, <1>1, <1>2, <1>5, Judges DEF MarkRunning, Stepped
<1>6. CASE SaveRunning(r, t)
  <2>1. Work(r, t, "marked") /\ row' = work[r][t].snap
    BY <1>6 DEF SaveRunning
  <2>2. PICK p \in {"check", "send"} :
          /\ Goto(r, t, p, work[r][t].op)
          /\ p = "check" => plan.kind \in {"script", "local"} /\ plan.op = "deploy"
    BY <1>6 DEF SaveRunning
  <2>3. Moved(r, t, p, work[r][t].op, NoRelease) /\ copy' = copy
    BY <1>0, <1>3, <1>6, <2>1, <2>2 DEF SaveRunning
  <2> QED BY <1>0, <1>1, <1>6, <2>1, <2>2, <2>3 DEF SaveRunning, Proceeds, Stepped
<1>7. CASE SaveJudged(r, t)
  <2>1. Work(r, t, "judged") /\ row' = work[r][t].snap /\ Goto(r, t, "none", "deploy")
    BY <1>7 DEF SaveJudged
  <2>2. "deploy" \in Operations
    BY DEF Operations
  <2>3. Moved(r, t, "none", "deploy", NoRelease) /\ copy' = copy
    BY <1>0, <1>3, <1>7, <2>1, <2>2 DEF SaveJudged
  <2> QED BY <1>0, <1>1, <1>7, <2>1, <2>2, <2>3 DEF SaveJudged, Proceeds, Stepped
<1>8. CASE Determine(r, t)
  <2>1. Work(r, t, "check") /\ UNCHANGED <<plan, present, row, approval, cmd, node, approved, crashed>>
    BY <1>8 DEF Determine
  <2>2. CASE Judge(r, t, "failed", "judged")
    BY <1>0, <1>1, <1>4, <2>1, <2>2 DEF Stepped
  <2>3. ASSUME NEW op \in Answers(t), Goto(r, t, "send", op) PROVE Stepped(r, t)
    <3>1. op \in Operations /\ op \in {"install", "update"}
      BY DEF Answers, Operations
    <3>2. Does(op)
      BY <2>1, <3>1 DEF EInv, Worked, Work, Does
    <3>3. Moved(r, t, "send", op, NoRelease) /\ copy' = copy
      BY <1>0, <1>3, <2>1, <2>3, <3>1
    <3> QED BY <1>1, <2>1, <3>1, <3>2, <3>3 DEF Proceeds, Stepped
  <2> QED BY <1>8, <2>2, <2>3 DEF Determine
<1>9. CASE ExecuteLocally(r, t)
  <2>1. Work(r, t, "send") /\ IsLocal /\ UNCHANGED <<plan, present, row, approval, cmd, approved, crashed>>
    BY <1>9 DEF ExecuteLocally
  <2>2. CASE ScriptFails(r, t)
    BY <1>0, <1>1, <1>4, <2>1, <2>2 DEF ScriptFails, Stepped
  <2>3. CASE ScriptEnds(r, t)
    <3>1. Effect(work[r][t].op) = Goal /\ Goal \in {"none", "old", "new"}
      BY <1>0, <2>1, DoesGoal, GoalTyped
    <3>2. node' = [node EXCEPT ![t] = Goal]
      BY <2>3, <3>1 DEF ScriptEnds
    <3>3. NodeStep(t) /\ CmdStep(r, t) /\ node'[t] = Goal
      BY <1>0, <2>1, <3>1, <3>2 DEF NodeStep, CmdStep, TypeOK
    <3>4. Judged(r, t, "success", "judged")
      BY <1>0, <1>2, <2>1, <2>3, Judges DEF ScriptEnds
    <3> QED BY <3>3, <3>4 DEF Verdict, Stepped
  <2> QED BY <1>9, <2>2, <2>3 DEF ExecuteLocally
<1>10. ASSUME NEW ready, SendWhen(r, t, ready) PROVE Stepped(r, t)
  <2>1. Work(r, t, "send") /\ UNCHANGED <<plan, present, row, approval, node, approved, crashed>>
    BY <1>10 DEF SendWhen
  <2>2. CASE UNCHANGED cmd /\ Judge(r, t, "failed", "judged")
    BY <1>0, <1>1, <1>4, <2>1, <2>2 DEF Stepped
  <2>3. CASE cmd' = [cmd EXCEPT ![r][t] = "sent"] /\ Goto(r, t, "poll", work[r][t].op)
    <3>1. NodeStep(t) /\ CmdStep(r, t)
      BY <1>0, <2>1, <2>3 DEF NodeStep, CmdStep, TypeOK
    <3>2. Moved(r, t, "poll", work[r][t].op, NoRelease) /\ copy' = copy
      BY <1>0, <1>3, <2>1, <2>3
    <3> QED BY <1>0, <2>1, <3>1, <3>2 DEF Proceeds, Stepped
  <2> QED BY <1>10, <2>2, <2>3 DEF SendWhen
<1>11. CASE Poll(r, t)
  <2>1. /\ Work(r, t, "poll") /\ UNCHANGED <<plan, present, row, approval, node, approved, crashed>>
        /\ cmd[r][t] \in {"ok", "error"} /\ cmd' = [cmd EXCEPT ![r][t] = "none"]
    BY <1>11 DEF Poll
  <2>2. NodeStep(t) /\ CmdStep(r, t)
    BY <1>0, <2>1 DEF NodeStep, CmdStep, TypeOK
  <2>3. CASE cmd[r][t] = "ok"
    <3>1. node'[t] = Goal
      BY <2>1, <2>3 DEF EInv, Honest
    <3>2. Judged(r, t, "success", "judged")
      BY <1>0, <1>2, <1>11, <2>1, <2>3, Judges DEF Poll
    <3> QED BY <2>2, <3>1, <3>2 DEF Verdict, Stepped
  <2>4. CASE cmd[r][t] # "ok"
    BY <1>0, <1>4, <1>11, <2>1, <2>2, <2>4 DEF Poll, Stepped
  <2> QED BY <2>3, <2>4
<1>12. CASE Deadline(r, t)
  BY <1>0, <1>1, <1>4, <1>12 DEF Deadline, Stepped
<1>13. CASE ClientExecutes(r, t)
  <2>1. UNCHANGED <<plan, present, row, approval, pc, copy, auto, execution, approved, crashed>>
    BY <1>13 DEF ClientExecutes
  <2>2. \/ cmd' = [cmd EXCEPT ![r][t] = "ok"] /\ node' = [node EXCEPT ![t] = Goal]
        \/ cmd' = [cmd EXCEPT ![r][t] = "error"] /\ UNCHANGED node
    BY <1>13 DEF ClientExecutes, Goal
  <2>3. NodeStep(t) /\ CmdStep(r, t)
    <3>1. CASE cmd' = [cmd EXCEPT ![r][t] = "ok"] /\ node' = [node EXCEPT ![t] = Goal]
      BY <1>0, <3>1, GoalTyped DEF NodeStep, CmdStep, TypeOK
    <3>2. CASE cmd' = [cmd EXCEPT ![r][t] = "error"] /\ UNCHANGED node
      BY <1>0, <3>2 DEF NodeStep, CmdStep, TypeOK
    <3> QED BY <2>2, <3>1, <3>2
  <2> QED BY <2>1, <2>3 DEF Stepped
<1> QED
  BY <1>5, <1>6, <1>7, <1>8, <1>9, <1>10, <1>11, <1>12, <1>13
     DEF TargetStep, DetermineOperation, DetermineLocally, Execute, ExecuteContainerDeploy,
         ExecuteK8sDeploy, ExecuteGitPullDeploy

\* The steps of an execution between its batches.
Loads(r) ==
  /\ pc[r] = "load"
  /\ todo' \in [Requests -> SUBSET Targets] /\ rest' \in [Requests -> SUBSET Targets]
  /\ \A t \in present : Due(t) => t \in todo'[r]
  /\ \A q \in Requests : q # r => todo'[q] = todo[q]
  /\ pc' = [pc EXCEPT ![r] = "batch"]
  /\ UNCHANGED <<plan, present, row, approval, copy, auto, judged, work, cmd, node, approved,
                 crashed>>
Ends(r) ==
  \E status \in Statuses :
    Finished(r, status) /\ (plan.type = "blue-green" /\ status = "success" => ~HasFailed(r))
GoesOn(r) ==
  Between(r) /\ todo[r] = {} /\ plan.type = "canary" /\ ~judged[r] /\ ~HasFailed(r) /\ GoOn(r)

\* An execution does nothing else between its batches.
LEMMA Executes ==
  ASSUME TypeOK, Placed, NEW r \in Requests, Execution(r)
  PROVE  Restart \/ Loads(r) \/ StartBatch(r) \/ Ends(r) \/ GoesOn(r)
<1>1. CASE Load(r)
  <2> DEFINE first == IF plan.type = "canary" THEN Canaries(present) ELSE present
  <2>1. present \in SUBSET Targets /\ plan \in Plans
    BY DEF TypeOK
  <2>2. first \subseteq Targets
    BY <2>1 DEF Canaries, First
  <2>3. \A t \in present : Due(t) => t \in first
    BY <2>1, CanaryChosen DEF Due
  <2>4. CASE SliceFits(present)
    <3>1. todo' = [todo EXCEPT ![r] = first] /\ rest' = [rest EXCEPT ![r] = present \ first]
      BY <1>1, <2>4 DEF Load
    <3> HIDE DEF first
    <3> QED BY <1>1, <2>1, <2>2, <2>3, <2>4, <3>1 DEF Load, Loads, TypeOK
  <2> QED BY <1>1, <2>4 DEF Load
<1>2. CASE FinishRolling(r) \/ FinishCanary(r)
  <2>1. Between(r) /\ todo[r] = {} /\ plan.type # "blue-green" /\ Finish(r, "success")
    BY <1>2 DEF FinishRolling, FinishCanary
  <2> QED BY <2>1, Finishes DEF Ends, Statuses
<1>3. CASE FinishBlueGreen(r)
  <2>1. Between(r) /\ todo[r] = {}
    BY <1>3 DEF FinishBlueGreen
  <2>2. \/ HasFailed(r) /\ Finish(r, "failed")
        \/ ~HasFailed(r) /\ Finish(r, "success")
    BY <1>3 DEF FinishBlueGreen
  <2> QED BY <2>1, <2>2, Finishes DEF Ends, Statuses
<1>4. CASE JudgeCanaries(r)
  <2>1. Between(r) /\ todo[r] = {} /\ plan.type # "blue-green"
    BY <1>4 DEF JudgeCanaries
  <2>2. \/ \E status \in {"failed", "paused"} : Finish(r, status)
        \/ GoesOn(r)
    BY <1>4 DEF JudgeCanaries, GoesOn
  <2> QED BY <2>1, <2>2, Finishes DEF Ends, Statuses
<1> QED BY <1>1, <1>2, <1>3, <1>4 DEF Execution

\* Every step is one of these.
LEMMA StepKinds ==
  ASSUME EInv, [Next]_vars
  PROVE  \/ \E r \in Requests : \/ (Request(r) \/ Handler(r)) /\ Handled(r)
                               \/ Loads(r) \/ StartBatch(r) \/ Ends(r) \/ GoesOn(r)
                               \/ \E t \in Targets : Stepped(r, t)
         \/ \E t \in Targets : DeleteTarget(t)
         \/ Restart
         \/ UNCHANGED vars
<1>1. TypeOK /\ Placed
  BY DEF EInv
<1>2. ASSUME NEW r \in Requests, Request(r) \/ Handler(r) PROVE Handled(r)
  BY <1>1, <1>2, Handles
<1>3. ASSUME NEW r \in Requests, Execution(r)
      PROVE  Restart \/ Loads(r) \/ StartBatch(r) \/ Ends(r) \/ GoesOn(r)
  BY <1>1, <1>3, Executes
<1>4. ASSUME NEW r \in Requests, NEW t \in Targets, TargetStep(r, t) \/ ClientExecutes(r, t)
      PROVE  Stepped(r, t)
  BY <1>4, Steps
<1> QED BY <1>2, <1>3, <1>4 DEF Next, Crash

-----------------------------------------------------------------------------
(* Every conjunct of EInv is preserved by every step.                      *)

\* A release that has not been created satisfies the invariant.
LEMMA InitEInv == Init => EInv
<1> SUFFICES ASSUME Init PROVE EInv
  OBVIOUS
<1> USE DEF Init
<1>1. TypeOK
  BY PlanFields DEF TypeOK, TargetWork, NoWork, Operations, Approvals
<1>2. Placed /\ Worked
  BY DEF Placed, Worked, Holding, Works, NoWork
<1>3. Honest
  BY NoneIsNone DEF Honest, Deployed, NoWork
<1>4. Covered /\ CanariesDone /\ BlueGreenIsWhole
  BY DEF Covered, CanariesDone, BlueGreenIsWhole
<1> QED BY <1>1, <1>2, <1>3, <1>4 DEF EInv

\* The types are kept.
LEMMA TypedKept == ASSUME EInv, [Next]_vars PROVE TypeOK'
<1> USE DEF EInv, TypeOK
<1>1. ASSUME NEW r \in Requests, Handled(r) PROVE TypeOK'
  <2>1. copy'[r] \in Releases \union {NoRelease} /\ row' \in Releases \union {NoRelease}
    BY <1>1 DEF Handled, Known
  <2>2. copy' \in [Requests -> Releases \union {NoRelease}]
    BY <1>1, <2>1 DEF Handled
  <2>3. pc' \in [Requests -> Positions]
    BY <1>1 DEF Handled, Positions
  <2> QED BY <1>1, <2>1, <2>2, <2>3 DEF Handled, execution, Positions
<1>2. ASSUME NEW r \in Requests, Loads(r) PROVE TypeOK'
  BY <1>2 DEF Loads
<1>3. ASSUME NEW r \in Requests, StartBatch(r) PROVE TypeOK'
  <2>1. plan.op \in Operations
    BY PlanFields
  <2> DEFINE new == [pc |-> "mark", op |-> plan.op, snap |-> NoRelease]
  <2>2. new \in TargetWork /\ NoWork \in TargetWork
    BY <2>1 DEF TargetWork, NoWork, Operations
  <2> HIDE DEF new
  <2>3. work' = [work EXCEPT ![r] = [t \in Targets |-> IF t \in Batch(todo[r]) THEN new ELSE NoWork]]
    BY <1>3 DEF StartBatch, new
  <2>4. work' \in [Requests -> [Targets -> TargetWork]]
    BY <2>2, <2>3
  <2>5. todo' \in [Requests -> SUBSET Targets]
    BY <1>3 DEF StartBatch
  <2> QED BY <1>3, <2>4, <2>5 DEF StartBatch
<1>4. ASSUME NEW r \in Requests, Ends(r) PROVE TypeOK'
  BY <1>4 DEF Ends, Finished
<1>5. ASSUME NEW r \in Requests, GoesOn(r) PROVE TypeOK'
  BY <1>5 DEF GoesOn, GoOn
<1>6. ASSUME NEW r \in Requests, NEW t \in Targets, Stepped(r, t) PROVE TypeOK'
  BY <1>6 DEF Stepped, Judged, Verdict, Proceeds, Moved, NodeStep, CmdStep, execution, TargetWork
<1>7. ASSUME NEW t \in Targets, DeleteTarget(t) PROVE TypeOK'
  BY <1>7 DEF DeleteTarget, execution
<1>8. CASE Restart
  <2>1. NoWork \in TargetWork
    BY DEF NoWork, TargetWork, Operations
  <2> QED BY <1>8, <2>1 DEF Restart
<1>9. CASE UNCHANGED vars
  BY <1>9 DEF vars, execution
<1> QED BY <1>1, <1>2, <1>3, <1>4, <1>5, <1>6, <1>7, <1>8, <1>9, StepKinds

\* Who holds a copy of the row, and what it says.
LEMMA PlacedKept == ASSUME EInv, [Next]_vars PROVE Placed'
<1> USE DEF EInv, TypeOK, Placed
<1>1. ASSUME NEW r \in Requests, Handled(r) PROVE Placed'
  <2>1. \A q \in Requests : Works(q)' = Works(q) /\ judged'[q] = judged[q]
    BY <1>1 DEF Handled, execution, Works
  <2> QED BY <1>1, <2>1 DEF Handled, Known, Holding, Positions
<1>2. ASSUME NEW r \in Requests, Loads(r) PROVE Placed'
  <2>1. \A q \in Requests : Works(q)' = Works(q)
    BY <1>2 DEF Loads, Works
  <2> QED BY <1>2, <2>1 DEF Loads, Holding
<1>3. ASSUME NEW r \in Requests, StartBatch(r) PROVE Placed'
  <2>1. \A q \in Requests : q # r => Works(q)' = Works(q)
    BY <1>3 DEF StartBatch, Works
  <2> QED BY <1>3, <2>1 DEF StartBatch, Between
<1>4. ASSUME NEW r \in Requests, Ends(r) PROVE Placed'
  <2>1. \A q \in Requests : Works(q)' = Works(q)
    BY <1>4 DEF Ends, Finished, Works
  <2> QED BY <1>4, <2>1 DEF Ends, Finished, Between, Holding
<1>5. ASSUME NEW r \in Requests, GoesOn(r) PROVE Placed'
  <2>1. \A q \in Requests : Works(q)' = Works(q)
    BY <1>5 DEF GoesOn, GoOn, Works
  <2> QED BY <1>5, <2>1 DEF GoesOn, GoOn, Between
<1>6. ASSUME NEW r \in Requests, NEW t \in Targets, Stepped(r, t) PROVE Placed'
  <2>1. \A q \in Requests : q # r => Works(q)' = Works(q)
    BY <1>6 DEF Stepped, Judged, Verdict, Proceeds, Moved, execution, Works
  <2>2. CASE Judged(r, t, "running", "marked") \/ Verdict(r, t)
    <3>1. PICK s \in ResultStatuses, p \in {"marked", "judged"} : Judged(r, t, s, p)
      BY <2>2 DEF Verdict, ResultStatuses
    <3>2. \A q \in Requests : copy[q] \in Releases =>
            copy'[q] \in Releases /\ copy'[q].status = copy[q].status
      BY <3>1 DEF Judged
    <3>3. UNCHANGED <<row, approval, pc, judged>> /\ pc[r] = "batch"
      BY <3>1 DEF Judged, Moved
    <3> HIDE DEF TypeOK
    <3> QED BY <2>1, <3>2, <3>3 DEF Holding
  <2>3. CASE Proceeds(r, t)
    <3>1. row' = row \/ row' \in Releases
      BY <2>3 DEF Proceeds, Worked
    <3>2. UNCHANGED <<approval, pc, copy, judged>> /\ pc[r] = "batch"
      BY <2>3 DEF Proceeds, Moved
    <3> HIDE DEF TypeOK
    <3> QED BY <2>1, <3>1, <3>2 DEF Holding
  <2>4. CASE UNCHANGED <<plan, present, row, approval, pc, copy, auto, execution, approved, crashed>>
    <3>1. \A q \in Requests : Works(q)' = Works(q)
      BY <2>4 DEF execution, Works
    <3> QED BY <2>4, <3>1 DEF execution, Holding
  <2> QED BY <1>6, <2>2, <2>3, <2>4 DEF Stepped
<1>7. ASSUME NEW t \in Targets, DeleteTarget(t) PROVE Placed'
  <2>1. \A q \in Requests : Works(q)' = Works(q)
    BY <1>7 DEF DeleteTarget, execution, Works
  <2> QED BY <1>7, <2>1 DEF DeleteTarget, execution, Holding
<1>8. CASE Restart
  <2>1. \A q \in Requests : Works(q)' = {}
    BY <1>8 DEF Restart, Works, NoWork
  <2> QED BY <1>8, <2>1 DEF Restart, Holding
<1>9. CASE UNCHANGED vars
  <2>1. \A q \in Requests : Works(q)' = Works(q)
    BY <1>9 DEF vars, execution, Works
  <2> QED BY <1>9, <2>1 DEF vars, execution, Holding
<1> QED BY <1>1, <1>2, <1>3, <1>4, <1>5, <1>6, <1>7, <1>8, <1>9, StepKinds

\* What the goroutines of the targets do and save.
LEMMA WorkedKept == ASSUME EInv, [Next]_vars PROVE Worked'
<1> USE DEF EInv, TypeOK, Placed, Worked
<1>1. ASSUME NEW r \in Requests, Handled(r) PROVE Worked'
  <2>1. \A q \in Requests, t \in Targets : work[q][t].pc = "judged" => q # r
    BY <1>1 DEF Handled, Works
  <2> QED BY <1>1, <2>1 DEF Handled, execution, Does
<1>2. ASSUME NEW r \in Requests, Loads(r) PROVE Worked'
  BY <1>2 DEF Loads, Does
<1>3. ASSUME NEW r \in Requests, StartBatch(r) PROVE Worked'
  <2>1. \A q \in Requests, t \in Targets :
          \/ work'[q][t] = work[q][t]
          \/ work'[q][t].pc = "none"
          \/ work'[q][t].pc = "mark" /\ work'[q][t].op = plan.op
    BY <1>3 DEF StartBatch, NoWork
  <2> QED BY <1>3, <2>1 DEF StartBatch, Does
<1>4. ASSUME NEW r \in Requests, Ends(r) PROVE Worked'
  <2>1. \A t \in Targets : work[r][t].pc = "none"
    BY <1>4 DEF Ends, Finished, Between, Works
  <2> QED BY <1>4, <2>1 DEF Ends, Finished, Does
<1>5. ASSUME NEW r \in Requests, GoesOn(r) PROVE Worked'
  BY <1>5 DEF GoesOn, GoOn, Does
<1>6. ASSUME NEW r \in Requests, NEW t \in Targets, Stepped(r, t) PROVE Worked'
  <2>1. CASE Judged(r, t, "running", "marked") \/ Verdict(r, t)
    <3>1. PICK s \in ResultStatuses, p \in {"marked", "judged"} :
            Judged(r, t, s, p) /\ (p = "judged" => s \in {"success", "failed"})
      BY <2>1 DEF Verdict, ResultStatuses
    <3>2. /\ work'[r][t].pc = p /\ work'[r][t].op = work[r][t].op
          /\ work'[r][t].snap = copy'[r]
          /\ work[r][t].pc # "none" /\ pc[r] = "batch" /\ plan' = plan
          /\ \A q \in Requests, u \in Targets : q # r \/ u # t => work'[q][u] = work[q][u]
      BY <3>1 DEF Judged, Moved
    <3>3. /\ copy'[r] \in Releases /\ copy'[r].status = "running" /\ copy'[r].results[t] = s
          /\ \A q \in Requests, u \in Targets : q # r \/ u # t =>
               copy'[q].results[u] = copy[q].results[u]
      BY <3>1, <3>2 DEF Judged
    <3> HIDE DEF TypeOK
    <3> QED BY <3>1, <3>2, <3>3 DEF Does
  <2>2. CASE Proceeds(r, t)
    <3>1. PICK p \in {"check", "send", "poll", "none"}, op \in Operations :
            /\ Moved(r, t, p, op, NoRelease)
            /\ p # "none" => Does(op)
            /\ p = "check" => plan.kind \in {"script", "local"} /\ plan.op = "deploy"
      BY <2>2 DEF Proceeds
    <3>2. /\ work'[r][t].pc = p /\ work'[r][t].op = op /\ plan' = plan /\ copy' = copy
          /\ \A q \in Requests, u \in Targets : q # r \/ u # t => work'[q][u] = work[q][u]
      BY <2>2, <3>1 DEF Proceeds, Moved
    <3> HIDE DEF TypeOK
    <3> QED BY <3>1, <3>2 DEF Does
  <2>3. CASE UNCHANGED <<plan, present, row, approval, pc, copy, auto, execution, approved, crashed>>
    BY <2>3 DEF execution, Does
  <2> QED BY <1>6, <2>1, <2>2, <2>3 DEF Stepped
<1>7. ASSUME NEW t \in Targets, DeleteTarget(t) PROVE Worked'
  BY <1>7 DEF DeleteTarget, execution, Does
<1>8. CASE Restart
  BY <1>8 DEF Restart, NoWork
<1>9. CASE UNCHANGED vars
  BY <1>9 DEF vars, execution, Does
<1> QED BY <1>1, <1>2, <1>3, <1>4, <1>5, <1>6, <1>7, <1>8, <1>9, StepKinds

\* A success on record is one.
LEMMA HonestKept == ASSUME EInv, [Next]_vars PROVE Honest'
<1> USE DEF EInv, TypeOK, Placed, Honest
<1>1. ASSUME NEW r \in Requests, Handled(r) PROVE Honest'
  <2>1. Goal' = Goal /\ node' = node /\ work' = work /\ cmd' = cmd
    BY <1>1, GoalKept DEF Handled, execution
  <2>2. ASSUME NEW c, Known(c, r), NEW t \in Targets, c.results[t] = "success" PROVE node[t] = Goal
    BY <2>2 DEF Known, Deployed
  <2>3. Deployed(row)' /\ Deployed(copy[r])'
    BY <1>1, <2>1, <2>2, NoneIsNone DEF Handled, Deployed
  <2>4. \A q \in Requests : q # r => copy'[q] = copy[q]
    BY <1>1 DEF Handled
  <2>5. ASSUME NEW q \in Requests PROVE Deployed(copy[q])'
    <3>1. CASE q = r
      BY <2>3, <3>1
    <3>2. CASE q # r
      <4>1. copy'[q] = copy[q] /\ Deployed(copy[q])
        BY <2>4, <3>2
      <4> QED BY <2>1, <4>1 DEF Deployed
    <3> QED BY <3>1, <3>2
  <2> QED BY <2>1, <2>3, <2>5 DEF Deployed
<1>2. ASSUME NEW r \in Requests, Loads(r) PROVE Honest'
  BY <1>2, GoalKept DEF Loads, Deployed
<1>3. ASSUME NEW r \in Requests, StartBatch(r) PROVE Honest'
  <2>1. Goal' = Goal /\ UNCHANGED <<node, row, copy, cmd>>
    BY <1>3, GoalKept DEF StartBatch
  <2>2. \A q \in Requests, t \in Targets :
          work'[q][t] = work[q][t] \/ work'[q][t].snap = NoRelease
    BY <1>3 DEF StartBatch, NoWork
  <2>3. ASSUME NEW q \in Requests, NEW t \in Targets PROVE Deployed(work[q][t].snap)'
    <3>1. CASE work'[q][t].snap = NoRelease
      BY <3>1, NoneIsNone DEF Deployed
    <3>2. CASE work'[q][t] = work[q][t]
      <4>1. Deployed(work[q][t].snap)
        OBVIOUS
      <4> QED BY <2>1, <3>2, <4>1 DEF Deployed
    <3> QED BY <2>2, <3>1, <3>2
  <2>4. Deployed(row)' /\ \A q \in Requests : Deployed(copy[q])'
    BY <2>1 DEF Deployed
  <2> QED BY <2>1, <2>3, <2>4
<1>4. ASSUME NEW r \in Requests, Ends(r) PROVE Honest'
  <2>1. Goal' = Goal /\ UNCHANGED <<node, work, cmd>> /\ row'.results = copy[r].results
        /\ copy' = [copy EXCEPT ![r] = NoRelease] /\ copy[r] \in Releases
    BY <1>4, GoalKept DEF Ends, Finished, Between, Holding
  <2> QED BY <2>1, NoneIsNone DEF Deployed
<1>5. ASSUME NEW r \in Requests, GoesOn(r) PROVE Honest'
  BY <1>5, GoalKept DEF GoesOn, GoOn, Deployed
<1>6. ASSUME NEW r \in Requests, NEW t \in Targets, Stepped(r, t) PROVE Honest'
  <2>1. plan' = plan
    BY <1>6 DEF Stepped, Judged, Verdict, Proceeds, Moved
  <2>2. /\ Goal' = Goal
        /\ \A u \in Targets : node[u] = Goal => node'[u] = Goal'
        /\ \A q \in Requests, u \in Targets : cmd'[q][u] = "ok" => node'[u] = Goal'
    <3>1. Goal' = Goal
      BY <2>1, GoalKept
    <3>2. \A u \in Targets : node[u] = Goal => node'[u] = Goal
      BY <1>6 DEF Stepped, NodeStep
    <3>3. \A q \in Requests, u \in Targets : cmd'[q][u] = "ok" =>
            cmd[q][u] = "ok" \/ node'[u] = Goal
      BY <1>6 DEF Stepped, CmdStep
    <3> QED BY <3>1, <3>2, <3>3
  <2>3. CASE Judged(r, t, "running", "marked") \/ Verdict(r, t)
    <3>1. PICK s \in ResultStatuses, p \in {"marked", "judged"} :
            Judged(r, t, s, p) /\ (s = "success" => node'[t] = Goal)
      BY <2>3 DEF Verdict, ResultStatuses
    <3>2. /\ work'[r][t].snap = copy'[r] /\ row' = row /\ copy[r] \in Releases
          /\ \A u \in Targets : copy'[r].results[u] = IF u = t THEN s ELSE copy[r].results[u]
          /\ \A q \in Requests, u \in Targets : q # r \/ u # t => work'[q][u] = work[q][u]
          /\ \A q \in Requests : q # r => copy'[q] = copy[q]
      BY <3>1 DEF Judged, Moved
    <3> HIDE DEF TypeOK, Placed
    <3>3. Deployed(copy[r])' /\ Deployed(row)'
      BY <2>2, <3>1, <3>2 DEF Deployed
    <3>4. ASSUME NEW q \in Requests, q # r PROVE Deployed(copy[q])'
      BY <2>2, <3>2, <3>4 DEF Deployed
    <3>5. ASSUME NEW q \in Requests, NEW u \in Targets PROVE Deployed(work[q][u].snap)'
      BY <2>2, <3>2, <3>3 DEF Deployed
    <3> QED BY <2>2, <3>3, <3>4, <3>5
  <2>4. CASE Proceeds(r, t)
    <3>1. PICK p, op : Moved(r, t, p, op, NoRelease)
      BY <2>4 DEF Proceeds
    <3>2. /\ work'[r][t].snap = NoRelease /\ copy' = copy
          /\ row' = row \/ row' = work[r][t].snap
          /\ \A q \in Requests, u \in Targets : q # r \/ u # t => work'[q][u] = work[q][u]
      BY <2>4, <3>1 DEF Proceeds, Moved
    <3> HIDE DEF TypeOK, Placed
    <3>3. ASSUME NEW q \in Requests, NEW u \in Targets PROVE Deployed(work[q][u].snap)'
      BY <2>2, <3>2, NoneIsNone DEF Deployed
    <3>4. Deployed(row)' /\ \A q \in Requests : Deployed(copy[q])'
      BY <2>2, <3>2 DEF Deployed
    <3> QED BY <2>2, <3>3, <3>4
  <2>5. CASE UNCHANGED <<plan, present, row, approval, pc, copy, auto, execution, approved, crashed>>
    BY <2>2, <2>5 DEF execution, Deployed
  <2> QED BY <1>6, <2>3, <2>4, <2>5 DEF Stepped
<1>7. ASSUME NEW t \in Targets, DeleteTarget(t) PROVE Honest'
  BY <1>7, GoalKept DEF DeleteTarget, execution, Deployed
<1>8. CASE Restart
  BY <1>8, GoalKept, NoneIsNone DEF Restart, NoWork, Deployed
<1>9. CASE UNCHANGED vars
  BY <1>9, GoalKept DEF vars, execution, Deployed
<1> QED BY <1>1, <1>2, <1>3, <1>4, <1>5, <1>6, <1>7, <1>8, <1>9, StepKinds

\* Every target that is due is to be done, being done, or done.
LEMMA CoveredKept == ASSUME EInv, [Next]_vars PROVE Covered'
<1> USE DEF EInv, TypeOK, Placed, Covered
<1>1. ASSUME NEW r \in Requests, Handled(r) PROVE Covered'
  <2>1. UNCHANGED <<plan, present, todo, judged, work>> /\ pc'[r] # "batch"
        /\ \A q \in Requests : q # r => pc'[q] = pc[q] /\ copy'[q] = copy[q]
    BY <1>1 DEF Handled, execution
  <2> QED BY <2>1 DEF Due, IsCanary, Works
<1>2. ASSUME NEW r \in Requests, Loads(r) PROVE Covered'
  <2>1. \A q \in Requests : q # r => pc'[q] = pc[q] /\ todo'[q] = todo[q]
    BY <1>2 DEF Loads
  <2>2. \A t \in present : Due(t) => t \in todo'[r]
    BY <1>2 DEF Loads
  <2> QED BY <1>2, <2>1, <2>2 DEF Loads, Due, IsCanary, Works
<1>3. ASSUME NEW r \in Requests, StartBatch(r) PROVE Covered'
  <2>1. \A q \in Requests : q # r => todo'[q] = todo[q] /\ work'[q] = work[q]
    BY <1>3 DEF StartBatch
  <2>2. \A t \in Targets : t \in todo[r] => t \in todo'[r] \/ work'[r][t].pc = "mark"
    BY <1>3 DEF StartBatch
  <2>3. Works(r) = {}
    BY <1>3 DEF StartBatch, Between
  <2>4. UNCHANGED <<plan, present, pc, copy, judged>>
    BY <1>3 DEF StartBatch
  <2> QED BY <2>1, <2>2, <2>3, <2>4 DEF Due, IsCanary, Works
<1>4. ASSUME NEW r \in Requests, Ends(r) PROVE Covered'
  <2>1. UNCHANGED <<plan, present, todo, work>> /\ pc'[r] # "batch"
        /\ \A q \in Requests : q # r => pc'[q] = pc[q] /\ copy'[q] = copy[q] /\ judged'[q] = judged[q]
    BY <1>4 DEF Ends, Finished
  <2> QED BY <2>1 DEF Due, IsCanary, Works
<1>5. ASSUME NEW r \in Requests, GoesOn(r) PROVE Covered'
  <2>1. UNCHANGED <<plan, present, pc, copy, work>> /\ judged'[r]
        /\ \A q \in Requests : q # r => todo'[q] = todo[q] /\ judged'[q] = judged[q]
    BY <1>5 DEF GoesOn, GoOn
  <2> QED BY <2>1 DEF Due, IsCanary, Works
<1>6. ASSUME NEW r \in Requests, NEW t \in Targets, Stepped(r, t) PROVE Covered'
  <2>1. CASE Judged(r, t, "running", "marked") \/ Verdict(r, t)
    <3>1. PICK s \in ResultStatuses, p \in {"marked", "judged"} : Judged(r, t, s, p)
      BY <2>1 DEF Verdict, ResultStatuses
    <3>2. /\ UNCHANGED <<plan, present, pc, todo, judged>> /\ work'[r][t].pc # "none"
          /\ \A u \in Targets : u # t => copy'[r].results[u] = copy[r].results[u]
          /\ \A q \in Requests, u \in Targets : q # r \/ u # t => work'[q][u] = work[q][u]
          /\ \A q \in Requests : q # r => copy'[q] = copy[q]
      BY <3>1 DEF Judged, Moved
    <3>0. present \in SUBSET Targets
      OBVIOUS
    <3> HIDE DEF TypeOK, Placed
    <3> SUFFICES ASSUME NEW q \in Requests, pc[q] = "batch", ~judged[q],
                        NEW u \in present, Due(u)
                 PROVE  \/ u \in todo'[q] \/ work'[q][u].pc # "none"
                        \/ copy'[q].results[u] \in {"success", "failed"}
      BY <3>0, <3>2 DEF Due, IsCanary, Works
    <3>3. u \in Targets /\ (\/ u \in todo[q] \/ work[q][u].pc # "none"
                            \/ copy[q].results[u] \in {"success", "failed"})
      BY <3>0 DEF Works
    <3>4. CASE q # r
      BY <3>2, <3>3, <3>4
    <3>5. CASE q = r
      BY <3>2, <3>3, <3>5
    <3> QED BY <3>4, <3>5
  <2>2. CASE Proceeds(r, t)
    <3>1. PICK p, op : Moved(r, t, p, op, NoRelease) /\ (p = "none" => work[r][t].pc = "judged")
      BY <2>2 DEF Proceeds
    <3>2. /\ UNCHANGED <<plan, present, pc, copy, todo, judged>>
          /\ \A q \in Requests, u \in Targets : q # r \/ u # t => work'[q][u] = work[q][u]
          /\ work'[r][t].pc # "none" \/ copy[r].results[t] \in {"success", "failed"}
      BY <2>2, <3>1 DEF Proceeds, Moved, Worked
    <3>0. present \in SUBSET Targets
      OBVIOUS
    <3> HIDE DEF TypeOK, Placed
    <3> SUFFICES ASSUME NEW q \in Requests, pc[q] = "batch", ~judged[q],
                        NEW u \in present, Due(u)
                 PROVE  \/ u \in todo'[q] \/ work'[q][u].pc # "none"
                        \/ copy'[q].results[u] \in {"success", "failed"}
      BY <3>0, <3>2 DEF Due, IsCanary, Works
    <3>3. u \in Targets /\ (\/ u \in todo[q] \/ work[q][u].pc # "none"
                            \/ copy[q].results[u] \in {"success", "failed"})
      BY <3>0 DEF Works
    <3>4. CASE q # r
      BY <3>2, <3>3, <3>4
    <3>5. CASE q = r
      BY <3>2, <3>3, <3>5
    <3> QED BY <3>4, <3>5
  <2>3. CASE UNCHANGED <<plan, present, row, approval, pc, copy, auto, execution, approved, crashed>>
    BY <2>3 DEF execution, Due, IsCanary, Works
  <2> QED BY <1>6, <2>1, <2>2, <2>3 DEF Stepped
<1>7. ASSUME NEW t \in Targets, DeleteTarget(t) PROVE Covered'
  <2>1. present' \subseteq present /\ UNCHANGED <<plan, pc, copy, todo, judged, work>>
    BY <1>7 DEF DeleteTarget, execution
  <2> QED BY <2>1 DEF Due, IsCanary, Works
<1>8. CASE Restart
  BY <1>8 DEF Restart
<1>9. CASE UNCHANGED vars
  BY <1>9 DEF vars, execution, Due, IsCanary, Works
<1> QED BY <1>1, <1>2, <1>3, <1>4, <1>5, <1>6, <1>7, <1>8, <1>9, StepKinds

\* No execution goes on before its canaries are deployed.
LEMMA CanariesDoneKept == ASSUME EInv, [Next]_vars PROVE CanariesDone'
<1> USE DEF EInv, TypeOK, Placed, CanariesDone
<1>1. ASSUME NEW r \in Requests, Handled(r) PROVE CanariesDone'
  BY <1>1, GoalKept DEF Handled, execution, IsCanary
<1>2. ASSUME NEW r \in Requests, Loads(r) PROVE CanariesDone'
  BY <1>2, GoalKept DEF Loads, IsCanary
<1>3. ASSUME NEW r \in Requests, StartBatch(r) PROVE CanariesDone'
  BY <1>3, GoalKept DEF StartBatch, IsCanary
<1>4. ASSUME NEW r \in Requests, Ends(r) PROVE CanariesDone'
  <2>1. UNCHANGED <<plan, present, node>> /\ Goal' = Goal
        /\ \A q \in Requests : judged'[q] => judged[q]
    BY <1>4, GoalKept DEF Ends, Finished
  <2> QED BY <2>1 DEF IsCanary
<1>5. ASSUME NEW r \in Requests, GoesOn(r) PROVE CanariesDone'
  <2>1. /\ UNCHANGED <<plan, present, node>> /\ plan.type = "canary"
        /\ \A q \in Requests : q # r => judged'[q] = judged[q]
        /\ pc[r] = "batch" /\ Works(r) = {} /\ todo[r] = {} /\ ~judged[r] /\ ~HasFailed(r)
    BY <1>5 DEF GoesOn, GoOn, Between
  <2>2. ASSUME NEW c \in present, IsCanary(c) PROVE node[c] = Goal
    <3>1. copy[r].results[c] = "success"
      BY <2>1, <2>2 DEF Covered, Due, HasFailed
    <3>2. copy[r] \in Releases
      BY <2>1 DEF Holding
    <3> QED BY <3>1, <3>2 DEF Honest, Deployed
  <2> QED BY <2>1, <2>2, GoalKept DEF IsCanary
<1>6. ASSUME NEW r \in Requests, NEW t \in Targets, Stepped(r, t) PROVE CanariesDone'
  <2>1. UNCHANGED <<plan, present, judged>> /\ Goal' = Goal
    BY <1>6, GoalKept DEF Stepped, Judged, Verdict, Proceeds, Moved, execution
  <2>2. \A u \in Targets : node[u] = Goal => node'[u] = Goal
    BY <1>6 DEF Stepped, NodeStep
  <2> QED BY <2>1, <2>2 DEF IsCanary
<1>7. ASSUME NEW t \in Targets, DeleteTarget(t) PROVE CanariesDone'
  <2>1. present' \subseteq present /\ UNCHANGED <<plan, judged, node>>
    BY <1>7 DEF DeleteTarget, execution
  <2> QED BY <2>1, GoalKept DEF IsCanary
<1>8. CASE Restart
  BY <1>8 DEF Restart
<1>9. CASE UNCHANGED vars
  BY <1>9, GoalKept DEF vars, execution, IsCanary
<1> QED BY <1>1, <1>2, <1>3, <1>4, <1>5, <1>6, <1>7, <1>8, <1>9, StepKinds

\* A blue-green release that succeeded has succeeded everywhere.
LEMMA BlueGreenKept == ASSUME EInv, [Next]_vars PROVE BlueGreenIsWhole'
<1> USE DEF EInv, TypeOK, Placed, BlueGreenIsWhole
<1>1. ASSUME NEW r \in Requests, Handled(r) PROVE BlueGreenIsWhole'
  BY <1>1 DEF Handled, execution
<1>2. ASSUME NEW r \in Requests, Loads(r) PROVE BlueGreenIsWhole'
  BY <1>2 DEF Loads
<1>3. ASSUME NEW r \in Requests, StartBatch(r) PROVE BlueGreenIsWhole'
  BY <1>3 DEF StartBatch
<1>4. ASSUME NEW r \in Requests, Ends(r) PROVE BlueGreenIsWhole'
  <2>1. PICK status \in Statuses :
          Finished(r, status) /\ (plan.type = "blue-green" /\ status = "success" => ~HasFailed(r))
    BY <1>4 DEF Ends
  <2>2. /\ UNCHANGED <<plan, present>> /\ row'.status = status /\ row'.results = copy[r].results
        /\ pc[r] = "batch" /\ Works(r) = {} /\ todo[r] = {}
    BY <2>1 DEF Finished, Between
  <2>3. ASSUME plan.type = "blue-green", status = "success", NEW t \in present
        PROVE  copy[r].results[t] = "success"
    <3>1. ~judged[r]
      BY <2>3 DEF CanariesDone
    <3> QED BY <2>1, <2>2, <2>3, <3>1 DEF Covered, Due, HasFailed
  <2> QED BY <2>2, <2>3
<1>5. ASSUME NEW r \in Requests, GoesOn(r) PROVE BlueGreenIsWhole'
  BY <1>5 DEF GoesOn, GoOn
<1>6. ASSUME NEW r \in Requests, NEW t \in Targets, Stepped(r, t) PROVE BlueGreenIsWhole'
  <2>1. UNCHANGED <<plan, present>>
    BY <1>6 DEF Stepped, Judged, Verdict, Proceeds, Moved
  <2>2. row' = row \/ row'.status = "running"
    BY <1>6 DEF Stepped, Judged, Verdict, Proceeds, Worked
  <2> QED BY <2>1, <2>2
<1>7. ASSUME NEW t \in Targets, DeleteTarget(t) PROVE BlueGreenIsWhole'
  <2>1. present' \subseteq present /\ UNCHANGED <<plan, row>>
    BY <1>7 DEF DeleteTarget
  <2> QED BY <2>1
<1>8. CASE Restart
  BY <1>8 DEF Restart
<1>9. CASE UNCHANGED vars
  BY <1>9 DEF vars
<1> QED BY <1>1, <1>2, <1>3, <1>4, <1>5, <1>6, <1>7, <1>8, <1>9, StepKinds

-----------------------------------------------------------------------------
(* What the steps do not preserve by themselves, they preserve together.    *)

\* The invariant, for any number of targets, requests and overlapping
\* executions of one release: what every copy of the row, every snapshot and
\* every command says stays true of the targets (pkg/release/engine).
THEOREM EngineInvariant == Spec => []EInv
<1>1. Init => EInv
  BY InitEInv
<1>2. EInv /\ [Next]_vars => EInv'
  BY TypedKept, PlacedKept, WorkedKept, HonestKept, CoveredKept, CanariesDoneKept,
     BlueGreenKept DEF EInv
<1> QED BY <1>1, <1>2, PTL DEF Spec

\* Type correctness of a release, its requests, executions and goroutines.
THEOREM ReleaseTypeCorrect == Spec => []TypeOK
<1>1. EInv => TypeOK
  BY DEF EInv
<1> QED BY <1>1, EngineInvariant, PTL

\* A release is whole: canaries come first, a success on record has been
\* deployed, and a blue-green success is one on every target that is left, for
\* any list of targets, any strategy and any overlap of executions, answers,
\* deadlines and saves (executeCanary, executeBlueGreen, executeTarget,
\* waitForCompletion).
THEOREM ReleasesAlwaysWhole == Spec => []ReleasesAreWhole
<1>1. EInv => ReleasesAreWhole
  <2> SUFFICES ASSUME EInv PROVE ReleasesAreWhole
    OBVIOUS
  <2>1. CanariesFirst
    BY DEF EInv, CanariesDone, CanariesFirst, Goal
  <2>2. SuccessIsDeployed
    BY DEF EInv, TypeOK, Honest, Deployed, SuccessIsDeployed, Goal
  <2> QED BY <2>1, <2>2 DEF EInv, ReleasesAreWhole
<1> QED BY <1>1, EngineInvariant, PTL

\* What StartRelease read of the approval is still true when it launches.
LEMMA PermittedKept ==
  ASSUME EInv, Permitted, [Next]_vars
  PROVE  Permitted'
<1> USE DEF Permitted
<1>1. ASSUME NEW r \in Requests, Handled(r) PROVE Permitted'
  <2>1. /\ plan' = plan /\ (approved => approved')
        /\ approval' = "approved" => approval = "approved" \/ approved'
        /\ pc'[r] = "start" => MayStart /\ copy'[r] = row
        /\ \A q \in Requests : q # r => pc'[q] = pc[q] /\ copy'[q] = copy[q]
    BY <1>1 DEF Handled, EInv, TypeOK
  <2>2. pc'[r] = "start" => approved' \/ copy'[r].status = "pending"
    BY <2>1 DEF MayStart, StartsFrom
  <2> QED BY <2>1, <2>2
<1>2. ASSUME NEW r \in Requests, Loads(r) \/ Ends(r) PROVE Permitted'
  <2>1. /\ UNCHANGED <<plan, approval, approved>> /\ pc'[r] # "start"
        /\ \A q \in Requests : q # r => pc'[q] = pc[q] /\ copy'[q] = copy[q]
    BY <1>2 DEF Loads, Ends, Finished, EInv, TypeOK
  <2> QED BY <2>1
<1>3. ASSUME NEW r \in Requests, StartBatch(r) \/ GoesOn(r) PROVE Permitted'
  BY <1>3 DEF StartBatch, GoesOn, GoOn
<1>4. ASSUME NEW r \in Requests, NEW t \in Targets, Stepped(r, t) PROVE Permitted'
  <2>1. UNCHANGED <<plan, approval, approved, pc>>
    BY <1>4 DEF Stepped, Judged, Verdict, Proceeds, Moved
  <2>2. \A q \in Requests : pc[q] = "start" => copy'[q] = copy[q]
    BY <1>4 DEF Stepped, Judged, Verdict, Proceeds, Moved
  <2> QED BY <2>1, <2>2
<1>5. ASSUME NEW t \in Targets, DeleteTarget(t) PROVE Permitted'
  BY <1>5 DEF DeleteTarget
<1>6. CASE Restart
  BY <1>6 DEF Restart
<1>7. CASE UNCHANGED vars
  BY <1>7 DEF vars
<1> QED BY <1>1, <1>2, <1>3, <1>4, <1>5, <1>6, <1>7, StepKinds

\* Nothing that is left of a cancelled release brings it back.
LEMMA CancelledKept ==
  ASSUME EInv, [Next]_vars, row # NoRelease, row.status = "cancelled", ~Held
  PROVE  row' = row /\ ~Held'
<1> USE DEF Held
<1>0. row \in Releases /\ pc \in [Requests -> Positions]
  BY DEF EInv, TypeOK, Positions
<1>1. ASSUME NEW r \in Requests, Request(r) PROVE row' = row /\ ~Held'
  BY <1>0, <1>1
     DEF Request, CreateRelease, StartRelease, ApproveRelease, RejectRelease, CancelRelease,
         PromoteCanary, Arrive, Done, At, MayStart, StartsFrom
<1>2. ASSUME NEW r \in Requests, Handler(r) PROVE row' = row /\ ~Held'
  <2>1. RejectedRelease(r)
    BY <1>2 DEF Handler, SaveApproving, CreateApproval, Launch, LaunchOf, CancelledRelease, Promoted
  <2>2. WithStatus(row, "cancelled") = row
    BY <1>0 DEF WithStatus, Releases
  <2> QED BY <1>0, <2>1, <2>2 DEF RejectedRelease, Done, At
<1>3. ASSUME NEW r \in Requests, Loads(r) \/ StartBatch(r) \/ Ends(r) \/ GoesOn(r)
      PROVE  row' = row /\ ~Held'
  BY <1>3 DEF Loads, StartBatch, Ends, Finished, GoesOn, Between
<1>4. ASSUME NEW r \in Requests, NEW t \in Targets, Stepped(r, t) PROVE row' = row /\ ~Held'
  BY <1>4 DEF Stepped, Judged, Verdict, Proceeds, Moved
<1>5. ASSUME NEW t \in Targets, DeleteTarget(t) PROVE row' = row /\ ~Held'
  BY <1>5 DEF DeleteTarget
<1>6. CASE Restart
  BY <1>6 DEF Restart
<1>7. CASE UNCHANGED vars
  BY <1>7 DEF vars
<1> QED BY <1>1, <1>2, <1>3, <1>4, <1>5, <1>6, <1>7, StepKinds

\* Executions start only where the row allowed it: launched without the
\* approval it wants only by a start that read the row too early, and never
\* after a cancellation that nobody was overtaking (StartRelease,
\* ApproveRelease, RejectRelease, CancelRelease).
THEOREM StartsAlwaysAllowed == Spec => StartsAreAllowed
<1>1. Init => Permitted
  BY DEF Init, Permitted
<1>2. EInv /\ Permitted /\ [Next]_vars => Permitted'
  BY PermittedKept
<1>3. Spec => []Permitted
  BY <1>1, <1>2, EngineInvariant, PTL DEF Spec
<1>4. Permitted =>
        [\A r \in Requests :
           Launch(r) /\ plan.approval => approved \/ copy[r].status = "pending"]_vars
  BY DEF Permitted, Launch, LaunchOf
<1>5. EInv /\ [Next]_vars =>
        [row # NoRelease /\ row.status = "cancelled" /\ ~Held => row' = row /\ ~Held']_vars
  BY CancelledKept
<1>6. Spec => UnapprovedOnlyEarly
  BY <1>3, <1>4, PTL DEF UnapprovedOnlyEarly
<1>7. Spec => CancelledStays
  BY <1>5, EngineInvariant, PTL DEF CancelledStays, Spec
<1> QED BY <1>6, <1>7 DEF StartsAreAllowed

=============================================================================
