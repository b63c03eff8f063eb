-------------------------- MODULE DeployTaskProofs --------------------------
(***************************************************************************)
(* What holds of DeployTask for any list of clients, any configurations    *)
(* and any number of overlapping requests.                                 *)
(***************************************************************************)
EXTENDS DeployTask, FiniteSetTheorems, TLAPS

\* A run that has arrived, with its copy of the row.
Runs == [op : Ops, task : Tasks, todo : Seq(Clients), tried : Seq(Clients),
         failures : SUBSET Clients,
         pc : {"read", "resave", "prepare", "next", "deploy", "ok", "err", "stop", "undo",
               "lost", "done"}]

Typed ==
  /\ plan \in Plans
  /\ row \in Tasks
  /\ run \in [Requests -> Runs \cup {Idle}]
  /\ undoing \subseteq Requests \X Clients
  /\ node \in [Clients -> {"old", "new"}]
  /\ undone \subseteq Clients
  /\ promoted \in BOOLEAN

Executing == {"next", "deploy", "ok", "err"}

\* Which requests get where, and with which copy: only StartDeployTask and
\* PromoteDeployTask execute, on a copy that is in the canary phase or running.
PhaseOf(x) ==
  /\ x.pc = "read" => /\ x.tried = <<>> /\ x.failures = {}
                      /\ x.task.status \in Admits(x.op)
  /\ x.pc \in {"resave", "prepare", "stop", "lost"} \cup Executing =>
       /\ x.op \in {"start", "promote"}
       /\ x.task.status \in {"canary", "running"}
  /\ x.op = "start" => x.pc # "resave"
  /\ x.pc = "undo" => x.op = "rollback"
  /\ x.pc \in {"deploy", "ok", "err"} => x.todo # <<>>
  /\ x.op \notin {"start", "promote"} => x.tried = <<>>
Promoting(x) == x.op = "promote" /\ x.pc # "read"
Phases == \A r \in Arrived : PhaseOf(run[r]) /\ (Promoting(run[r]) => promoted)

\* Until a promotion every run works on the canary share.
ShareOf(x) ==
  /\ ToSet(x.tried) \subseteq Canaries
  /\ x.op = "start" /\ x.pc \in {"prepare"} \cup Executing => x.task.status = "canary"
  /\ x.pc \in Executing => ToSet(x.todo) \subseteq Canaries
Share == plan.canary /\ ~promoted => \A r \in Arrived : ShareOf(run[r])

\* A client that was given the new version keeps it, or is rolled back.
Renewed(c) == node[c] = "new" \/ c \in undone

\* A run over all clients that has not failed yet has left a success behind for
\* everyone it has passed.
PassedBy(x) ==
  /\ x.pc \in Executing /\ x.task.status = "running" /\ x.task.failed = 0 =>
       \A c \in Tracked : c \in ToSet(x.todo) \/ (x.task.results[c] = "success" /\ Renewed(c))
  /\ x.pc = "ok" => Renewed(Head(x.todo))
Passed == \A r \in Arrived : PassedBy(run[r])

\* The counters of a copy are those of its results, unless a rollback has
\* changed results.
In(t, S) == {c \in Tracked : t.results[c] \in S}
Matches(t) ==
  In(t, {"rollback"}) = {} =>
    /\ t.success = Cardinality(In(t, {"success"}))
    /\ t.failed  = Cardinality(In(t, {"failed"}))
    /\ t.pending = Cardinality(In(t, {"pending", "running"}))
Fresh(t) == \A c \in Tracked : t.results[c] = "pending"

\* A run before any promotion counts every client once.
AccountOf(x) ==
  /\ Matches(x.task)
  /\ x.op = "start" /\ x.pc \in {"read", "prepare"} => Fresh(x.task)
  /\ x.op = "start" /\ x.pc \in Executing =>
       /\ \A i \in 1 .. Len(x.todo) :
             x.todo[i] \in Tracked => x.task.results[x.todo[i]] \in {"pending", "running"}
       /\ \A i, j \in 1 .. Len(x.todo) : x.todo[i] = x.todo[j] => i = j
Accounted ==
  ~promoted =>
    /\ Matches(row)
    /\ row.status \in {"pending", "scheduled"} => Fresh(row)
    /\ \A r \in Arrived : AccountOf(run[r])

\* A run that stops at a failure has none before it.
UnfailedIs(x) ==
  /\ x.pc \in {"resave", "prepare", "next", "deploy", "ok"} => x.failures = {}
  /\ x.failures # {} => x.tried # <<>> /\ x.failures = {Last(x.tried)}
Unfailed == plan.strategy # "continue" => \A r \in Arrived : UnfailedIs(run[r])

DInv ==
  /\ Typed /\ Phases /\ Share /\ Passed /\ CompletedIsDeployed /\ Accounted /\ Unfailed

-----------------------------------------------------------------------------
(* The list of clients and the canary share.                               *)

\* No client is twice in the list.
LEMMA ListFacts ==
  /\ N \in Nat /\ N > 0
  /\ ClientIDs \in [1 .. N -> Clients]
  /\ Clients = {ClientIDs[i] : i \in 1 .. N}
  /\ IsFiniteSet(Clients)
  /\ \A i, j \in 1 .. N : ClientIDs[i] = ClientIDs[j] => i = j
<1>1. /\ N \in Nat /\ N > 0
      /\ ClientIDs \in [1 .. N -> Clients]
      /\ Clients = {ClientIDs[i] : i \in 1 .. N}
  BY DeployAssumption DEF N, Clients, ToSet
<1>2. ClientIDs \in Surjection(1 .. N, Clients)
  BY <1>1 DEF Surjection
<1>3. IsFiniteSet(1 .. N) /\ Cardinality(1 .. N) = N
  BY <1>1, FS_Interval
<1>4. IsFiniteSet(Clients) /\ ClientIDs \in Injection(1 .. N, Clients)
  BY <1>2, <1>3, DeployAssumption, FS_Surjection
<1> QED BY <1>1, <1>4 DEF Injection, IsInjective

\* A percentage of a number does not pass it.
LEMMA PercentFits ==
  ASSUME NEW n \in Nat, NEW p \in 1 .. 100
  PROVE  (n * p) \div 100 \in Nat /\ (n * p) \div 100 <= n
<1>1. n * p <= n * 100
  OBVIOUS
<1> QED BY <1>1

\* The share has at least one client and is part of the list.
LEMMA ShareFits ==
  ASSUME plan \in Plans
  PROVE  CanaryCount \in 1 .. N
<1>1. plan.percent \in 1 .. 100
  BY DeployAssumption
<1> DEFINE share == (N * plan.percent) \div 100
<1>2. share \in Nat /\ share <= N
  BY <1>1, ListFacts, PercentFits
<1>3. CanaryCount = IF share < 1 THEN 1 ELSE share
  BY DEF CanaryCount
<1> HIDE DEF share
<1> QED BY <1>2, <1>3, ListFacts

\* What a run executes on is taken from the list: all of it, or the share.
LEMMA ExecuteFacts ==
  ASSUME plan \in Plans, NEW t
  PROVE  /\ ClientsToExecute(t) \in Seq(Clients)
         /\ plan.canary /\ t.status = "canary" => ToSet(ClientsToExecute(t)) = Canaries
         /\ t.status # "canary" => ToSet(ClientsToExecute(t)) = Clients
         /\ \A i, j \in 1 .. Len(ClientsToExecute(t)) :
               ClientsToExecute(t)[i] = ClientsToExecute(t)[j] => i = j
<1>1. ClientIDs \in Seq(Clients) /\ Len(ClientIDs) = N
  BY DeployAssumption DEF N
<1>2. CASE plan.canary /\ t.status = "canary"
  <2> DEFINE s == SubSeq(ClientIDs, 1, CanaryCount)
  <2>1. /\ s \in Seq(Clients) /\ Len(s) = CanaryCount
        /\ \A i \in 1 .. CanaryCount : s[i] = ClientIDs[i]
    BY <1>1, ShareFits, ListFacts
  <2>2. DOMAIN s = 1 .. CanaryCount
    BY <2>1
  <2> HIDE DEF s
  <2>3. ToSet(s) = Canaries
    BY <2>1, <2>2 DEF ToSet, Canaries
  <2>4. \A i, j \in 1 .. Len(s) : s[i] = s[j] => i = j
    BY <2>1, ShareFits, ListFacts
  <2> QED BY <1>2, <2>1, <2>3, <2>4 DEF ClientsToExecute, s
<1>3. CASE ~(plan.canary /\ t.status = "canary")
  <2>1. ClientsToExecute(t) = ClientIDs
    BY <1>3 DEF ClientsToExecute
  <2> QED BY <1>1, <1>3, <2>1, ListFacts DEF Clients
<1> QED BY <1>2, <1>3

\* The head and the tail of a list of clients that is not empty.
LEMMA TailFacts ==
  ASSUME NEW S, NEW s \in Seq(S), s # <<>>
  PROVE  /\ Head(s) \in S /\ Tail(s) \in Seq(S) /\ Head(s) \in ToSet(s)
         /\ ToSet(s) = ToSet(Tail(s)) \cup {Head(s)}
         /\ \A i \in 1 .. Len(Tail(s)) : i + 1 \in 1 .. Len(s) /\ Tail(s)[i] = s[i + 1]
<1>1. /\ Len(s) \in Nat /\ Len(s) > 0 /\ Head(s) = s[1] /\ s[1] \in S
      /\ Tail(s) \in Seq(S) /\ Len(Tail(s)) = Len(s) - 1
      /\ \A i \in 1 .. Len(s) - 1 : Tail(s)[i] = s[i + 1]
  OBVIOUS
<1>2. DOMAIN s = 1 .. Len(s) /\ DOMAIN Tail(s) = 1 .. Len(s) - 1
  BY <1>1
<1>3. ASSUME NEW i \in 1 .. Len(s) PROVE s[i] = Head(s) \/ \E j \in DOMAIN Tail(s) : Tail(s)[j] = s[i]
  <2>1. CASE i = 1
    BY <1>1, <2>1
  <2>2. CASE i # 1
    <3>1. i - 1 \in 1 .. Len(s) - 1 /\ (i - 1) + 1 = i
      BY <1>1, <2>2
    <3> QED BY <1>1, <1>2, <3>1
  <2> QED BY <2>1, <2>2
<1>4. ASSUME NEW i \in DOMAIN Tail(s) PROVE i + 1 \in DOMAIN s /\ Tail(s)[i] = s[i + 1]
  BY <1>1, <1>2, <1>4
<1>5. ToSet(s) \subseteq ToSet(Tail(s)) \cup {Head(s)}
  BY <1>2, <1>3 DEF ToSet
<1>6. ToSet(Tail(s)) \cup {Head(s)} \subseteq ToSet(s)
  BY <1>1, <1>2, <1>4 DEF ToSet
<1> QED BY <1>1, <1>2, <1>4, <1>5, <1>6 DEF ToSet

\* What Append adds to a list, and where.
LEMMA AppendFacts ==
  ASSUME NEW S, NEW s \in Seq(S), NEW e \in S
  PROVE  /\ Append(s, e) \in Seq(S) /\ Append(s, e) # <<>>
         /\ ToSet(Append(s, e)) = ToSet(s) \cup {e}
         /\ Last(Append(s, e)) = e
BY DEF ToSet, Last

-----------------------------------------------------------------------------
(* A copy of the row and the outcome it is given.                          *)

\* Writing one result leaves the status and the counters of the row alone.
LEMMA WithResultFields ==
  ASSUME NEW t \in Tasks, NEW c, NEW s \in ResultStatuses
  PROVE  /\ WithResult(t, c, s) \in Tasks
         /\ WithResult(t, c, s).status = t.status
         /\ WithResult(t, c, s).success = t.success
         /\ WithResult(t, c, s).failed = t.failed
         /\ WithResult(t, c, s).pending = t.pending
         /\ \A d \in Tracked : WithResult(t, c, s).results[d] = IF d = c THEN s ELSE t.results[d]
BY DEF WithResult, Tasks

\* Writing the status leaves the results and the counters alone.
LEMMA CopyFields ==
  ASSUME NEW r, run[r].task \in Tasks, NEW s \in Statuses
  PROVE  /\ Copy(r, s) \in Tasks
         /\ Copy(r, s).status = s
         /\ Copy(r, s).success = run[r].task.success
         /\ Copy(r, s).failed = run[r].task.failed
         /\ Copy(r, s).pending = run[r].task.pending
         /\ Copy(r, s).results = run[r].task.results
BY DEF Copy, Tasks

\* Counting an outcome moves one client from pending to success or failed, if the
\* row keeps a result for it.
LEMMA CountedFields ==
  ASSUME NEW t \in Tasks, NEW c \in Clients, NEW ok \in BOOLEAN
  PROVE  /\ Counted(t, c, ok) \in Tasks
         /\ Counted(t, c, ok).status = t.status
         /\ c \notin Tracked => Counted(t, c, ok) = t
         /\ c \in Tracked =>
              /\ Counted(t, c, ok).success = IF ok THEN t.success + 1 ELSE t.success
              /\ Counted(t, c, ok).failed = IF ok THEN t.failed ELSE t.failed + 1
              /\ Counted(t, c, ok).pending = t.pending - 1
              /\ \A d \in Tracked : Counted(t, c, ok).results[d] =
                   IF d = c THEN IF ok THEN "success" ELSE "failed" ELSE t.results[d]
<1>1. DOMAIN t.results = Tracked
  BY DEF Tasks
<1>2. CASE c \notin Tracked
  BY <1>1, <1>2 DEF Counted
<1>3. CASE c \in Tracked
  <2> DEFINE s == IF ok THEN "success" ELSE "failed"
             u == WithResult(t, c, s)
             more == IF ok THEN u.success + 1 ELSE u.success
             worse == IF ok THEN u.failed ELSE u.failed + 1
             rest == u.pending - 1
             v == [u EXCEPT !.success = more, !.failed = worse, !.pending = rest]
  <2>1. s \in ResultStatuses
    BY DEF ResultStatuses
  <2>2. /\ u \in Tasks /\ u.status = t.status /\ u.success = t.success /\ u.failed = t.failed
        /\ u.pending = t.pending
        /\ \A d \in Tracked : u.results[d] = IF d = c THEN s ELSE t.results[d]
    BY <2>1, WithResultFields
  <2>3. Counted(t, c, ok) = v
    BY <1>1, <1>3 DEF Counted
  <2> HIDE DEF u
  <2>4. more \in Nat /\ worse \in Nat /\ rest \in Int
    BY <2>2 DEF Tasks
  <2> HIDE DEF more, worse, rest
  <2>5. /\ v \in Tasks /\ v.status = u.status /\ v.results = u.results
        /\ v.success = more /\ v.failed = worse /\ v.pending = rest
    BY <2>2, <2>4 DEF Tasks
  <2> HIDE DEF v
  <2> QED BY <1>3, <2>2, <2>3, <2>5 DEF more, worse, rest
<1> QED BY <1>2, <1>3

-----------------------------------------------------------------------------
(* What every step does.                                                   *)

\* Run r goes on at pc with the copy t and the list todo; the others stay.
Moved(r, pc, t, todo) ==
  /\ run[r] \in Runs
  /\ run' \in [Requests -> Runs \cup {Idle}]
  /\ run'[r] \in Runs
  /\ run'[r].op = run[r].op /\ run'[r].pc = pc /\ run'[r].task = t /\ run'[r].todo = todo
  /\ \A q \in Requests : q # r => run'[q] = run[q]
SameTries(r) == run'[r].tried = run[r].tried /\ run'[r].failures = run[r].failures

\* A request has arrived when it has a copy of the row.
LEMMA RunFacts ==
  ASSUME Typed, NEW r \in Requests
  PROVE  /\ r \in Arrived <=> run[r] \in Runs
         /\ r \in Arrived <=> run[r].pc # "idle"
BY DEF Typed, Runs, Idle, Arrived

\* A request that has not arrived has none.
LEMMA RunsNotIdle == Idle \notin Runs
BY DEF Runs, Idle

\* A handler reads a row in one of the statuses it admits and keeps a copy.
LEMMA ReadEffect ==
  ASSUME Typed, NEW r \in Requests, NEW op \in Ops, Read(r, op)
  PROVE  /\ r \notin Arrived
         /\ row.status \in Admits(op)
         /\ run' \in [Requests -> Runs \cup {Idle}]
         /\ run'[r] \in Runs
         /\ run'[r].op = op /\ run'[r].pc = "read" /\ run'[r].task = row /\ run'[r].todo = <<>>
         /\ run'[r].tried = <<>> /\ run'[r].failures = {}
         /\ \A q \in Requests : q # r => run'[q] = run[q]
         /\ UNCHANGED <<plan, row, undoing, node, undone, promoted>>
<1> DEFINE y == [op |-> op, pc |-> "read", task |-> row, todo |-> <<>>,
                 tried |-> <<>>, failures |-> {}]
<1>1. r \notin Arrived
  BY DEF Read, Requests
<1>2. y \in Runs
  BY DEF Typed, Runs
<1>3. run' = [run EXCEPT ![r] = y]
  BY DEF Read
<1> QED BY <1>1, <1>2, <1>3 DEF Read, Typed

\* The step of a run that only sets where it is and its copy.
LEMMA StepEffect ==
  ASSUME Typed, NEW r \in Arrived, NEW t \in Tasks, NEW pc, Step(r, pc, t),
         pc \in {"resave", "prepare", "next", "deploy", "ok", "err", "stop", "lost", "done"}
  PROVE  Moved(r, pc, t, run[r].todo) /\ SameTries(r)
<1>1. r \in Requests /\ run[r] \in Runs
  BY RunFacts DEF Arrived
<1> DEFINE y == [run[r] EXCEPT !.pc = pc, !.task = t]
<1>2. run' = [run EXCEPT ![r] = y]
  BY <1>1 DEF Step, Typed
<1>3. y \in Runs /\ y.op = run[r].op /\ y.pc = pc /\ y.task = t /\ y.todo = run[r].todo
      /\ y.tried = run[r].tried /\ y.failures = run[r].failures
  BY <1>1 DEF Runs
<1> HIDE DEF y
<1> QED BY <1>1, <1>2, <1>3 DEF Moved, SameTries, Typed

\* Start, Cancel, Pause, Promote and Rollback.
LEMMA WriteEffect ==
  ASSUME Typed, NEW r \in Requests, Write(r)
  PROVE  /\ r \in Arrived /\ run[r].pc = "read"
         /\ SameTries(r)
         /\ UNCHANGED <<plan, undoing, node, undone>>
         /\ \/ /\ run[r].op = "start"
               /\ \E s \in {"canary", "running"} :
                    /\ plan.canary => s = "canary"
                    /\ Moved(r, "prepare", Copy(r, s), run[r].todo) /\ row' = Copy(r, s)
               /\ promoted' = promoted
            \/ /\ run[r].op \in {"cancel", "pause"}
               /\ \E s \in {"cancelled", "paused"} :
                    Moved(r, "done", Copy(r, s), run[r].todo) /\ row' = Copy(r, s)
               /\ promoted' = promoted
            \/ /\ run[r].op = "promote"
               /\ Moved(r, "resave", Copy(r, "running"), run[r].todo)
               /\ row' = Copy(r, "running")
               /\ promoted'
            \/ /\ run[r].op = "rollback"
               /\ \E pc \in {"done", "undo"} : Moved(r, pc, run[r].task, ClientIDs)
               /\ row' = row /\ promoted' = promoted
<1>1. r \in Arrived /\ run[r].pc = "read" /\ run[r] \in Runs
  BY RunFacts DEF Write
<1>2. run[r].task \in Tasks
  BY <1>1 DEF Runs
<1>3. \A s \in {"canary", "running", "cancelled", "paused"} : Copy(r, s) \in Tasks
  BY <1>2, CopyFields DEF Statuses
<1>4. ASSUME Start(r) PROVE
        /\ \E s \in {"canary", "running"} :
             /\ plan.canary => s = "canary"
             /\ Moved(r, "prepare", Copy(r, s), run[r].todo) /\ row' = Copy(r, s)
        /\ SameTries(r)
  <2> PICK s \in {"canary", "running"} :
        /\ plan.canary => s = "canary"
        /\ row' = Copy(r, s) /\ Step(r, "prepare", Copy(r, s))
    BY <1>4 DEF Start, Save
  <2> QED BY <1>1, <1>3, StepEffect
<1>5. ASSUME Cancel(r) \/ Pause(r) PROVE
        /\ \E s \in {"cancelled", "paused"} :
             Moved(r, "done", Copy(r, s), run[r].todo) /\ row' = Copy(r, s)
        /\ SameTries(r)
  <2> PICK s \in {"cancelled", "paused"} : row' = Copy(r, s) /\ Step(r, "done", Copy(r, s))
    BY <1>5 DEF Cancel, Pause, Save
  <2> QED BY <1>1, <1>3, StepEffect
<1>6. ASSUME Promote(r) PROVE
        /\ Moved(r, "resave", Copy(r, "running"), run[r].todo) /\ row' = Copy(r, "running")
        /\ SameTries(r)
  BY <1>1, <1>3, <1>6, StepEffect DEF Promote, Save
<1>7. ASSUME Rollback(r) PROVE
        /\ \E pc \in {"done", "undo"} : Moved(r, pc, run[r].task, ClientIDs)
        /\ SameTries(r)
  <2> PICK pc \in {"done", "undo"} : run' = [run EXCEPT ![r].pc = pc, ![r].todo = ClientIDs]
    BY <1>7 DEF Rollback
  <2> DEFINE y == [run[r] EXCEPT !.pc = pc, !.todo = ClientIDs]
  <2>1. run' = [run EXCEPT ![r] = y]
    BY DEF Typed
  <2>2. y \in Runs /\ y.op = run[r].op /\ y.pc = pc /\ y.task = run[r].task
        /\ y.todo = ClientIDs /\ y.tried = run[r].tried /\ y.failures = run[r].failures
    BY <1>1, DeployAssumption DEF Runs
  <2> HIDE DEF y
  <2>3. Moved(r, pc, run[r].task, ClientIDs) /\ SameTries(r)
    BY <1>1, <2>1, <2>2 DEF Moved, SameTries, Typed
  <2> QED BY <2>3
<1>8. UNCHANGED <<plan, undoing, node, undone>>
  BY DEF Write
<1>9. CASE Start(r)
  BY <1>1, <1>4, <1>8, <1>9 DEF Start
<1>10. CASE Cancel(r) \/ Pause(r)
  BY <1>1, <1>5, <1>8, <1>10 DEF Cancel, Pause
<1>11. CASE Promote(r)
  BY <1>1, <1>6, <1>8, <1>11 DEF Promote
<1>12. CASE Rollback(r)
  BY <1>1, <1>7, <1>8, <1>12 DEF Rollback
<1> QED BY <1>9, <1>10, <1>11, <1>12 DEF Write

\* A start or a promotion puts its copy back and goes on to choose its clients.
LEMMA ResaveEffect ==
  ASSUME Typed, NEW r \in Requests, Resave(r)
  PROVE  /\ r \in Arrived /\ run[r].pc = "resave"
         /\ Moved(r, "prepare", run[r].task, run[r].todo) /\ SameTries(r)
         /\ row' = run[r].task
         /\ UNCHANGED <<plan, undoing, node, undone, promoted>>
<1>1. r \in Arrived /\ run[r] \in Runs /\ run[r].task \in Tasks
  BY RunFacts DEF Resave, Runs
<1> QED BY <1>1, StepEffect DEF Resave, Save

\* The goroutine has a list of clients to do, or fails to find the configuration.
LEMMA PrepareEffect ==
  ASSUME Typed, NEW r \in Requests, Prepare(r)
  PROVE  /\ r \in Arrived /\ run[r].pc = "prepare"
         /\ \/ Moved(r, "next", run[r].task, ClientsToExecute(run[r].task))
            \/ Moved(r, "lost", run[r].task, run[r].todo)
         /\ SameTries(r)
         /\ UNCHANGED <<plan, row, undoing, node, undone, promoted>>
<1>1. r \in Arrived /\ run[r] \in Runs /\ run[r].task \in Tasks
  BY RunFacts DEF Prepare, Runs
<1>2. CASE Step(r, "lost", run[r].task)
  BY <1>1, <1>2, StepEffect DEF Prepare
<1>3. CASE run' = [run EXCEPT ![r].pc = "next", ![r].todo = ClientsToExecute(run[r].task)]
  <2> DEFINE l == ClientsToExecute(run[r].task)
             y == [run[r] EXCEPT !.pc = "next", !.todo = l]
  <2>1. l \in Seq(Clients)
    BY ExecuteFacts DEF Typed
  <2>2. run' = [run EXCEPT ![r] = y]
    BY <1>3 DEF Typed
  <2> HIDE DEF l
  <2>3. y \in Runs /\ y.op = run[r].op /\ y.pc = "next" /\ y.task = run[r].task
        /\ y.todo = l /\ y.tried = run[r].tried /\ y.failures = run[r].failures
    BY <1>1, <2>1 DEF Runs
  <2> HIDE DEF y
  <2>4. Moved(r, "next", run[r].task, l) /\ SameTries(r)
    BY <1>1, <2>2, <2>3 DEF Moved, SameTries, Typed
  <2> QED BY <1>1, <2>4 DEF Prepare, l
<1> QED BY <1>2, <1>3 DEF Prepare

\* The next client is running, in the copy and in the row.
LEMMA MarkEffect ==
  ASSUME Typed, NEW r \in Requests, Mark(r)
  PROVE  /\ r \in Arrived /\ run[r].pc = "next" /\ run[r].todo # <<>>
         /\ LET t == WithResult(run[r].task, Head(run[r].todo), "running")
            IN Moved(r, "deploy", t, run[r].todo) /\ row' = t
         /\ SameTries(r)
         /\ UNCHANGED <<plan, undoing, node, undone, promoted>>
<1>1. r \in Arrived /\ run[r] \in Runs /\ run[r].task \in Tasks
  BY RunFacts DEF Mark, Runs
<1>2. WithResult(run[r].task, Head(run[r].todo), "running") \in Tasks
  BY <1>1, WithResultFields DEF ResultStatuses
<1> QED BY <1>1, <1>2, StepEffect DEF Mark, Save

\* A deployment is tried on the next client: it may be there afterwards or not.
LEMMA DeployEffect ==
  ASSUME Typed, Phases, NEW r \in Requests, Deploy(r)
  PROVE  LET x == run[r]
             c == Head(x.todo)
         IN /\ r \in Arrived /\ x.pc = "deploy" /\ x.todo # <<>> /\ c \in Clients
            /\ run'[r].tried = Append(x.tried, c)
            /\ node' \in [Clients -> {"old", "new"}]
            /\ \A d \in Clients : node[d] = "new" \/ d # c => node'[d] = node[d]
            /\ \/ /\ Moved(r, "ok", x.task, x.todo) /\ run'[r].failures = x.failures
                  /\ node'[c] = "new"
               \/ Moved(r, "err", x.task, x.todo) /\ run'[r].failures = x.failures \cup {c}
            /\ UNCHANGED <<plan, row, undoing, undone, promoted>>
<1> DEFINE x == run[r]
           c == Head(x.todo)
<1>1. r \in Arrived /\ x \in Runs /\ x.pc = "deploy"
  BY RunFacts DEF Deploy
<1>2. x.todo # <<>> /\ x.todo \in Seq(Clients) /\ x.tried \in Seq(Clients)
      /\ x.failures \subseteq Clients
  BY <1>1 DEF Phases, PhaseOf, Runs
<1>3. c \in Clients
  BY <1>2, TailFacts
<1> HIDE DEF c
<1>4. PICK e \in ExecuteRemote(c, "new") :
        /\ node' = [node EXCEPT ![c] = e.now]
        /\ run' = [run EXCEPT ![r].pc = IF e.ok THEN "ok" ELSE "err",
                              ![r].tried = Append(@, c),
                              ![r].failures = IF e.ok THEN @ ELSE @ \cup {c}]
  BY DEF Deploy, c
<1>5. e.ok \in BOOLEAN /\ e.now \in {node[c], "new"} /\ (e.ok => e.now = "new")
  BY DEF ExecuteRemote
<1> DEFINE pc == IF e.ok THEN "ok" ELSE "err"
           tried == Append(x.tried, c)
           fails == IF e.ok THEN x.failures ELSE x.failures \cup {c}
           y == [x EXCEPT !.pc = pc, !.tried = tried, !.failures = fails]
<1>6. pc \in {"ok", "err"} /\ tried \in Seq(Clients) /\ fails \subseteq Clients
  BY <1>2, <1>3, AppendFacts
<1>7. run' = [run EXCEPT ![r] = y]
  BY <1>4 DEF Typed
<1> HIDE DEF pc, tried, fails
<1>8. y \in Runs /\ y.op = x.op /\ y.pc = pc /\ y.task = x.task /\ y.todo = x.todo
      /\ y.tried = tried /\ y.failures = fails
  BY <1>1, <1>6 DEF Runs
<1> HIDE DEF y
<1>9. Moved(r, pc, x.task, x.todo) /\ run'[r].tried = tried /\ run'[r].failures = fails
  BY <1>1, <1>7, <1>8 DEF Moved, Typed
<1>10. /\ node' \in [Clients -> {"old", "new"}]
       /\ \A d \in Clients : node[d] = "new" \/ d # c => node'[d] = node[d]
       /\ e.ok => node'[c] = "new"
  BY <1>3, <1>4, <1>5 DEF Typed
<1>11. UNCHANGED <<plan, row, undoing, undone, promoted>>
  BY DEF Deploy
<1> QED BY <1>1, <1>2, <1>3, <1>5, <1>9, <1>10, <1>11 DEF pc, tried, fails, c

\* The outcome of a client is counted and saved; a failure may end the run.
LEMMA RecordEffect ==
  ASSUME Typed, Phases, NEW r \in Requests, Record(r)
  PROVE  LET x == run[r]
         IN /\ r \in Arrived /\ x.pc \in {"ok", "err"} /\ x.todo # <<>>
            /\ Head(x.todo) \in Clients /\ x.task \in Tasks
            /\ \E ok \in BOOLEAN : /\ ok <=> x.pc = "ok"
                                  /\ row' = Counted(x.task, Head(x.todo), ok)
            /\ row' \in Tasks
            /\ \/ /\ Moved(r, "next", row', Tail(x.todo))
                  /\ x.pc = "ok" \/ plan.strategy = "continue"
               \/ Moved(r, "stop", row', Tail(x.todo))
            /\ SameTries(r)
            /\ undoing' \subseteq Requests \X Clients
            /\ UNCHANGED <<plan, node, undone, promoted>>
<1> DEFINE x == run[r]
           c == Head(x.todo)
           ok == x.pc = "ok"
           t == Counted(x.task, c, ok)
<1>1. r \in Arrived /\ x \in Runs /\ x.pc \in {"ok", "err"} /\ x.task \in Tasks
  BY RunFacts DEF Record, Runs
<1>2. x.todo # <<>> /\ x.todo \in Seq(Clients)
  BY <1>1 DEF Phases, PhaseOf, Runs
<1>3. c \in Clients /\ Tail(x.todo) \in Seq(Clients)
  BY <1>2, TailFacts
<1>4. t \in Tasks
  <2>1. ok \in BOOLEAN
    OBVIOUS
  <2> HIDE DEF ok
  <2> QED BY <1>1, <1>3, <2>1, CountedFields
<1> DEFINE pc == IF ~ok /\ plan.strategy # "continue" THEN "stop" ELSE "next"
           rest == Tail(x.todo)
           y == [x EXCEPT !.task = t, !.todo = rest, !.pc = pc]
<1>5. /\ row' = t
      /\ undoing' = undoing \cup
           (IF ~ok /\ plan.auto /\ plan.script /\ c \in DOMAIN t.results THEN {<<r, c>>} ELSE {})
      /\ run' = [run EXCEPT ![r].task = t, ![r].todo = Tail(@), ![r].pc = pc]
      /\ UNCHANGED <<plan, node, undone, promoted>>
  BY DEF Record, Save
<1>6. run' = [run EXCEPT ![r] = y]
  BY <1>5 DEF Typed
<1>7. pc \in {"stop", "next"} /\ (pc = "next" => x.pc = "ok" \/ plan.strategy = "continue")
  OBVIOUS
<1>8. undoing' \subseteq Requests \X Clients
  BY <1>3, <1>5 DEF Typed
<1>e. \E b \in BOOLEAN : (b <=> x.pc = "ok") /\ row' = Counted(x.task, c, b)
  <2>1. ok \in BOOLEAN /\ (ok <=> x.pc = "ok") /\ row' = Counted(x.task, c, ok)
    BY <1>5
  <2> HIDE DEF ok
  <2> QED BY <2>1
<1> HIDE DEF t, pc, rest
<1>9. rest \in Seq(Clients)
  BY <1>3 DEF rest
<1>10. y \in Runs /\ y.op = x.op /\ y.pc = pc /\ y.task = t /\ y.todo = rest
       /\ y.tried = x.tried /\ y.failures = x.failures
  BY <1>1, <1>4, <1>7, <1>9 DEF Runs
<1> HIDE DEF y
<1>11. Moved(r, pc, t, rest) /\ SameTries(r)
  BY <1>1, <1>6, <1>10 DEF Moved, SameTries, Typed
<1> QED BY <1>1, <1>2, <1>3, <1>4, <1>5, <1>7, <1>8, <1>11, <1>e DEF rest

\* A run that a failure ends saves its copy as failed or paused.
LEMMA StopEffect ==
  ASSUME Typed, NEW r \in Requests, Stop(r)
  PROVE  /\ r \in Arrived /\ run[r].pc = "stop"
         /\ \E s \in {"failed", "paused"} :
              Moved(r, "done", Copy(r, s), run[r].todo) /\ row' = Copy(r, s)
         /\ SameTries(r)
         /\ UNCHANGED <<plan, undoing, node, undone, promoted>>
<1>1. r \in Arrived /\ run[r] \in Runs /\ run[r].task \in Tasks
  BY RunFacts DEF Stop, Runs
<1> DEFINE s == IF plan.strategy = "abort" THEN "failed" ELSE "paused"
<1>2. Copy(r, s) \in Tasks
  BY <1>1, CopyFields DEF Statuses
<1>3. row' = Copy(r, s) /\ Step(r, "done", Copy(r, s))
  BY DEF Stop, Save
<1>4. s \in {"failed", "paused"}
  OBVIOUS
<1> HIDE DEF s
<1> QED BY <1>1, <1>2, <1>3, <1>4, StepEffect DEF Stop

\* A run that has passed all its clients saves its copy with the status it earned.
LEMMA FinishEffect ==
  ASSUME Typed, Phases, NEW r \in Requests, Finish(r)
  PROVE  /\ r \in Arrived /\ run[r].pc = "next" /\ run[r].todo = <<>>
         /\ \E s \in {"canary", "failed", "completed"} :
              /\ s = "completed" => run[r].task.status = "running" /\ run[r].task.failed = 0
              /\ Moved(r, "done", Copy(r, s), run[r].todo)
              /\ row' = Copy(r, s)
         /\ SameTries(r)
         /\ UNCHANGED <<plan, undoing, node, undone, promoted>>
<1>1. r \in Arrived /\ run[r] \in Runs /\ run[r].task \in Tasks /\ run[r].pc = "next"
  BY RunFacts DEF Finish, Runs
<1>2. run[r].task.status \in {"canary", "running"} /\ run[r].task.failed \in Nat
  BY <1>1 DEF Phases, PhaseOf, Executing, Tasks
<1> DEFINE s == IF run[r].task.status = "canary" THEN "canary"
                ELSE IF run[r].task.failed > 0 THEN "failed" ELSE "completed"
<1>3. Copy(r, s) \in Tasks
  BY <1>1, CopyFields DEF Statuses
<1>4. row' = Copy(r, s) /\ Step(r, "done", Copy(r, s))
  BY DEF Finish, Save
<1>5. /\ s \in {"canary", "failed", "completed"}
      /\ s = "completed" => run[r].task.status = "running" /\ run[r].task.failed = 0
  BY <1>2
<1> HIDE DEF s
<1> QED BY <1>1, <1>3, <1>4, <1>5, StepEffect DEF Finish

\* rollbackDeployTask asks one client to go back, and notes it if that worked.
LEMMA UndoEffect ==
  ASSUME Typed, NEW r \in Requests, Undo(r)
  PROVE  /\ r \in Arrived /\ run[r].pc = "undo"
         /\ \E c \in Tracked :
              /\ undone' = undone \cup {c}
              /\ node' \in [Clients -> {"old", "new"}]
              /\ \A d \in Clients : d # c => node'[d] = node[d]
              /\ \E t \in {run[r].task, WithResult(run[r].task, c, "rollback")} :
                    Moved(r, "undo", t, run'[r].todo)
         /\ SameTries(r)
         /\ UNCHANGED <<plan, row, undoing, promoted>>
<1> DEFINE x == run[r]
<1>1. r \in Arrived /\ x \in Runs /\ x.task \in Tasks /\ x.pc = "undo" /\ x.todo \in Seq(Clients)
  BY RunFacts DEF Undo, Runs
<1> PICK i \in NextTouched(r) : UndoAt(r, i)
  BY DEF Undo
<1> DEFINE c == x.todo[i]
           rest == SubSeq(x.todo, i + 1, Len(x.todo))
<1>2. i \in 1 .. Len(x.todo) /\ c \in Tracked
  BY <1>1 DEF NextTouched, Touched, Tasks
<1>3. rest \in Seq(Clients)
  BY <1>1, <1>2
<1>4. c \in Clients
  BY <1>2 DEF Tracked
<1>5. PICK e \in ExecuteRemote(c, "old") :
        /\ node' = [node EXCEPT ![c] = e.now]
        /\ run' = [run EXCEPT ![r].todo = SubSeq(@, i + 1, Len(@)),
                              ![r].task = IF e.ok THEN WithResult(@, c, "rollback") ELSE @]
  BY DEF UndoAt
<1>6. e.ok \in BOOLEAN /\ e.now \in {node[c], "old"}
  BY DEF ExecuteRemote
<1> DEFINE t == IF e.ok THEN WithResult(x.task, c, "rollback") ELSE x.task
           y == [x EXCEPT !.todo = rest, !.task = t]
<1>7. t \in Tasks
  BY <1>1, WithResultFields DEF ResultStatuses
<1>8. run' = [run EXCEPT ![r] = y]
  BY <1>5 DEF Typed
<1>9. t \in {x.task, WithResult(x.task, c, "rollback")}
  OBVIOUS
<1> HIDE DEF t, rest
<1>10. y \in Runs /\ y.op = x.op /\ y.pc = "undo" /\ y.task = t /\ y.todo = rest
       /\ y.tried = x.tried /\ y.failures = x.failures
  BY <1>1, <1>3, <1>7 DEF Runs
<1> HIDE DEF y
<1>11. Moved(r, "undo", t, run'[r].todo) /\ SameTries(r)
  BY <1>1, <1>8, <1>10 DEF Moved, SameTries, Typed
<1>12. /\ undone' = undone \cup {c}
       /\ UNCHANGED <<plan, row, undoing, promoted>>
  BY DEF UndoAt
<1>13. /\ node' \in [Clients -> {"old", "new"}]
       /\ \A d \in Clients : d # c => node'[d] = node[d]
  BY <1>4, <1>5, <1>6 DEF Typed
<1> HIDE DEF c
<1> QED BY <1>1, <1>2, <1>9, <1>11, <1>12, <1>13

\* It saves its copy as cancelled when it has taken back all it could.
LEMMA UndoEndEffect ==
  ASSUME Typed, NEW r \in Requests, UndoEnd(r)
  PROVE  /\ r \in Arrived /\ run[r].pc = "undo"
         /\ Moved(r, "done", Copy(r, "cancelled"), run[r].todo) /\ row' = Copy(r, "cancelled")
         /\ SameTries(r)
         /\ UNCHANGED <<plan, undoing, node, undone, promoted>>
<1>1. r \in Arrived /\ run[r] \in Runs /\ run[r].task \in Tasks
  BY RunFacts DEF UndoEnd, Runs
<1>2. Copy(r, "cancelled") \in Tasks
  BY <1>1, CopyFields DEF Statuses
<1> QED BY <1>1, <1>2, StepEffect DEF UndoEnd, Save

\* autoRollbackClient touches its own client and no row.
LEMMA AutoRollbackEffect ==
  ASSUME Typed, NEW r \in Requests, NEW c \in Clients, AutoRollback(r, c)
  PROVE  /\ undone' = undone \cup {c}
         /\ node' \in [Clients -> {"old", "new"}]
         /\ \A d \in Clients : d # c => node'[d] = node[d]
         /\ undoing' \subseteq undoing
         /\ UNCHANGED <<plan, row, run, promoted>>
<1> PICK e \in ExecuteRemote(c, "old") : node' = [node EXCEPT ![c] = e.now]
  BY DEF AutoRollback
<1>1. e.now \in {node[c], "old"}
  BY DEF ExecuteRemote
<1> QED BY <1>1 DEF AutoRollback, Typed

-----------------------------------------------------------------------------
(* Every conjunct of DInv is preserved by every step.                      *)

\* What is defined by the configuration stays while the configuration does.
LEMMA PlanStays ==
  ASSUME plan' = plan
  PROVE  /\ Tracked' = Tracked /\ Tasks' = Tasks /\ Runs' = Runs
         /\ Canaries' = Canaries
BY DEF Tracked, Tasks, Runs, Canaries, CanaryCount

\* Nobody arrives when a run goes on.
LEMMA MovedArrived ==
  ASSUME Typed, NEW r \in Requests, NEW pc, NEW t, NEW todo, Moved(r, pc, t, todo)
  PROVE  Arrived' = Arrived
BY RunsNotIdle, RunFacts DEF Moved, Arrived

\* No step leaves the types.
LEMMA TypedKept ==
  ASSUME Typed, Phases, Next
  PROVE  Typed'
<1>1. ASSUME NEW r \in Requests, NEW op \in Ops, Read(r, op) PROVE Typed'
  BY <1>1, ReadEffect, PlanStays, CopyFields, DeployAssumption DEF Typed, Moved
<1>2. ASSUME NEW r \in Requests, Write(r) PROVE Typed'
  <2>1. r \in Arrived /\ run[r].task \in Tasks
    BY <1>2, WriteEffect, RunFacts DEF Runs
  <2>2. run' \in [Requests -> Runs \cup {Idle}] /\ promoted' \in BOOLEAN
    BY <1>2, WriteEffect DEF Moved, Typed
  <2>3. row' \in Tasks
    BY <1>2, <2>1, WriteEffect, CopyFields DEF Typed, Statuses
  <2> QED BY <1>2, <2>2, <2>3, WriteEffect, PlanStays DEF Typed
<1>3. ASSUME NEW r \in Requests, Resave(r) PROVE Typed'
  <2>1. run[r].task \in Tasks
    BY <1>3, ResaveEffect, RunFacts DEF Runs
  <2> QED BY <1>3, <2>1, ResaveEffect, PlanStays DEF Typed, Moved
<1>4. ASSUME NEW r \in Requests, Prepare(r) PROVE Typed'
  <2>1. run' \in [Requests -> Runs \cup {Idle}]
        /\ UNCHANGED <<plan, row, undoing, node, undone, promoted>>
    BY <1>4, PrepareEffect DEF Moved
  <2> QED BY <2>1, PlanStays DEF Typed
<1>5. ASSUME NEW r \in Requests, Mark(r) PROVE Typed'
  <2>1. row' \in Tasks
    BY <1>5, MarkEffect DEF Runs, Moved
  <2> QED BY <1>5, <2>1, MarkEffect, PlanStays DEF Typed, Moved
<1>6. ASSUME NEW r \in Requests, Deploy(r) PROVE Typed'
  <2>1. run' \in [Requests -> Runs \cup {Idle}] /\ node' \in [Clients -> {"old", "new"}]
        /\ UNCHANGED <<plan, row, undoing, undone, promoted>>
    BY <1>6, DeployEffect DEF Moved
  <2> QED BY <2>1, PlanStays DEF Typed
<1>7. ASSUME NEW r \in Requests, Record(r) PROVE Typed'
  <2>1. run' \in [Requests -> Runs \cup {Idle}] /\ row' \in Tasks
    BY <1>7, RecordEffect DEF Moved
  <2> QED BY <1>7, <2>1, RecordEffect, PlanStays DEF Typed
<1>8. ASSUME NEW r \in Requests, Stop(r) PROVE Typed'
  <2>1. row' \in Tasks
    BY <1>8, StopEffect DEF Runs, Moved
  <2> QED BY <1>8, <2>1, StopEffect, PlanStays DEF Typed, Moved
<1>9. ASSUME NEW r \in Requests, Finish(r) PROVE Typed'
  <2>1. row' \in Tasks
    BY <1>9, FinishEffect DEF Runs, Moved
  <2> QED BY <1>9, <2>1, FinishEffect, PlanStays DEF Typed, Moved
<1>10. ASSUME NEW r \in Requests, Undo(r) PROVE Typed'
  <2> PICK c \in Tracked :
        /\ undone' = undone \cup {c}
        /\ \E t \in {run[r].task, WithResult(run[r].task, c, "rollback")} :
             Moved(r, "undo", t, run'[r].todo)
    BY <1>10, UndoEffect
  <2>1. undone' \subseteq Clients
    BY DEF Typed, Tracked
  <2>2. run' \in [Requests -> Runs \cup {Idle}] /\ node' \in [Clients -> {"old", "new"}]
        /\ UNCHANGED <<plan, row, undoing, promoted>>
    BY <1>10, UndoEffect DEF Moved
  <2> QED BY <2>1, <2>2, PlanStays DEF Typed
<1>11. ASSUME NEW r \in Requests, UndoEnd(r) PROVE Typed'
  <2>1. row' \in Tasks
    BY <1>11, UndoEndEffect DEF Runs, Moved
  <2> QED BY <1>11, <2>1, UndoEndEffect, PlanStays DEF Typed, Moved
<1>12. ASSUME NEW r \in Requests, NEW c \in Clients, AutoRollback(r, c) PROVE Typed'
  BY <1>12, AutoRollbackEffect, PlanStays, CopyFields, DeployAssumption DEF Typed, Moved
<1> QED BY <1>1, <1>2, <1>3, <1>4, <1>5, <1>6, <1>7, <1>8, <1>9, <1>10, <1>11, <1>12 DEF Next, Run

\* Who has not moved is where it was.
LEMMA PhasesBy ==
  ASSUME Phases, NEW r \in Requests, PhaseOf(run'[r]), Promoting(run'[r]) => promoted',
         promoted => promoted', \A q \in Requests : q # r => run'[q] = run[q]
  PROVE  Phases'
<1> SUFFICES ASSUME NEW q \in Arrived'
             PROVE  PhaseOf(run'[q]) /\ (Promoting(run'[q]) => promoted')
  BY DEF Phases
<1>1. CASE q = r
  BY <1>1
<1>2. CASE q # r
  <2>1. run'[q] = run[q] /\ q \in Arrived
    BY <1>2 DEF Arrived
  <2> QED BY <2>1 DEF Phases
<1> QED BY <1>1, <1>2

\* No step brings a request to a position its operation has no business at.
LEMMA PhasesKept ==
  ASSUME Typed, Phases, Next
  PROVE  Phases'
<1>1. ASSUME NEW r \in Requests, NEW op \in Ops, Read(r, op) PROVE Phases'
  <2>2. PhaseOf(run'[r]) /\ (Promoting(run'[r]) => promoted')
    BY <1>1, ReadEffect DEF PhaseOf, Executing, Promoting, Moved, SameTries
  <2>3. /\ promoted => promoted'
        /\ \A q \in Requests : q # r => run'[q] = run[q]
    BY <1>1, ReadEffect DEF Moved
  <2> QED BY <2>2, <2>3, PhasesBy
<1>2. ASSUME NEW r \in Requests, Write(r) PROVE Phases'
  <2>1. r \in Arrived /\ PhaseOf(run[r]) /\ (Promoting(run[r]) => promoted)
    BY <1>2, WriteEffect DEF Phases
  <2>0. /\ Copy(r, "canary").status = "canary" /\ Copy(r, "running").status = "running"
    BY <2>1, RunFacts, CopyFields DEF Runs, Statuses, Arrived
  <2>2. PhaseOf(run'[r]) /\ (Promoting(run'[r]) => promoted')
    BY <1>2, WriteEffect, <2>0, <2>1 DEF PhaseOf, Executing, Promoting, Moved, SameTries
  <2>3. /\ promoted => promoted'
        /\ \A q \in Requests : q # r => run'[q] = run[q]
    BY <1>2, WriteEffect DEF Moved
  <2> QED BY <2>2, <2>3, PhasesBy
<1>3. ASSUME NEW r \in Requests, Resave(r) PROVE Phases'
  <2>1. r \in Arrived /\ PhaseOf(run[r]) /\ (Promoting(run[r]) => promoted)
    BY <1>3, ResaveEffect DEF Phases
  <2>2. PhaseOf(run'[r]) /\ (Promoting(run'[r]) => promoted')
    BY <1>3, ResaveEffect, <2>1 DEF PhaseOf, Executing, Promoting, Moved, SameTries
  <2>3. /\ promoted => promoted'
        /\ \A q \in Requests : q # r => run'[q] = run[q]
    BY <1>3, ResaveEffect DEF Moved
  <2> QED BY <2>2, <2>3, PhasesBy
<1>4. ASSUME NEW r \in Requests, Prepare(r) PROVE Phases'
  <2>1. r \in Arrived /\ PhaseOf(run[r]) /\ (Promoting(run[r]) => promoted)
    BY <1>4, PrepareEffect DEF Phases
  <2>2. PhaseOf(run'[r]) /\ (Promoting(run'[r]) => promoted')
    BY <1>4, PrepareEffect, <2>1 DEF PhaseOf, Executing, Promoting, Moved, SameTries
  <2>3. /\ promoted => promoted'
        /\ \A q \in Requests : q # r => run'[q] = run[q]
    BY <1>4, PrepareEffect DEF Moved
  <2> QED BY <2>2, <2>3, PhasesBy
<1>5. ASSUME NEW r \in Requests, Mark(r) PROVE Phases'
  <2>1. r \in Arrived /\ PhaseOf(run[r]) /\ (Promoting(run[r]) => promoted)
    BY <1>5, MarkEffect DEF Phases
  <2>0. run'[r].task.status = run[r].task.status
    BY <1>5, <2>1, MarkEffect, RunFacts, WithResultFields DEF Runs, Moved, ResultStatuses, Arrived
  <2>2. PhaseOf(run'[r]) /\ (Promoting(run'[r]) => promoted')
    BY <1>5, MarkEffect, <2>0, <2>1 DEF PhaseOf, Executing, Promoting, Moved, SameTries
  <2>3. /\ promoted => promoted'
        /\ \A q \in Requests : q # r => run'[q] = run[q]
    BY <1>5, MarkEffect DEF Moved
  <2> QED BY <2>2, <2>3, PhasesBy
<1>6. ASSUME NEW r \in Requests, Deploy(r) PROVE Phases'
  <2>1. r \in Arrived /\ PhaseOf(run[r]) /\ (Promoting(run[r]) => promoted)
    BY <1>6, DeployEffect DEF Phases
  <2>2. PhaseOf(run'[r]) /\ (Promoting(run'[r]) => promoted')
    BY <1>6, DeployEffect, <2>1 DEF PhaseOf, Executing, Promoting, Moved, SameTries
  <2>3. /\ promoted => promoted'
        /\ \A q \in Requests : q # r => run'[q] = run[q]
    BY <1>6, DeployEffect DEF Moved
  <2> QED BY <2>2, <2>3, PhasesBy
<1>7. ASSUME NEW r \in Requests, Record(r) PROVE Phases'
  <2>1. r \in Arrived /\ PhaseOf(run[r]) /\ (Promoting(run[r]) => promoted)
    BY <1>7, RecordEffect DEF Phases
  <2>0. run'[r].task.status = run[r].task.status
    <3> PICK ok \in BOOLEAN : row' = Counted(run[r].task, Head(run[r].todo), ok)
      BY <1>7, RecordEffect
    <3>1. row'.status = run[r].task.status
      BY <1>7, RecordEffect, CountedFields
    <3> QED BY <1>7, <3>1, RecordEffect DEF Moved
  <2>2. PhaseOf(run'[r]) /\ (Promoting(run'[r]) => promoted')
    BY <1>7, RecordEffect, <2>0, <2>1 DEF PhaseOf, Executing, Promoting, Moved, SameTries
  <2>3. /\ promoted => promoted'
        /\ \A q \in Requests : q # r => run'[q] = run[q]
    BY <1>7, RecordEffect DEF Moved
  <2> QED BY <2>2, <2>3, PhasesBy
<1>8. ASSUME NEW r \in Requests, Stop(r) PROVE Phases'
  <2>1. r \in Arrived /\ PhaseOf(run[r]) /\ (Promoting(run[r]) => promoted)
    BY <1>8, StopEffect DEF Phases
  <2>2. PhaseOf(run'[r]) /\ (Promoting(run'[r]) => promoted')
    BY <1>8, StopEffect, <2>1 DEF PhaseOf, Executing, Promoting, Moved, SameTries
  <2>3. /\ promoted => promoted'
        /\ \A q \in Requests : q # r => run'[q] = run[q]
    BY <1>8, StopEffect DEF Moved
  <2> QED BY <2>2, <2>3, PhasesBy
<1>9. ASSUME NEW r \in Requests, Finish(r) PROVE Phases'
  <2>1. r \in Arrived /\ PhaseOf(run[r]) /\ (Promoting(run[r]) => promoted)
    BY <1>9, FinishEffect DEF Phases
  <2>2. PhaseOf(run'[r]) /\ (Promoting(run'[r]) => promoted')
    BY <1>9, FinishEffect, <2>1 DEF PhaseOf, Executing, Promoting, Moved, SameTries
  <2>3. /\ promoted => promoted'
        /\ \A q \in Requests : q # r => run'[q] = run[q]
    BY <1>9, FinishEffect DEF Moved
  <2> QED BY <2>2, <2>3, PhasesBy
<1>10. ASSUME NEW r \in Requests, Undo(r) PROVE Phases'
  <2>1. r \in Arrived /\ PhaseOf(run[r]) /\ (Promoting(run[r]) => promoted)
    BY <1>10, UndoEffect DEF Phases
  <2>2. PhaseOf(run'[r]) /\ (Promoting(run'[r]) => promoted')
    BY <1>10, UndoEffect, <2>1 DEF PhaseOf, Executing, Promoting, Moved, SameTries
  <2>3. /\ promoted => promoted'
        /\ \A q \in Requests : q # r => run'[q] = run[q]
    BY <1>10, UndoEffect DEF Moved
  <2> QED BY <2>2, <2>3, PhasesBy
<1>11. ASSUME NEW r \in Requests, UndoEnd(r) PROVE Phases'
  <2>1. r \in Arrived /\ PhaseOf(run[r]) /\ (Promoting(run[r]) => promoted)
    BY <1>11, UndoEndEffect DEF Phases
  <2>2. PhaseOf(run'[r]) /\ (Promoting(run'[r]) => promoted')
    BY <1>11, UndoEndEffect, <2>1 DEF PhaseOf, Executing, Promoting, Moved, SameTries
  <2>3. /\ promoted => promoted'
        /\ \A q \in Requests : q # r => run'[q] = run[q]
    BY <1>11, UndoEndEffect DEF Moved
  <2> QED BY <2>2, <2>3, PhasesBy
<1>12. ASSUME NEW r \in Requests, NEW c \in Clients, AutoRollback(r, c) PROVE Phases'
  BY <1>12, AutoRollbackEffect DEF Phases, Arrived
<1> QED BY <1>1, <1>2, <1>3, <1>4, <1>5, <1>6, <1>7, <1>8, <1>9, <1>10, <1>11, <1>12 DEF Next, Run

\* A step of one request keeps Share if it keeps the part of that request.
LEMMA ShareBy ==
  ASSUME Share, NEW r \in Requests, plan.canary /\ ~promoted' => ShareOf(run'[r]),
         plan' = plan, promoted => promoted', \A q \in Requests : q # r => run'[q] = run[q]
  PROVE  Share'
<1> SUFFICES ASSUME plan.canary, ~promoted', NEW q \in Arrived'
             PROVE  ShareOf(run'[q])
  BY PlanStays DEF Share, ShareOf
<1>1. CASE q = r
  BY <1>1
<1>2. CASE q # r
  <2>1. run'[q] = run[q] /\ q \in Arrived
    BY <1>2 DEF Arrived
  <2> QED BY <2>1 DEF Share
<1> QED BY <1>1, <1>2

\* Before a promotion no run takes up a client that is not a canary.
LEMMA ShareKept ==
  ASSUME Typed, Phases, Share, Next
  PROVE  Share'
<1>1. ASSUME NEW r \in Requests, NEW op \in Ops, Read(r, op) PROVE Share'
  <2>3. plan.canary /\ ~promoted' => ShareOf(run'[r])
    BY <1>1, ReadEffect DEF ShareOf, PhaseOf, Executing, Promoting, Moved, SameTries, ToSet
  <2>4. /\ plan' = plan /\ (promoted => promoted')
        /\ \A q \in Requests : q # r => run'[q] = run[q]
    BY <1>1, ReadEffect DEF Moved
  <2> QED BY <2>3, <2>4, ShareBy
<1>2. ASSUME NEW r \in Requests, Write(r) PROVE Share'
  <2>1. r \in Arrived /\ PhaseOf(run[r]) /\ (Promoting(run[r]) => promoted) /\ run[r] \in Runs
    BY <1>2, WriteEffect, RunFacts DEF Phases
  <2>2. plan.canary /\ ~promoted => ShareOf(run[r])
    BY <2>1 DEF Share
  <2>0. Copy(r, "canary").status = "canary" /\ ToSet(run[r].tried) = {}
    BY <1>2, <2>1, WriteEffect, CopyFields DEF PhaseOf, ToSet, Runs, Statuses
  <2>3. plan.canary /\ ~promoted' => ShareOf(run'[r])
    BY <1>2, <2>1, <2>2, <2>0, WriteEffect DEF ShareOf, PhaseOf, Executing, Promoting, Moved, SameTries
  <2>4. /\ plan' = plan /\ (promoted => promoted')
        /\ \A q \in Requests : q # r => run'[q] = run[q]
    BY <1>2, WriteEffect DEF Moved
  <2> QED BY <2>3, <2>4, ShareBy
<1>3. ASSUME NEW r \in Requests, Resave(r) PROVE Share'
  <2>1. r \in Arrived /\ PhaseOf(run[r]) /\ (Promoting(run[r]) => promoted) /\ run[r] \in Runs
    BY <1>3, ResaveEffect, RunFacts DEF Phases
  <2>2. plan.canary /\ ~promoted => ShareOf(run[r])
    BY <2>1 DEF Share
  <2>3. plan.canary /\ ~promoted' => ShareOf(run'[r])
    BY <1>3, <2>1, <2>2, ResaveEffect DEF ShareOf, PhaseOf, Executing, Promoting, Moved, SameTries
  <2>4. /\ plan' = plan /\ (promoted => promoted')
        /\ \A q \in Requests : q # r => run'[q] = run[q]
    BY <1>3, ResaveEffect DEF Moved
  <2> QED BY <2>3, <2>4, ShareBy
<1>4. ASSUME NEW r \in Requests, Prepare(r) PROVE Share'
  <2>1. r \in Arrived /\ PhaseOf(run[r]) /\ (Promoting(run[r]) => promoted) /\ run[r] \in Runs
    BY <1>4, PrepareEffect, RunFacts DEF Phases
  <2>2. plan.canary /\ ~promoted => ShareOf(run[r])
    BY <2>1 DEF Share
  <2>0. plan.canary /\ run[r].task.status = "canary" => ToSet(ClientsToExecute(run[r].task)) = Canaries
    BY ExecuteFacts DEF Typed
  <2>3. plan.canary /\ ~promoted' => ShareOf(run'[r])
    BY <1>4, <2>1, <2>2, <2>0, PrepareEffect DEF ShareOf, PhaseOf, Executing, Promoting, Moved, SameTries
  <2>4. /\ plan' = plan /\ (promoted => promoted')
        /\ \A q \in Requests : q # r => run'[q] = run[q]
    BY <1>4, PrepareEffect DEF Moved
  <2> QED BY <2>3, <2>4, ShareBy
<1>5. ASSUME NEW r \in Requests, Mark(r) PROVE Share'
  <2>1. r \in Arrived /\ PhaseOf(run[r]) /\ (Promoting(run[r]) => promoted) /\ run[r] \in Runs
    BY <1>5, MarkEffect, RunFacts DEF Phases
  <2>2. plan.canary /\ ~promoted => ShareOf(run[r])
    BY <2>1 DEF Share
  <2>0. run'[r].task.status = run[r].task.status
    BY <1>5, <2>1, MarkEffect, WithResultFields DEF Runs, Moved, ResultStatuses
  <2>3. plan.canary /\ ~promoted' => ShareOf(run'[r])
    BY <1>5, <2>1, <2>2, <2>0, MarkEffect DEF ShareOf, PhaseOf, Executing, Promoting, Moved, SameTries
  <2>4. /\ plan' = plan /\ (promoted => promoted')
        /\ \A q \in Requests : q # r => run'[q] = run[q]
    BY <1>5, MarkEffect DEF Moved
  <2> QED BY <2>3, <2>4, ShareBy
<1>6. ASSUME NEW r \in Requests, Deploy(r) PROVE Share'
  <2>1. r \in Arrived /\ PhaseOf(run[r]) /\ (Promoting(run[r]) => promoted) /\ run[r] \in Runs
    BY <1>6, DeployEffect, RunFacts DEF Phases
  <2>2. plan.canary /\ ~promoted => ShareOf(run[r])
    BY <2>1 DEF Share
  <2>0. /\ ToSet(run'[r].tried) = ToSet(run[r].tried) \cup {Head(run[r].todo)}
        /\ Head(run[r].todo) \in ToSet(run[r].todo)
    <3>1. run[r].tried \in Seq(Clients) /\ run[r].todo \in Seq(Clients)
      BY <2>1 DEF Runs
    <3>2. /\ run'[r].tried = Append(run[r].tried, Head(run[r].todo))
          /\ run[r].todo # <<>> /\ Head(run[r].todo) \in Clients
      BY <1>6, DeployEffect
    <3>3. ToSet(Append(run[r].tried, Head(run[r].todo)))
            = ToSet(run[r].tried) \cup {Head(run[r].todo)}
      BY <3>1, <3>2, AppendFacts
    <3>4. Head(run[r].todo) \in ToSet(run[r].todo)
      BY <3>1, <3>2, TailFacts
    <3> QED BY <3>2, <3>3, <3>4
  <2>3. plan.canary /\ ~promoted' => ShareOf(run'[r])
    BY <1>6, <2>1, <2>2, <2>0, DeployEffect DEF ShareOf, PhaseOf, Executing, Promoting, Moved, SameTries
  <2>4. /\ plan' = plan /\ (promoted => promoted')
        /\ \A q \in Requests : q # r => run'[q] = run[q]
    BY <1>6, DeployEffect DEF Moved
  <2> QED BY <2>3, <2>4, ShareBy
<1>7. ASSUME NEW r \in Requests, Record(r) PROVE Share'
  <2>1. r \in Arrived /\ PhaseOf(run[r]) /\ (Promoting(run[r]) => promoted) /\ run[r] \in Runs
    BY <1>7, RecordEffect, RunFacts DEF Phases
  <2>2. plan.canary /\ ~promoted => ShareOf(run[r])
    BY <2>1 DEF Share
  <2>0. /\ run'[r].task.status = run[r].task.status
        /\ ToSet(Tail(run[r].todo)) \subseteq ToSet(run[r].todo)
    <3> PICK ok \in BOOLEAN : row' = Counted(run[r].task, Head(run[r].todo), ok)
      BY <1>7, RecordEffect
    <3>1. row'.status = run[r].task.status
      BY <1>7, RecordEffect, CountedFields
    <3> QED BY <1>7, <2>1, <3>1, RecordEffect, TailFacts DEF Moved, Runs
  <2>3. plan.canary /\ ~promoted' => ShareOf(run'[r])
    BY <1>7, <2>1, <2>2, <2>0, RecordEffect DEF ShareOf, PhaseOf, Executing, Promoting, Moved, SameTries
  <2>4. /\ plan' = plan /\ (promoted => promoted')
        /\ \A q \in Requests : q # r => run'[q] = run[q]
    BY <1>7, RecordEffect DEF Moved
  <2> QED BY <2>3, <2>4, ShareBy
<1>8. ASSUME NEW r \in Requests, Stop(r) PROVE Share'
  <2>1. r \in Arrived /\ PhaseOf(run[r]) /\ (Promoting(run[r]) => promoted) /\ run[r] \in Runs
    BY <1>8, StopEffect, RunFacts DEF Phases
  <2>2. plan.canary /\ ~promoted => ShareOf(run[r])
    BY <2>1 DEF Share
  <2>3. plan.canary /\ ~promoted' => ShareOf(run'[r])
    BY <1>8, <2>1, <2>2, StopEffect DEF ShareOf, PhaseOf, Executing, Promoting, Moved, SameTries
  <2>4. /\ plan' = plan /\ (promoted => promoted')
        /\ \A q \in Requests : q # r => run'[q] = run[q]
    BY <1>8, StopEffect DEF Moved
  <2> QED BY <2>3, <2>4, ShareBy
<1>9. ASSUME NEW r \in Requests, Finish(r) PROVE Share'
  <2>1. r \in Arrived /\ PhaseOf(run[r]) /\ (Promoting(run[r]) => promoted) /\ run[r] \in Runs
    BY <1>9, FinishEffect, RunFacts DEF Phases
  <2>2. plan.canary /\ ~promoted => ShareOf(run[r])
    BY <2>1 DEF Share
  <2>3. plan.canary /\ ~promoted' => ShareOf(run'[r])
    BY <1>9, <2>1, <2>2, FinishEffect DEF ShareOf, PhaseOf, Executing, Promoting, Moved, SameTries
  <2>4. /\ plan' = plan /\ (promoted => promoted')
        /\ \A q \in Requests : q # r => run'[q] = run[q]
    BY <1>9, FinishEffect DEF Moved
  <2> QED BY <2>3, <2>4, ShareBy
<1>10. ASSUME NEW r \in Requests, Undo(r) PROVE Share'
  <2>1. r \in Arrived /\ PhaseOf(run[r]) /\ (Promoting(run[r]) => promoted) /\ run[r] \in Runs
    BY <1>10, UndoEffect, RunFacts DEF Phases
  <2>2. plan.canary /\ ~promoted => ShareOf(run[r])
    BY <2>1 DEF Share
  <2>3. plan.canary /\ ~promoted' => ShareOf(run'[r])
    BY <1>10, <2>1, <2>2, UndoEffect DEF ShareOf, PhaseOf, Executing, Promoting, Moved, SameTries
  <2>4. /\ plan' = plan /\ (promoted => promoted')
        /\ \A q \in Requests : q # r => run'[q] = run[q]
    BY <1>10, UndoEffect DEF Moved
  <2> QED BY <2>3, <2>4, ShareBy
<1>11. ASSUME NEW r \in Requests, UndoEnd(r) PROVE Share'
  <2>1. r \in Arrived /\ PhaseOf(run[r]) /\ (Promoting(run[r]) => promoted) /\ run[r] \in Runs
    BY <1>11, UndoEndEffect, RunFacts DEF Phases
  <2>2. plan.canary /\ ~promoted => ShareOf(run[r])
    BY <2>1 DEF Share
  <2>3. plan.canary /\ ~promoted' => ShareOf(run'[r])
    BY <1>11, <2>1, <2>2, UndoEndEffect DEF ShareOf, PhaseOf, Executing, Promoting, Moved, SameTries
  <2>4. /\ plan' = plan /\ (promoted => promoted')
        /\ \A q \in Requests : q # r => run'[q] = run[q]
    BY <1>11, UndoEndEffect DEF Moved
  <2> QED BY <2>3, <2>4, ShareBy
<1>12. ASSUME NEW r \in Requests, NEW c \in Clients, AutoRollback(r, c) PROVE Share'
  <2>1. Canaries' = Canaries /\ Arrived' = Arrived
    BY <1>12, AutoRollbackEffect, PlanStays DEF Arrived
  <2> QED BY <1>12, <2>1, AutoRollbackEffect DEF Share, ShareOf
<1> QED BY <1>1, <1>2, <1>3, <1>4, <1>5, <1>6, <1>7, <1>8, <1>9, <1>10, <1>11, <1>12 DEF Next, Run

\* A client never gets the old version back but by a rollback.
LEMMA RenewedStays ==
  ASSUME Typed, Phases, Next
  PROVE  \A d \in Clients : Renewed(d) => Renewed(d)'
<1>1. ASSUME NEW r \in Requests, NEW op \in Ops, Read(r, op) PROVE \A d \in Clients : Renewed(d) => Renewed(d)'
  BY <1>1, ReadEffect DEF Renewed, Tracked, Typed
<1>2. ASSUME NEW r \in Requests, Write(r) PROVE \A d \in Clients : Renewed(d) => Renewed(d)'
  BY <1>2, WriteEffect DEF Renewed, Tracked, Typed
<1>3. ASSUME NEW r \in Requests, Resave(r) PROVE \A d \in Clients : Renewed(d) => Renewed(d)'
  BY <1>3, ResaveEffect DEF Renewed, Tracked, Typed
<1>4. ASSUME NEW r \in Requests, Prepare(r) PROVE \A d \in Clients : Renewed(d) => Renewed(d)'
  BY <1>4, PrepareEffect DEF Renewed, Tracked, Typed
<1>5. ASSUME NEW r \in Requests, Mark(r) PROVE \A d \in Clients : Renewed(d) => Renewed(d)'
  BY <1>5, MarkEffect DEF Renewed, Tracked, Typed
<1>6. ASSUME NEW r \in Requests, Deploy(r) PROVE \A d \in Clients : Renewed(d) => Renewed(d)'
  BY <1>6, DeployEffect DEF Renewed, Tracked, Typed
<1>7. ASSUME NEW r \in Requests, Record(r) PROVE \A d \in Clients : Renewed(d) => Renewed(d)'
  BY <1>7, RecordEffect DEF Renewed, Tracked, Typed
<1>8. ASSUME NEW r \in Requests, Stop(r) PROVE \A d \in Clients : Renewed(d) => Renewed(d)'
  BY <1>8, StopEffect DEF Renewed, Tracked, Typed
<1>9. ASSUME NEW r \in Requests, Finish(r) PROVE \A d \in Clients : Renewed(d) => Renewed(d)'
  BY <1>9, FinishEffect DEF Renewed, Tracked, Typed
<1>10. ASSUME NEW r \in Requests, Undo(r) PROVE \A d \in Clients : Renewed(d) => Renewed(d)'
  BY <1>10, UndoEffect DEF Renewed, Tracked, Typed
<1>11. ASSUME NEW r \in Requests, UndoEnd(r) PROVE \A d \in Clients : Renewed(d) => Renewed(d)'
  BY <1>11, UndoEndEffect DEF Renewed, Tracked, Typed
<1>12. ASSUME NEW r \in Requests, NEW c \in Clients, AutoRollback(r, c) PROVE \A d \in Clients : Renewed(d) => Renewed(d)'
  BY <1>12, AutoRollbackEffect DEF Renewed, Tracked, Typed
<1> QED BY <1>1, <1>2, <1>3, <1>4, <1>5, <1>6, <1>7, <1>8, <1>9, <1>10, <1>11, <1>12 DEF Next, Run

\* A step of one request keeps Passed if it keeps the part of that request.
LEMMA PassedByAll ==
  ASSUME Typed, Phases, Passed, Next, NEW r \in Requests, PassedBy(run[r])',
         plan' = plan, \A q \in Requests : q # r => run'[q] = run[q]
  PROVE  Passed'
<1> SUFFICES ASSUME NEW q \in Arrived'
             PROVE  PassedBy(run[q])'
  BY DEF Passed
<1>1. CASE q = r
  BY <1>1
<1>2. CASE q # r
  <2>1. run'[q] = run[q] /\ q \in Arrived
    BY <1>2 DEF Arrived
  <2>2. PassedBy(run[q]) /\ (run[q].pc = "ok" => run[q].todo # <<>>) /\ run[q].todo \in Seq(Clients)
    BY <2>1, RunFacts DEF Passed, Phases, PhaseOf, Runs, Arrived
  <2>3. run[q].pc = "ok" => Head(run[q].todo) \in Clients
    BY <2>2, TailFacts
  <2>4. Tracked' = Tracked /\ \A d \in Clients : Renewed(d) => Renewed(d)'
    BY PlanStays, RenewedStays
  <2> QED BY <2>1, <2>2, <2>3, <2>4 DEF PassedBy, Tracked
<1> QED BY <1>1, <1>2

\* A run without a failure leaves its clients deployed behind it.
LEMMA PassedKept ==
  ASSUME Typed, Phases, Passed, Next
  PROVE  Passed'
<1>1. ASSUME NEW r \in Requests, NEW op \in Ops, Read(r, op) PROVE Passed'
  <2>3. PassedBy(run[r])'
    BY <1>1, ReadEffect DEF PassedBy, Executing, Moved
  <2>4. plan' = plan /\ \A q \in Requests : q # r => run'[q] = run[q]
    BY <1>1, ReadEffect DEF Moved
  <2> QED BY <2>3, <2>4, PassedByAll
<1>2. ASSUME NEW r \in Requests, Write(r) PROVE Passed'
  <2>1. r \in Arrived /\ PhaseOf(run[r]) /\ PassedBy(run[r]) /\ run[r] \in Runs
    BY <1>2, WriteEffect, RunFacts DEF Phases, Passed
  <2>3. PassedBy(run[r])'
    BY <1>2, WriteEffect DEF PassedBy, Executing, Moved
  <2>4. plan' = plan /\ \A q \in Requests : q # r => run'[q] = run[q]
    BY <1>2, WriteEffect DEF Moved
  <2> QED BY <2>3, <2>4, PassedByAll
<1>3. ASSUME NEW r \in Requests, Resave(r) PROVE Passed'
  <2>1. r \in Arrived /\ PhaseOf(run[r]) /\ PassedBy(run[r]) /\ run[r] \in Runs
    BY <1>3, ResaveEffect, RunFacts DEF Phases, Passed
  <2>3. PassedBy(run[r])'
    BY <1>3, ResaveEffect DEF PassedBy, Executing, Moved
  <2>4. plan' = plan /\ \A q \in Requests : q # r => run'[q] = run[q]
    BY <1>3, ResaveEffect DEF Moved
  <2> QED BY <2>3, <2>4, PassedByAll
<1>4. ASSUME NEW r \in Requests, Prepare(r) PROVE Passed'
  <2>1. r \in Arrived /\ PhaseOf(run[r]) /\ PassedBy(run[r]) /\ run[r] \in Runs
    BY <1>4, PrepareEffect, RunFacts DEF Phases, Passed
  <2>0. run[r].task.status # "canary" => ToSet(ClientsToExecute(run[r].task)) = Clients
    BY ExecuteFacts DEF Typed
  <2>3. PassedBy(run[r])'
    BY <1>4, <2>0, PlanStays, PrepareEffect DEF PassedBy, Executing, Moved, Tracked
  <2>4. plan' = plan /\ \A q \in Requests : q # r => run'[q] = run[q]
    BY <1>4, PrepareEffect DEF Moved
  <2> QED BY <2>3, <2>4, PassedByAll
<1>5. ASSUME NEW r \in Requests, Mark(r) PROVE Passed'
  <2>1. r \in Arrived /\ PhaseOf(run[r]) /\ PassedBy(run[r]) /\ run[r] \in Runs
    BY <1>5, MarkEffect, RunFacts DEF Phases, Passed
  <2>0. LET t == run'[r].task IN
        /\ t.status = run[r].task.status /\ t.failed = run[r].task.failed
        /\ \A d \in Tracked : d # Head(run[r].todo) => t.results[d] = run[r].task.results[d]
    BY <1>5, <2>1, MarkEffect, WithResultFields DEF Runs, Moved, ResultStatuses
  <2>5. Head(run[r].todo) \in ToSet(run[r].todo)
    BY <1>5, <2>1, MarkEffect, TailFacts DEF Runs
  <2>6. Tracked' = Tracked /\ \A d \in Tracked : Renewed(d) => Renewed(d)'
    BY <1>5, MarkEffect, RenewedStays, PlanStays DEF Tracked
  <2>3. PassedBy(run[r])'
    BY <1>5, <2>0, <2>1, <2>5, <2>6, MarkEffect DEF PassedBy, Executing, Moved
  <2>4. plan' = plan /\ \A q \in Requests : q # r => run'[q] = run[q]
    BY <1>5, MarkEffect DEF Moved
  <2> QED BY <2>3, <2>4, PassedByAll
<1>6. ASSUME NEW r \in Requests, Deploy(r) PROVE Passed'
  <2>1. r \in Arrived /\ PhaseOf(run[r]) /\ PassedBy(run[r]) /\ run[r] \in Runs
    BY <1>6, DeployEffect, RunFacts DEF Phases, Passed
  <2>5. /\ Tracked' = Tracked
        /\ \A d \in Tracked : Renewed(d) => Renewed(d)'
        /\ run'[r].pc = "ok" => Renewed(Head(run[r].todo))'
    BY <1>6, DeployEffect, RenewedStays, PlanStays DEF Tracked, Renewed, Moved
  <2>3. PassedBy(run[r])'
    BY <1>6, <2>1, <2>5, DeployEffect DEF PassedBy, Executing, Moved
  <2>4. plan' = plan /\ \A q \in Requests : q # r => run'[q] = run[q]
    BY <1>6, DeployEffect DEF Moved
  <2> QED BY <2>3, <2>4, PassedByAll
<1>7. ASSUME NEW r \in Requests, Record(r) PROVE Passed'
  <2>1. r \in Arrived /\ PhaseOf(run[r]) /\ PassedBy(run[r]) /\ run[r] \in Runs
    BY <1>7, RecordEffect, RunFacts DEF Phases, Passed
  <2> DEFINE h == Head(run[r].todo)
  <2> PICK ok \in BOOLEAN : (ok <=> run[r].pc = "ok") /\ row' = Counted(run[r].task, h, ok)
    BY <1>7, RecordEffect
  <2>2. /\ run[r].todo # <<>> /\ h \in Clients /\ run[r].task \in Tasks
        /\ run[r].todo \in Seq(Clients) /\ run'[r].task = row'
    BY <1>7, <2>1, RecordEffect DEF Moved, Runs
  <2>3. ToSet(run[r].todo) = ToSet(Tail(run[r].todo)) \cup {h}
    BY <2>2, TailFacts
  <2>4. Tracked' = Tracked /\ \A d \in Tracked : Renewed(d) => Renewed(d)'
    BY <1>7, RecordEffect, RenewedStays, PlanStays DEF Tracked
  <2>5. row'.status = run[r].task.status
    BY <2>2, CountedFields
  <2>6. ASSUME h \in Tracked, row'.failed = 0
        PROVE  /\ run[r].task.failed = 0 /\ ok /\ row'.results[h] = "success"
               /\ \A d \in Tracked : d # h => row'.results[d] = run[r].task.results[d]
    <3>1. run[r].task.failed \in Nat
      BY <2>2 DEF Tasks
    <3> QED BY <2>2, <2>6, <3>1, CountedFields
  <2>7. h \notin Tracked => row' = run[r].task
    BY <2>2, CountedFields
  <2>8. ok => Renewed(h)
    BY <2>1 DEF PassedBy
  <2> HIDE DEF h
  <2>9. ASSUME run'[r].pc = "next", row'.status = "running", row'.failed = 0, NEW d \in Tracked
        PROVE  d \in ToSet(Tail(run[r].todo)) \/ (row'.results[d] = "success" /\ Renewed(d)')
    <3>1. run[r].task.status = "running" /\ run[r].task.failed = 0
      BY <2>5, <2>6, <2>7, <2>9
    <3>2. d \in ToSet(run[r].todo) \/ (run[r].task.results[d] = "success" /\ Renewed(d))
      BY <1>7, <2>1, <3>1, RecordEffect DEF PassedBy, Executing
    <3>3. CASE d = h
      BY <2>4, <2>6, <2>8, <2>9, <3>3
    <3>4. CASE d # h
      <4>1. row'.results[d] = run[r].task.results[d]
        BY <2>6, <2>7, <2>9, <3>4
      <4> QED BY <2>3, <2>4, <3>2, <3>4, <4>1
    <3> QED BY <3>3, <3>4
  <2>10. PassedBy(run[r])'
    <3>1. /\ run'[r].pc \in {"next", "stop"}
          /\ run'[r].pc = "next" => run'[r].todo = Tail(run[r].todo)
      BY <1>7, RecordEffect DEF Moved
    <3> QED BY <2>2, <2>4, <2>9, <3>1 DEF PassedBy, Executing
  <2> QED BY <1>7, <2>10, RecordEffect, PassedByAll DEF Moved
<1>8. ASSUME NEW r \in Requests, Stop(r) PROVE Passed'
  <2>1. r \in Arrived /\ PhaseOf(run[r]) /\ PassedBy(run[r]) /\ run[r] \in Runs
    BY <1>8, StopEffect, RunFacts DEF Phases, Passed
  <2>3. PassedBy(run[r])'
    BY <1>8, StopEffect DEF PassedBy, Executing, Moved
  <2>4. plan' = plan /\ \A q \in Requests : q # r => run'[q] = run[q]
    BY <1>8, StopEffect DEF Moved
  <2> QED BY <2>3, <2>4, PassedByAll
<1>9. ASSUME NEW r \in Requests, Finish(r) PROVE Passed'
  <2>1. r \in Arrived /\ PhaseOf(run[r]) /\ PassedBy(run[r]) /\ run[r] \in Runs
    BY <1>9, FinishEffect, RunFacts DEF Phases, Passed
  <2>3. PassedBy(run[r])'
    BY <1>9, FinishEffect DEF PassedBy, Executing, Moved
  <2>4. plan' = plan /\ \A q \in Requests : q # r => run'[q] = run[q]
    BY <1>9, FinishEffect DEF Moved
  <2> QED BY <2>3, <2>4, PassedByAll
<1>10. ASSUME NEW r \in Requests, Undo(r) PROVE Passed'
  <2>1. r \in Arrived /\ PhaseOf(run[r]) /\ PassedBy(run[r]) /\ run[r] \in Runs
    BY <1>10, UndoEffect, RunFacts DEF Phases, Passed
  <2>3. PassedBy(run[r])'
    BY <1>10, UndoEffect DEF PassedBy, Executing, Moved
  <2>4. plan' = plan /\ \A q \in Requests : q # r => run'[q] = run[q]
    BY <1>10, UndoEffect DEF Moved
  <2> QED BY <2>3, <2>4, PassedByAll
<1>11. ASSUME NEW r \in Requests, UndoEnd(r) PROVE Passed'
  <2>1. r \in Arrived /\ PhaseOf(run[r]) /\ PassedBy(run[r]) /\ run[r] \in Runs
    BY <1>11, UndoEndEffect, RunFacts DEF Phases, Passed
  <2>3. PassedBy(run[r])'
    BY <1>11, UndoEndEffect DEF PassedBy, Executing, Moved
  <2>4. plan' = plan /\ \A q \in Requests : q # r => run'[q] = run[q]
    BY <1>11, UndoEndEffect DEF Moved
  <2> QED BY <2>3, <2>4, PassedByAll
<1>12. ASSUME NEW r \in Requests, NEW c \in Clients, AutoRollback(r, c) PROVE Passed'
  <2>1. Tracked' = Tracked /\ Arrived' = Arrived /\ run' = run
    BY <1>12, AutoRollbackEffect, PlanStays DEF Arrived
  <2>2. ASSUME NEW q \in Arrived PROVE PassedBy(run[q])'
    <3>1. PassedBy(run[q]) /\ (run[q].pc = "ok" => run[q].todo # <<>>) /\ run[q].todo \in Seq(Clients)
      BY <2>2, RunFacts DEF Passed, Phases, PhaseOf, Runs, Arrived
    <3>2. \A d \in Clients : Renewed(d) => Renewed(d)'
      BY RenewedStays
    <3>3. run[q].pc = "ok" => Head(run[q].todo) \in Clients
      BY <3>1, TailFacts
    <3> HIDE DEF Renewed
    <3> QED BY <2>1, <3>1, <3>2, <3>3 DEF PassedBy, Tracked
  <2> QED BY <2>1, <2>2 DEF Passed
<1> QED BY <1>1, <1>2, <1>3, <1>4, <1>5, <1>6, <1>7, <1>8, <1>9, <1>10, <1>11, <1>12 DEF Next, Run

\* A step that does not complete the row cannot make a completed one wrong.
LEMMA CompletedStays ==
  ASSUME Typed, Phases, Next, CompletedIsDeployed, plan' = plan,
         row' = row \/ row'.status # "completed"
  PROVE  CompletedIsDeployed'
<1>1. Tracked' = Tracked /\ \A d \in Clients : Renewed(d) => Renewed(d)'
  BY PlanStays, RenewedStays
<1> QED BY <1>1 DEF CompletedIsDeployed, Renewed, Tracked

\* A completed row means that every client was deployed to.
LEMMA CompletedKept ==
  ASSUME Typed, Phases, Passed, CompletedIsDeployed, Next
  PROVE  CompletedIsDeployed'
<1>1. ASSUME NEW r \in Requests, NEW op \in Ops, Read(r, op) PROVE CompletedIsDeployed'
  BY <1>1, ReadEffect, CompletedStays
<1>2. ASSUME NEW r \in Requests, Write(r) PROVE CompletedIsDeployed'
  <2>1. run[r].task \in Tasks
    BY <1>2, WriteEffect, RunFacts DEF Runs
  <2>2. \A s \in {"canary", "running", "cancelled", "paused"} : Copy(r, s).status = s
    BY <2>1, CopyFields DEF Statuses
  <2>3. row' = row \/ row'.status # "completed"
    BY <1>2, <2>2, WriteEffect
  <2> QED BY <1>2, <2>3, WriteEffect, CompletedStays
<1>3. ASSUME NEW r \in Requests, Resave(r) PROVE CompletedIsDeployed'
  <2>1. r \in Arrived /\ PhaseOf(run[r]) /\ run[r].task \in Tasks
    BY <1>3, ResaveEffect, RunFacts DEF Phases, Runs
  <2>2. row'.status # "completed"
    BY <1>3, <2>1, ResaveEffect DEF PhaseOf, Executing, ResultStatuses, Statuses
  <2> QED BY <1>3, <2>2, ResaveEffect, CompletedStays
<1>4. ASSUME NEW r \in Requests, Prepare(r) PROVE CompletedIsDeployed'
  BY <1>4, PrepareEffect, CompletedStays
<1>5. ASSUME NEW r \in Requests, Mark(r) PROVE CompletedIsDeployed'
  <2>1. r \in Arrived /\ PhaseOf(run[r]) /\ run[r].task \in Tasks
    BY <1>5, MarkEffect, RunFacts DEF Phases, Runs
  <2>2. row'.status # "completed"
    BY <1>5, <2>1, MarkEffect, WithResultFields DEF PhaseOf, Executing, ResultStatuses, Statuses
  <2> QED BY <1>5, <2>2, MarkEffect, CompletedStays
<1>6. ASSUME NEW r \in Requests, Deploy(r) PROVE CompletedIsDeployed'
  BY <1>6, DeployEffect, CompletedStays
<1>7. ASSUME NEW r \in Requests, Record(r) PROVE CompletedIsDeployed'
  <2>1. r \in Arrived /\ PhaseOf(run[r]) /\ run[r].task \in Tasks
    BY <1>7, RecordEffect, RunFacts DEF Phases, Runs
  <2>2. row'.status # "completed"
    BY <1>7, <2>1, RecordEffect, CountedFields DEF PhaseOf, Executing, ResultStatuses, Statuses
  <2> QED BY <1>7, <2>2, RecordEffect, CompletedStays
<1>8. ASSUME NEW r \in Requests, Stop(r) PROVE CompletedIsDeployed'
  <2>1. r \in Arrived /\ PhaseOf(run[r]) /\ run[r].task \in Tasks
    BY <1>8, StopEffect, RunFacts DEF Phases, Runs
  <2>2. row'.status # "completed"
    BY <1>8, <2>1, StopEffect, CopyFields DEF PhaseOf, Executing, ResultStatuses, Statuses
  <2> QED BY <1>8, <2>2, StopEffect, CompletedStays
<1>9. ASSUME NEW r \in Requests, Finish(r) PROVE CompletedIsDeployed'
  <2>1. r \in Arrived /\ PassedBy(run[r]) /\ run[r] \in Runs /\ ToSet(run[r].todo) = {}
    BY <1>9, FinishEffect, RunFacts DEF Passed, ToSet
  <2> PICK s \in {"canary", "failed", "completed"} :
        /\ s = "completed" => run[r].task.status = "running" /\ run[r].task.failed = 0
        /\ row' = Copy(r, s)
    BY <1>9, FinishEffect
  <2>2. row'.status = s /\ row'.results = run[r].task.results
    BY <2>1, CopyFields DEF Runs, Statuses
  <2>3. s = "completed" => \A c \in Tracked : run[r].task.results[c] = "success" /\ Renewed(c)
    BY <1>9, <2>1, FinishEffect DEF PassedBy, Executing
  <2>4. Tracked' = Tracked /\ node' = node /\ undone' = undone
    BY <1>9, FinishEffect, PlanStays
  <2> QED BY <2>2, <2>3, <2>4 DEF CompletedIsDeployed, Renewed
<1>10. ASSUME NEW r \in Requests, Undo(r) PROVE CompletedIsDeployed'
  BY <1>10, UndoEffect, CompletedStays
<1>11. ASSUME NEW r \in Requests, UndoEnd(r) PROVE CompletedIsDeployed'
  <2>1. r \in Arrived /\ PhaseOf(run[r]) /\ run[r].task \in Tasks
    BY <1>11, UndoEndEffect, RunFacts DEF Phases, Runs
  <2>2. row'.status # "completed"
    BY <1>11, <2>1, UndoEndEffect, CopyFields DEF PhaseOf, Executing, ResultStatuses, Statuses
  <2> QED BY <1>11, <2>2, UndoEndEffect, CompletedStays
<1>12. ASSUME NEW r \in Requests, NEW c \in Clients, AutoRollback(r, c) PROVE CompletedIsDeployed'
  BY <1>12, AutoRollbackEffect, CompletedStays
<1> QED BY <1>1, <1>2, <1>3, <1>4, <1>5, <1>6, <1>7, <1>8, <1>9, <1>10, <1>11, <1>12 DEF Next, Run

\* A step of one request keeps Unfailed if it keeps the part of that request.
LEMMA UnfailedBy ==
  ASSUME Unfailed, NEW r \in Requests, plan.strategy # "continue" => UnfailedIs(run'[r]),
         plan' = plan, \A q \in Requests : q # r => run'[q] = run[q]
  PROVE  Unfailed'
<1> SUFFICES ASSUME plan.strategy # "continue", NEW q \in Arrived'
             PROVE  UnfailedIs(run'[q])
  BY DEF Unfailed
<1>1. CASE q = r
  BY <1>1
<1>2. CASE q # r
  <2>1. run'[q] = run[q] /\ q \in Arrived
    BY <1>2 DEF Arrived
  <2> QED BY <2>1 DEF Unfailed
<1> QED BY <1>1, <1>2

\* A run that stops at a failure has none behind it.
LEMMA UnfailedKept ==
  ASSUME Typed, Phases, Unfailed, Next
  PROVE  Unfailed'
<1>1. ASSUME NEW r \in Requests, NEW op \in Ops, Read(r, op) PROVE Unfailed'
  <2>2. plan.strategy # "continue" => UnfailedIs(run'[r])
    BY <1>1, ReadEffect DEF UnfailedIs, PhaseOf, Moved, SameTries
  <2>3. plan' = plan /\ \A q \in Requests : q # r => run'[q] = run[q]
    BY <1>1, ReadEffect DEF Moved
  <2> QED BY <2>2, <2>3, UnfailedBy
<1>2. ASSUME NEW r \in Requests, Write(r) PROVE Unfailed'
  <2>1. r \in Arrived /\ PhaseOf(run[r]) /\ run[r] \in Runs
        /\ (plan.strategy # "continue" => UnfailedIs(run[r]))
    BY <1>2, WriteEffect, RunFacts DEF Phases, Unfailed
  <2>2. plan.strategy # "continue" => UnfailedIs(run'[r])
    BY <1>2, <2>1, WriteEffect DEF UnfailedIs, PhaseOf, Moved, SameTries
  <2>3. plan' = plan /\ \A q \in Requests : q # r => run'[q] = run[q]
    BY <1>2, WriteEffect DEF Moved
  <2> QED BY <2>2, <2>3, UnfailedBy
<1>3. ASSUME NEW r \in Requests, Resave(r) PROVE Unfailed'
  <2>1. r \in Arrived /\ PhaseOf(run[r]) /\ run[r] \in Runs
        /\ (plan.strategy # "continue" => UnfailedIs(run[r]))
    BY <1>3, ResaveEffect, RunFacts DEF Phases, Unfailed
  <2>2. plan.strategy # "continue" => UnfailedIs(run'[r])
    BY <1>3, <2>1, ResaveEffect DEF UnfailedIs, PhaseOf, Moved, SameTries
  <2>3. plan' = plan /\ \A q \in Requests : q # r => run'[q] = run[q]
    BY <1>3, ResaveEffect DEF Moved
  <2> QED BY <2>2, <2>3, UnfailedBy
<1>4. ASSUME NEW r \in Requests, Prepare(r) PROVE Unfailed'
  <2>1. r \in Arrived /\ PhaseOf(run[r]) /\ run[r] \in Runs
        /\ (plan.strategy # "continue" => UnfailedIs(run[r]))
    BY <1>4, PrepareEffect, RunFacts DEF Phases, Unfailed
  <2>2. plan.strategy # "continue" => UnfailedIs(run'[r])
    BY <1>4, <2>1, PrepareEffect DEF UnfailedIs, PhaseOf, Moved, SameTries
  <2>3. plan' = plan /\ \A q \in Requests : q # r => run'[q] = run[q]
    BY <1>4, PrepareEffect DEF Moved
  <2> QED BY <2>2, <2>3, UnfailedBy
<1>5. ASSUME NEW r \in Requests, Mark(r) PROVE Unfailed'
  <2>1. r \in Arrived /\ PhaseOf(run[r]) /\ run[r] \in Runs
        /\ (plan.strategy # "continue" => UnfailedIs(run[r]))
    BY <1>5, MarkEffect, RunFacts DEF Phases, Unfailed
  <2>2. plan.strategy # "continue" => UnfailedIs(run'[r])
    BY <1>5, <2>1, MarkEffect DEF UnfailedIs, PhaseOf, Moved, SameTries
  <2>3. plan' = plan /\ \A q \in Requests : q # r => run'[q] = run[q]
    BY <1>5, MarkEffect DEF Moved
  <2> QED BY <2>2, <2>3, UnfailedBy
<1>6. ASSUME NEW r \in Requests, Deploy(r) PROVE Unfailed'
  <2>1. r \in Arrived /\ PhaseOf(run[r]) /\ run[r] \in Runs
        /\ (plan.strategy # "continue" => UnfailedIs(run[r]))
    BY <1>6, DeployEffect, RunFacts DEF Phases, Unfailed
  <2>0. Last(run'[r].tried) = Head(run[r].todo) /\ run'[r].tried # <<>>
    <3>1. run[r].tried \in Seq(Clients) /\ Head(run[r].todo) \in Clients
          /\ run'[r].tried = Append(run[r].tried, Head(run[r].todo))
      BY <1>6, <2>1, DeployEffect DEF Runs
    <3> QED BY <3>1, AppendFacts
  <2>2. plan.strategy # "continue" => UnfailedIs(run'[r])
    BY <1>6, <2>1, <2>0, DeployEffect DEF UnfailedIs, PhaseOf, Moved, SameTries
  <2>3. plan' = plan /\ \A q \in Requests : q # r => run'[q] = run[q]
    BY <1>6, DeployEffect DEF Moved
  <2> QED BY <2>2, <2>3, UnfailedBy
<1>7. ASSUME NEW r \in Requests, Record(r) PROVE Unfailed'
  <2>1. r \in Arrived /\ PhaseOf(run[r]) /\ run[r] \in Runs
        /\ (plan.strategy # "continue" => UnfailedIs(run[r]))
    BY <1>7, RecordEffect, RunFacts DEF Phases, Unfailed
  <2>2. plan.strategy # "continue" => UnfailedIs(run'[r])
    BY <1>7, <2>1, RecordEffect DEF UnfailedIs, PhaseOf, Moved, SameTries
  <2>3. plan' = plan /\ \A q \in Requests : q # r => run'[q] = run[q]
    BY <1>7, RecordEffect DEF Moved
  <2> QED BY <2>2, <2>3, UnfailedBy
<1>8. ASSUME NEW r \in Requests, Stop(r) PROVE Unfailed'
  <2>1. r \in Arrived /\ PhaseOf(run[r]) /\ run[r] \in Runs
        /\ (plan.strategy # "continue" => UnfailedIs(run[r]))
    BY <1>8, StopEffect, RunFacts DEF Phases, Unfailed
  <2>2. plan.strategy # "continue" => UnfailedIs(run'[r])
    BY <1>8, <2>1, StopEffect DEF UnfailedIs, PhaseOf, Moved, SameTries
  <2>3. plan' = plan /\ \A q \in Requests : q # r => run'[q] = run[q]
    BY <1>8, StopEffect DEF Moved
  <2> QED BY <2>2, <2>3, UnfailedBy
<1>9. ASSUME NEW r \in Requests, Finish(r) PROVE Unfailed'
  <2>1. r \in Arrived /\ PhaseOf(run[r]) /\ run[r] \in Runs
        /\ (plan.strategy # "continue" => UnfailedIs(run[r]))
    BY <1>9, FinishEffect, RunFacts DEF Phases, Unfailed
  <2>2. plan.strategy # "continue" => UnfailedIs(run'[r])
    BY <1>9, <2>1, FinishEffect DEF UnfailedIs, PhaseOf, Moved, SameTries
  <2>3. plan' = plan /\ \A q \in Requests : q # r => run'[q] = run[q]
    BY <1>9, FinishEffect DEF Moved
  <2> QED BY <2>2, <2>3, UnfailedBy
<1>10. ASSUME NEW r \in Requests, Undo(r) PROVE Unfailed'
  <2>1. r \in Arrived /\ PhaseOf(run[r]) /\ run[r] \in Runs
        /\ (plan.strategy # "continue" => UnfailedIs(run[r]))
    BY <1>10, UndoEffect, RunFacts DEF Phases, Unfailed
  <2>2. plan.strategy # "continue" => UnfailedIs(run'[r])
    BY <1>10, <2>1, UndoEffect DEF UnfailedIs, PhaseOf, Moved, SameTries
  <2>3. plan' = plan /\ \A q \in Requests : q # r => run'[q] = run[q]
    BY <1>10, UndoEffect DEF Moved
  <2> QED BY <2>2, <2>3, UnfailedBy
<1>11. ASSUME NEW r \in Requests, UndoEnd(r) PROVE Unfailed'
  <2>1. r \in Arrived /\ PhaseOf(run[r]) /\ run[r] \in Runs
        /\ (plan.strategy # "continue" => UnfailedIs(run[r]))
    BY <1>11, UndoEndEffect, RunFacts DEF Phases, Unfailed
  <2>2. plan.strategy # "continue" => UnfailedIs(run'[r])
    BY <1>11, <2>1, UndoEndEffect DEF UnfailedIs, PhaseOf, Moved, SameTries
  <2>3. plan' = plan /\ \A q \in Requests : q # r => run'[q] = run[q]
    BY <1>11, UndoEndEffect DEF Moved
  <2> QED BY <2>2, <2>3, UnfailedBy
<1>12. ASSUME NEW r \in Requests, NEW c \in Clients, AutoRollback(r, c) PROVE Unfailed'
  BY <1>12, AutoRollbackEffect DEF Unfailed, Arrived
<1> QED BY <1>1, <1>2, <1>3, <1>4, <1>5, <1>6, <1>7, <1>8, <1>9, <1>10, <1>11, <1>12 DEF Next, Run

-----------------------------------------------------------------------------
(* The counters of a copy and its results.                                 *)

\* The clients with a result in a given set are finitely many.
LEMMA TrackedFinite ==
  ASSUME NEW t, NEW S
  PROVE  IsFiniteSet(In(t, S)) /\ Cardinality(In(t, S)) \in Nat
<1>1. In(t, S) \subseteq Clients
  BY DEF In, Tracked
<1> QED BY <1>1, ListFacts, FS_Subset, FS_CardinalityType

\* A copy with the results and the counters of another.
LEMMA MatchesCopied ==
  ASSUME NEW t, NEW u, Matches(t), u.results = t.results, u.success = t.success,
         u.failed = t.failed, u.pending = t.pending
  PROVE  Matches(u)
BY DEF Matches, In

\* Mark changes no counter: pending counts those that are running, too.
LEMMA MatchesMarked ==
  ASSUME NEW t \in Tasks, NEW c, Matches(t),
         c \in Tracked => t.results[c] \in {"pending", "running"}
  PROVE  Matches(WithResult(t, c, "running"))
<1> DEFINE u == WithResult(t, c, "running")
<1>1. /\ u.success = t.success /\ u.failed = t.failed /\ u.pending = t.pending
      /\ \A d \in Tracked : u.results[d] = IF d = c THEN "running" ELSE t.results[d]
  BY WithResultFields DEF ResultStatuses
<1> HIDE DEF u
<1>2. /\ In(u, {"rollback"}) = In(t, {"rollback"})
      /\ In(u, {"success"}) = In(t, {"success"})
      /\ In(u, {"failed"}) = In(t, {"failed"})
      /\ In(u, {"pending", "running"}) = In(t, {"pending", "running"})
  BY <1>1 DEF In
<1>3. Matches(u)
  BY <1>1, <1>2 DEF Matches
<1> QED BY <1>3 DEF u

\* The outcome of a client moves it from the pending ones to its counter.
LEMMA MatchesCounted ==
  ASSUME NEW t \in Tasks, NEW c \in Clients, NEW ok \in BOOLEAN, Matches(t),
         c \in Tracked => t.results[c] \in {"pending", "running"}
  PROVE  Matches(Counted(t, c, ok))
<1> DEFINE u == Counted(t, c, ok)
<1>1. CASE c \notin Tracked
  BY <1>1, CountedFields
<1>2. CASE c \in Tracked
  <2>1. /\ u.success = IF ok THEN t.success + 1 ELSE t.success
        /\ u.failed = IF ok THEN t.failed ELSE t.failed + 1
        /\ u.pending = t.pending - 1
        /\ \A d \in Tracked : u.results[d] =
             IF d = c THEN IF ok THEN "success" ELSE "failed" ELSE t.results[d]
    BY <1>2, CountedFields
  <2> HIDE DEF u
  <2>2. In(u, {"rollback"}) = In(t, {"rollback"})
    BY <1>2, <2>1 DEF In
  <2>3. c \in In(t, {"pending", "running"})
        /\ In(u, {"pending", "running"}) = In(t, {"pending", "running"}) \ {c}
    BY <1>2, <2>1 DEF In
  <2>4. c \notin In(t, {"success"}) /\ c \notin In(t, {"failed"})
    BY <1>2 DEF In
  <2>5. /\ In(u, {"success"}) = IF ok THEN In(t, {"success"}) \cup {c} ELSE In(t, {"success"})
        /\ In(u, {"failed"}) = IF ok THEN In(t, {"failed"}) ELSE In(t, {"failed"}) \cup {c}
    BY <1>2, <2>1 DEF In
  <2>6. Cardinality(In(u, {"pending", "running"}))
          = Cardinality(In(t, {"pending", "running"})) - 1
    BY <2>3, TrackedFinite, FS_RemoveElement
  <2>7. /\ ok => Cardinality(In(u, {"success"})) = Cardinality(In(t, {"success"})) + 1
        /\ ~ok => Cardinality(In(u, {"failed"})) = Cardinality(In(t, {"failed"})) + 1
    BY <2>4, <2>5, TrackedFinite, FS_AddElement
  <2>8. /\ ~ok => Cardinality(In(u, {"success"})) = Cardinality(In(t, {"success"}))
        /\ ok => Cardinality(In(u, {"failed"})) = Cardinality(In(t, {"failed"}))
    BY <2>5
  <2>9. Matches(u)
    <3> SUFFICES ASSUME In(u, {"rollback"}) = {}
                 PROVE  /\ u.success = Cardinality(In(u, {"success"}))
                        /\ u.failed  = Cardinality(In(u, {"failed"}))
                        /\ u.pending = Cardinality(In(u, {"pending", "running"}))
      BY DEF Matches
    <3>1. /\ t.success = Cardinality(In(t, {"success"}))
          /\ t.failed  = Cardinality(In(t, {"failed"}))
          /\ t.pending = Cardinality(In(t, {"pending", "running"}))
      BY <2>2 DEF Matches
    <3>2. u.success = Cardinality(In(u, {"success"}))
      BY <2>1, <2>7, <2>8, <3>1
    <3>3. u.failed = Cardinality(In(u, {"failed"}))
      BY <2>1, <2>7, <2>8, <3>1
    <3>4. u.pending = Cardinality(In(u, {"pending", "running"}))
      BY <2>1, <2>6, <3>1
    <3> QED BY <3>2, <3>3, <3>4
  <2> QED BY <2>9 DEF u
<1> QED BY <1>1, <1>2

\* After a rollback nothing is claimed of the counters.
LEMMA MatchesUndone ==
  ASSUME NEW t \in Tasks, NEW c \in Tracked
  PROVE  Matches(WithResult(t, c, "rollback"))
<1>1. WithResult(t, c, "rollback").results[c] = "rollback"
  BY WithResultFields DEF ResultStatuses
<1>2. c \in In(WithResult(t, c, "rollback"), {"rollback"})
  BY <1>1 DEF In
<1> QED BY <1>2 DEF Matches

\* It does not depend on what the clients run.
LEMMA AccountedKeeps ==
  ASSUME Accounted, Tracked' = Tracked, Arrived' = Arrived, run' = run, row' = row,
         promoted' = promoted
  PROVE  Accounted'
<1> SUFFICES ASSUME ~promoted'
             PROVE  /\ Matches(row)' /\ (row.status \in {"pending", "scheduled"} => Fresh(row))'
                    /\ \A q \in Arrived' : AccountOf(run[q])'
  BY DEF Accounted
<1>1. /\ Matches(row) /\ (row.status \in {"pending", "scheduled"} => Fresh(row))
      /\ \A q \in Arrived : AccountOf(run[q])
  BY DEF Accounted
<1>2. ASSUME NEW q \in Arrived PROVE AccountOf(run[q])'
  <2>1. AccountOf(run[q])
    BY <1>1
  <2> QED BY <2>1 DEF AccountOf, Matches, In, Fresh
<1>3. Matches(row)' /\ (row.status \in {"pending", "scheduled"} => Fresh(row))'
  BY <1>1 DEF Matches, In, Fresh
<1> QED BY <1>2, <1>3

\* A step of one request keeps Accounted if its own copy and the row still add up.
LEMMA AccountedBy ==
  ASSUME Accounted, NEW r \in Requests, plan' = plan, promoted => promoted',
         \A q \in Requests : q # r => run'[q] = run[q],
         ~promoted' => /\ Matches(row')
                       /\ row'.status \in {"pending", "scheduled"} => Fresh(row')
                       /\ AccountOf(run'[r])
  PROVE  Accounted'
<1>0. Tracked' = Tracked
  BY PlanStays
<1> SUFFICES ASSUME ~promoted', NEW q \in Arrived'
             PROVE  AccountOf(run'[q])
  BY <1>0 DEF Accounted, AccountOf, Matches, In, Fresh
<1>2. CASE q = r
  BY <1>2
<1>3. CASE q # r
  <2>1. run'[q] = run[q] /\ q \in Arrived
    BY <1>3 DEF Arrived
  <2> QED BY <2>1 DEF Accounted
<1> QED BY <1>2, <1>3

\* Counters stay those of the results until a promotion.
LEMMA AccountedKept ==
  ASSUME Typed, Phases, Accounted, Next
  PROVE  Accounted'
<1>1. ASSUME NEW r \in Requests, NEW op \in Ops, Read(r, op) PROVE Accounted'
  <2>2. /\ plan' = plan /\ (promoted => promoted') /\ row' = row
        /\ \A q \in Requests : q # r => run'[q] = run[q]
    BY <1>1, ReadEffect
  <2> SUFFICES ASSUME ~promoted' PROVE AccountOf(run'[r])
    BY <2>2, AccountedBy DEF Accounted
  <2>3. Matches(row) /\ (row.status \in {"pending", "scheduled"} => Fresh(row))
    BY <2>2 DEF Accounted
  <2>4. op = "start" => Fresh(row)
    BY <1>1, <2>3, ReadEffect DEF Admits
  <2> QED BY <1>1, <2>3, <2>4, ReadEffect DEF AccountOf, Executing
<1>2. ASSUME NEW r \in Requests, Write(r) PROVE Accounted'
  <2>1. /\ r \in Arrived /\ PhaseOf(run[r]) /\ (Promoting(run[r]) => promoted)
        /\ run[r] \in Runs /\ run[r].task \in Tasks /\ run[r].todo \in Seq(Clients)
    BY <1>2, WriteEffect, RunFacts DEF Phases, Runs
  <2>2. /\ plan' = plan /\ (promoted => promoted')
        /\ \A q \in Requests : q # r => run'[q] = run[q]
    BY <1>2, WriteEffect DEF Moved
  <2> SUFFICES ASSUME ~promoted'
               PROVE  /\ Matches(row')
                      /\ row'.status \in {"pending", "scheduled"} => Fresh(row')
                      /\ AccountOf(run'[r])
    BY <2>2, AccountedBy
  <2>3. Matches(row) /\ (row.status \in {"pending", "scheduled"} => Fresh(row)) /\ AccountOf(run[r])
    BY <2>1, <2>2 DEF Accounted
  <2>4. ASSUME NEW s \in {"canary", "running", "cancelled", "paused"}
        PROVE  /\ Matches(Copy(r, s)) /\ Copy(r, s).status = s
               /\ Copy(r, s).results = run[r].task.results
    <3>1. Copy(r, s) \in Tasks /\ Copy(r, s).status = s
          /\ Copy(r, s).results = run[r].task.results
          /\ Copy(r, s).success = run[r].task.success
          /\ Copy(r, s).failed = run[r].task.failed
          /\ Copy(r, s).pending = run[r].task.pending
      BY <2>1, CopyFields DEF Statuses
    <3> QED BY <2>3, <3>1, MatchesCopied DEF AccountOf
  <2>5. run[r].op = "start" => Fresh(run[r].task)
    BY <1>2, <2>3, WriteEffect DEF AccountOf
  <2>6. CASE run[r].op = "start"
    <3> PICK s \in {"canary", "running"} :
          Moved(r, "prepare", Copy(r, s), run[r].todo) /\ row' = Copy(r, s)
      BY <1>2, <2>6, WriteEffect
    <3>1. Fresh(Copy(r, s))
      BY <2>4, <2>5, <2>6 DEF Fresh
    <3> QED BY <2>4, <3>1 DEF Moved, AccountOf, Executing
  <2>7. CASE run[r].op \in {"cancel", "pause"}
    <3> PICK s \in {"cancelled", "paused"} :
          Moved(r, "done", Copy(r, s), run[r].todo) /\ row' = Copy(r, s)
      BY <1>2, <2>7, WriteEffect
    <3> QED BY <2>4 DEF Moved, AccountOf, Executing
  <2>8. CASE run[r].op = "rollback"
    <3> PICK pc \in {"done", "undo"} : Moved(r, pc, run[r].task, ClientIDs)
      BY <1>2, <2>8, WriteEffect
    <3>1. row' = row
      BY <1>2, <2>8, WriteEffect
    <3> QED BY <2>3, <3>1 DEF Moved, AccountOf, Executing
  <2> QED BY <1>2, <2>6, <2>7, <2>8, WriteEffect
<1>3. ASSUME NEW r \in Requests, Resave(r) PROVE Accounted'
  <2>1. /\ r \in Arrived /\ PhaseOf(run[r]) /\ (Promoting(run[r]) => promoted)
        /\ run[r] \in Runs /\ run[r].task \in Tasks /\ run[r].todo \in Seq(Clients)
    BY <1>3, ResaveEffect, RunFacts DEF Phases, Runs
  <2>2. /\ plan' = plan /\ (promoted => promoted')
        /\ \A q \in Requests : q # r => run'[q] = run[q]
    BY <1>3, ResaveEffect DEF Moved
  <2> SUFFICES ASSUME ~promoted'
               PROVE  /\ Matches(row')
                      /\ row'.status \in {"pending", "scheduled"} => Fresh(row')
                      /\ AccountOf(run'[r])
    BY <2>2, AccountedBy
  <2>3. Matches(row) /\ (row.status \in {"pending", "scheduled"} => Fresh(row)) /\ AccountOf(run[r])
    BY <2>1, <2>2 DEF Accounted
  <2> QED BY <1>3, <2>1, <2>2, ResaveEffect DEF PhaseOf, Promoting
<1>4. ASSUME NEW r \in Requests, Prepare(r) PROVE Accounted'
  <2>1. /\ r \in Arrived /\ PhaseOf(run[r]) /\ (Promoting(run[r]) => promoted)
        /\ run[r] \in Runs /\ run[r].task \in Tasks /\ run[r].todo \in Seq(Clients)
    BY <1>4, PrepareEffect, RunFacts DEF Phases, Runs
  <2>2. /\ plan' = plan /\ (promoted => promoted')
        /\ \A q \in Requests : q # r => run'[q] = run[q]
    BY <1>4, PrepareEffect DEF Moved
  <2> SUFFICES ASSUME ~promoted'
               PROVE  /\ Matches(row')
                      /\ row'.status \in {"pending", "scheduled"} => Fresh(row')
                      /\ AccountOf(run'[r])
    BY <2>2, AccountedBy
  <2>3. Matches(row) /\ (row.status \in {"pending", "scheduled"} => Fresh(row)) /\ AccountOf(run[r])
    BY <2>1, <2>2 DEF Accounted
  <2> DEFINE l == ClientsToExecute(run[r].task)
  <2>4. run[r].op = "start"
    BY <1>4, <2>1, <2>2, PrepareEffect DEF PhaseOf, Promoting
  <2>5. \A c \in Tracked : run[r].task.results[c] = "pending"
    BY <1>4, <2>3, <2>4, PrepareEffect DEF AccountOf, Fresh
  <2>6. \A i, j \in 1 .. Len(l) : l[i] = l[j] => i = j
    BY ExecuteFacts DEF Typed
  <2>7. row' = row /\ (Moved(r, "next", run[r].task, l) \/ Moved(r, "lost", run[r].task, run[r].todo))
    BY <1>4, PrepareEffect
  <2> HIDE DEF l
  <2> QED BY <2>3, <2>5, <2>6, <2>7 DEF Moved, AccountOf, Executing
<1>5. ASSUME NEW r \in Requests, Mark(r) PROVE Accounted'
  <2>1. /\ r \in Arrived /\ PhaseOf(run[r]) /\ (Promoting(run[r]) => promoted)
        /\ run[r] \in Runs /\ run[r].task \in Tasks /\ run[r].todo \in Seq(Clients)
    BY <1>5, MarkEffect, RunFacts DEF Phases, Runs
  <2>2. /\ plan' = plan /\ (promoted => promoted')
        /\ \A q \in Requests : q # r => run'[q] = run[q]
    BY <1>5, MarkEffect DEF Moved
  <2> SUFFICES ASSUME ~promoted'
               PROVE  /\ Matches(row')
                      /\ row'.status \in {"pending", "scheduled"} => Fresh(row')
                      /\ AccountOf(run'[r])
    BY <2>2, AccountedBy
  <2>3. Matches(row) /\ (row.status \in {"pending", "scheduled"} => Fresh(row)) /\ AccountOf(run[r])
    BY <2>1, <2>2 DEF Accounted
  <2> DEFINE h == Head(run[r].todo)
  <2>4. run[r].op = "start"
    BY <1>5, <2>1, <2>2, MarkEffect DEF PhaseOf, Promoting, Executing
  <2>5. run[r].todo # <<>> /\ h = run[r].todo[1] /\ 1 \in 1 .. Len(run[r].todo)
    BY <1>5, <2>1, MarkEffect
  <2>6. h \in Tracked => run[r].task.results[h] \in {"pending", "running"}
    BY <1>5, <2>3, <2>4, <2>5, MarkEffect DEF AccountOf, Executing
  <2> HIDE DEF h
  <2>7. Matches(WithResult(run[r].task, h, "running"))
    BY <2>1, <2>3, <2>6, MatchesMarked DEF AccountOf
  <2>8. /\ row' = WithResult(run[r].task, h, "running") /\ run'[r].task = row'
        /\ run'[r].todo = run[r].todo /\ run'[r].pc = "deploy" /\ run'[r].op = "start"
    BY <1>5, <2>4, MarkEffect DEF Moved, h
  <2>9. /\ row'.status = run[r].task.status
        /\ \A d \in Tracked : row'.results[d] = IF d = h THEN "running" ELSE run[r].task.results[d]
    BY <2>1, <2>8, WithResultFields DEF ResultStatuses
  <2>10. row'.status \in {"canary", "running"}
    BY <1>5, <2>1, <2>9, MarkEffect DEF PhaseOf, Executing
  <2>11. AccountOf(run'[r])
    BY <1>5, <2>3, <2>4, <2>7, <2>8, <2>9, MarkEffect DEF AccountOf, Executing
  <2> QED BY <2>7, <2>8, <2>10, <2>11
<1>6. ASSUME NEW r \in Requests, Deploy(r) PROVE Accounted'
  <2>1. /\ r \in Arrived /\ PhaseOf(run[r]) /\ (Promoting(run[r]) => promoted)
        /\ run[r] \in Runs /\ run[r].task \in Tasks /\ run[r].todo \in Seq(Clients)
    BY <1>6, DeployEffect, RunFacts DEF Phases, Runs
  <2>2. /\ plan' = plan /\ (promoted => promoted')
        /\ \A q \in Requests : q # r => run'[q] = run[q]
    BY <1>6, DeployEffect DEF Moved
  <2> SUFFICES ASSUME ~promoted'
               PROVE  /\ Matches(row')
                      /\ row'.status \in {"pending", "scheduled"} => Fresh(row')
                      /\ AccountOf(run'[r])
    BY <2>2, AccountedBy
  <2>3. Matches(row) /\ (row.status \in {"pending", "scheduled"} => Fresh(row)) /\ AccountOf(run[r])
    BY <2>1, <2>2 DEF Accounted
  <2>4. /\ run'[r].op = run[r].op /\ run'[r].task = run[r].task /\ run'[r].todo = run[r].todo
        /\ run'[r].pc \in {"ok", "err"} /\ run[r].pc = "deploy"
        /\ row' = row
    BY <1>6, DeployEffect DEF Moved
  <2> QED BY <2>3, <2>4 DEF AccountOf, Executing
<1>7. ASSUME NEW r \in Requests, Record(r) PROVE Accounted'
  <2>1. /\ r \in Arrived /\ PhaseOf(run[r]) /\ (Promoting(run[r]) => promoted)
        /\ run[r] \in Runs /\ run[r].task \in Tasks /\ run[r].todo \in Seq(Clients)
    BY <1>7, RecordEffect, RunFacts DEF Phases, Runs
  <2>2. /\ plan' = plan /\ (promoted => promoted')
        /\ \A q \in Requests : q # r => run'[q] = run[q]
    BY <1>7, RecordEffect DEF Moved
  <2> SUFFICES ASSUME ~promoted'
               PROVE  /\ Matches(row')
                      /\ row'.status \in {"pending", "scheduled"} => Fresh(row')
                      /\ AccountOf(run'[r])
    BY <2>2, AccountedBy
  <2>3. Matches(row) /\ (row.status \in {"pending", "scheduled"} => Fresh(row)) /\ AccountOf(run[r])
    BY <2>1, <2>2 DEF Accounted
  <2> DEFINE h == Head(run[r].todo)
             rest == Tail(run[r].todo)
  <2>4. run[r].op = "start"
    BY <1>7, <2>1, <2>2, RecordEffect DEF PhaseOf, Promoting, Executing
  <2>5. /\ run[r].todo # <<>> /\ h = run[r].todo[1] /\ 1 \in 1 .. Len(run[r].todo)
        /\ h \in Clients
    BY <1>7, <2>1, RecordEffect
  <2>6. /\ \A i \in 1 .. Len(run[r].todo) : run[r].todo[i] \in Tracked =>
             run[r].task.results[run[r].todo[i]] \in {"pending", "running"}
        /\ \A i, j \in 1 .. Len(run[r].todo) : run[r].todo[i] = run[r].todo[j] => i = j
    BY <1>7, <2>3, <2>4, RecordEffect DEF AccountOf, Executing
  <2> PICK ok \in BOOLEAN : row' = Counted(run[r].task, h, ok)
    BY <1>7, RecordEffect
  <2>7. Matches(row')
    BY <2>1, <2>3, <2>5, <2>6, MatchesCounted DEF AccountOf
  <2>8. /\ row'.status = run[r].task.status
        /\ \A d \in Tracked : d # h => row'.results[d] = run[r].task.results[d]
    BY <2>1, <2>5, CountedFields
  <2>9. row'.status \in {"canary", "running"}
    BY <1>7, <2>1, <2>8, RecordEffect DEF PhaseOf, Executing
  <2>10. \A i \in 1 .. Len(rest) : i + 1 \in 1 .. Len(run[r].todo) /\ rest[i] = run[r].todo[i + 1]
    BY <2>1, <2>5, TailFacts
  <2> HIDE DEF h, rest
  <2>11. \A i \in 1 .. Len(rest) : rest[i] \in Tracked => row'.results[rest[i]] \in {"pending", "running"}
    BY <2>5, <2>6, <2>8, <2>10
  <2>12. \A i, j \in 1 .. Len(rest) : rest[i] = rest[j] => i = j
    BY <2>6, <2>10
  <2>13. run'[r].task = row' /\ run'[r].pc \in {"next", "stop"} /\ run'[r].todo = rest
    BY <1>7, RecordEffect DEF Moved, rest
  <2>14. AccountOf(run'[r])
    BY <2>7, <2>11, <2>12, <2>13 DEF AccountOf
  <2> QED BY <2>7, <2>9, <2>14
<1>8. ASSUME NEW r \in Requests, Stop(r) PROVE Accounted'
  <2>1. /\ r \in Arrived /\ PhaseOf(run[r]) /\ (Promoting(run[r]) => promoted)
        /\ run[r] \in Runs /\ run[r].task \in Tasks /\ run[r].todo \in Seq(Clients)
    BY <1>8, StopEffect, RunFacts DEF Phases, Runs
  <2>2. /\ plan' = plan /\ (promoted => promoted')
        /\ \A q \in Requests : q # r => run'[q] = run[q]
    BY <1>8, StopEffect DEF Moved
  <2> SUFFICES ASSUME ~promoted'
               PROVE  /\ Matches(row')
                      /\ row'.status \in {"pending", "scheduled"} => Fresh(row')
                      /\ AccountOf(run'[r])
    BY <2>2, AccountedBy
  <2>3. Matches(row) /\ (row.status \in {"pending", "scheduled"} => Fresh(row)) /\ AccountOf(run[r])
    BY <2>1, <2>2 DEF Accounted
  <2> PICK s \in {"failed", "paused"} :
        Moved(r, "done", Copy(r, s), run[r].todo) /\ row' = Copy(r, s)
    BY <1>8, StopEffect
  <2>4. /\ Copy(r, s).status = s
        /\ Copy(r, s).results = run[r].task.results
        /\ Copy(r, s).success = run[r].task.success
        /\ Copy(r, s).failed = run[r].task.failed
        /\ Copy(r, s).pending = run[r].task.pending
    BY <2>1, CopyFields DEF Statuses
  <2>5. Matches(Copy(r, s))
    BY <2>3, <2>4, MatchesCopied DEF AccountOf
  <2> QED BY <2>4, <2>5 DEF Moved, AccountOf, Executing
<1>9. ASSUME NEW r \in Requests, Finish(r) PROVE Accounted'
  <2>1. /\ r \in Arrived /\ PhaseOf(run[r]) /\ (Promoting(run[r]) => promoted)
        /\ run[r] \in Runs /\ run[r].task \in Tasks /\ run[r].todo \in Seq(Clients)
    BY <1>9, FinishEffect, RunFacts DEF Phases, Runs
  <2>2. /\ plan' = plan /\ (promoted => promoted')
        /\ \A q \in Requests : q # r => run'[q] = run[q]
    BY <1>9, FinishEffect DEF Moved
  <2> SUFFICES ASSUME ~promoted'
               PROVE  /\ Matches(row')
                      /\ row'.status \in {"pending", "scheduled"} => Fresh(row')
                      /\ AccountOf(run'[r])
    BY <2>2, AccountedBy
  <2>3. Matches(row) /\ (row.status \in {"pending", "scheduled"} => Fresh(row)) /\ AccountOf(run[r])
    BY <2>1, <2>2 DEF Accounted
  <2> PICK s \in {"canary", "failed", "completed"} :
        Moved(r, "done", Copy(r, s), run[r].todo) /\ row' = Copy(r, s)
    BY <1>9, FinishEffect
  <2>4. /\ Copy(r, s).status = s
        /\ Copy(r, s).results = run[r].task.results
        /\ Copy(r, s).success = run[r].task.success
        /\ Copy(r, s).failed = run[r].task.failed
        /\ Copy(r, s).pending = run[r].task.pending
    BY <2>1, CopyFields DEF Statuses
  <2>5. Matches(Copy(r, s))
    BY <2>3, <2>4, MatchesCopied DEF AccountOf
  <2> QED BY <2>4, <2>5 DEF Moved, AccountOf, Executing
<1>10. ASSUME NEW r \in Requests, Undo(r) PROVE Accounted'
  <2>1. /\ r \in Arrived /\ PhaseOf(run[r]) /\ (Promoting(run[r]) => promoted)
        /\ run[r] \in Runs /\ run[r].task \in Tasks /\ run[r].todo \in Seq(Clients)
    BY <1>10, UndoEffect, RunFacts DEF Phases, Runs
  <2>2. /\ plan' = plan /\ (promoted => promoted')
        /\ \A q \in Requests : q # r => run'[q] = run[q]
    BY <1>10, UndoEffect DEF Moved
  <2> SUFFICES ASSUME ~promoted'
               PROVE  /\ Matches(row')
                      /\ row'.status \in {"pending", "scheduled"} => Fresh(row')
                      /\ AccountOf(run'[r])
    BY <2>2, AccountedBy
  <2>3. Matches(row) /\ (row.status \in {"pending", "scheduled"} => Fresh(row)) /\ AccountOf(run[r])
    BY <2>1, <2>2 DEF Accounted
  <2> PICK c \in Tracked :
        \E t \in {run[r].task, WithResult(run[r].task, c, "rollback")} :
          Moved(r, "undo", t, run'[r].todo)
    BY <1>10, UndoEffect
  <2> PICK t \in {run[r].task, WithResult(run[r].task, c, "rollback")} :
        Moved(r, "undo", t, run'[r].todo)
    OBVIOUS
  <2>4. Matches(t)
    BY <2>1, <2>3, MatchesUndone DEF AccountOf
  <2>5. row' = row
    BY <1>10, UndoEffect
  <2> QED BY <2>3, <2>4, <2>5 DEF Moved, AccountOf, Executing
<1>11. ASSUME NEW r \in Requests, UndoEnd(r) PROVE Accounted'
  <2>1. /\ r \in Arrived /\ PhaseOf(run[r]) /\ (Promoting(run[r]) => promoted)
        /\ run[r] \in Runs /\ run[r].task \in Tasks /\ run[r].todo \in Seq(Clients)
    BY <1>11, UndoEndEffect, RunFacts DEF Phases, Runs
  <2>2. /\ plan' = plan /\ (promoted => promoted')
        /\ \A q \in Requests : q # r => run'[q] = run[q]
    BY <1>11, UndoEndEffect DEF Moved
  <2> SUFFICES ASSUME ~promoted'
               PROVE  /\ Matches(row')
                      /\ row'.status \in {"pending", "scheduled"} => Fresh(row')
                      /\ AccountOf(run'[r])
    BY <2>2, AccountedBy
  <2>3. Matches(row) /\ (row.status \in {"pending", "scheduled"} => Fresh(row)) /\ AccountOf(run[r])
    BY <2>1, <2>2 DEF Accounted
  <2> PICK s \in {"cancelled"} :
        Moved(r, "done", Copy(r, s), run[r].todo) /\ row' = Copy(r, s)
    BY <1>11, UndoEndEffect
  <2>4. /\ Copy(r, s).status = s
        /\ Copy(r, s).results = run[r].task.results
        /\ Copy(r, s).success = run[r].task.success
        /\ Copy(r, s).failed = run[r].task.failed
        /\ Copy(r, s).pending = run[r].task.pending
    BY <2>1, CopyFields DEF Statuses
  <2>5. Matches(Copy(r, s))
    BY <2>3, <2>4, MatchesCopied DEF AccountOf
  <2> QED BY <2>4, <2>5 DEF Moved, AccountOf, Executing
<1>12. ASSUME NEW r \in Requests, NEW c \in Clients, AutoRollback(r, c) PROVE Accounted'
  BY <1>12, AutoRollbackEffect, PlanStays, AccountedKeeps DEF Arrived
<1> QED BY <1>1, <1>2, <1>3, <1>4, <1>5, <1>6, <1>7, <1>8, <1>9, <1>10, <1>11, <1>12 DEF Next, Run

-----------------------------------------------------------------------------
(* The theorems.                                                           *)

\* A task that has just been created satisfies the invariant.
LEMMA InitDInv == Init => DInv
<1> SUFFICES ASSUME Init PROVE DInv
  OBVIOUS
<1>1. IsFiniteSet(Tracked) /\ Cardinality(Tracked) \in Nat
  BY ListFacts, FS_Subset, FS_EmptySet, FS_CardinalityType DEF Tracked
<1>2. Arrived = {}
  BY DEF Init, Arrived
<1>3. /\ row.status \in {"pending", "scheduled"} /\ row.success = 0 /\ row.failed = 0
      /\ row.pending = Cardinality(Tracked)
      /\ row.results = [c \in Tracked |-> "pending"]
  BY DEF Init
<1>4. row \in Tasks
  BY <1>1 DEF Init, Tasks, Statuses, ResultStatuses
<1>5. Typed
  BY <1>4 DEF Init, Typed
<1>6. /\ In(row, {"success"}) = {} /\ In(row, {"failed"}) = {}
      /\ In(row, {"pending", "running"}) = Tracked
  BY <1>3 DEF In
<1>7. Matches(row) /\ Fresh(row)
  BY <1>3, <1>6, FS_EmptySet DEF Matches, Fresh
<1> QED
  BY <1>2, <1>3, <1>5, <1>7
     DEF DInv, Phases, Share, Passed, CompletedIsDeployed, Accounted, Unfailed

\* Every step keeps it.
LEMMA NextDInv == DInv /\ [Next]_vars => DInv'
<1> SUFFICES ASSUME DInv, [Next]_vars PROVE DInv'
  OBVIOUS
<1>1. CASE Next
  BY <1>1, TypedKept, PhasesKept, ShareKept, PassedKept, CompletedKept, AccountedKept,
     UnfailedKept DEF DInv
<1>2. CASE UNCHANGED vars
  <2>1. Tracked' = Tracked /\ Tasks' = Tasks /\ Runs' = Runs /\ Canaries' = Canaries
        /\ Arrived' = Arrived
    BY <1>2, PlanStays DEF vars, Arrived
  <2>2. Typed' /\ Phases'
    BY <1>2, <2>1 DEF vars, DInv, Typed, Phases
  <2>3. Share' /\ Unfailed'
    BY <1>2, <2>1 DEF vars, DInv, Share, ShareOf, Unfailed
  <2>4. CompletedIsDeployed'
    BY <1>2, <2>1 DEF vars, DInv, CompletedIsDeployed
  <2>5. Passed'
    BY <1>2, <2>1 DEF vars, DInv, Passed, PassedBy, Renewed
  <2>6. Accounted'
    BY <1>2, <2>1, AccountedKeeps DEF vars, DInv
  <2> QED BY <2>2, <2>3, <2>4, <2>5, <2>6 DEF DInv
<1> QED BY <1>1, <1>2

\* DInv is inductive.
THEOREM DeployInvariant == Spec => []DInv
BY InitDInv, NextDInv, PTL DEF Spec

\* Every variable keeps its type: a row and the copies of it always have a
\* status, results and counters the code knows.
THEOREM DeployTypeCorrect == Spec => []TypeOK
<1>1. DInv => TypeOK
  <2> SUFFICES ASSUME Typed PROVE TypeOK
    BY DEF DInv
  <2>1. ASSUME NEW r \in Arrived PROVE run[r] \in Runs
    BY <2>1, RunFacts DEF Arrived
  <2>2. ASSUME NEW r \in Arrived PROVE ToSet(run[r].todo) \subseteq Clients
    <3>1. run[r].todo \in Seq(Clients)
      BY <2>1 DEF Runs
    <3> QED BY <3>1 DEF ToSet
  <2> QED BY <2>1, <2>2 DEF TypeOK, Typed, Runs
<1> QED BY <1>1, DeployInvariant, PTL

\* Requests of one task overlap and save their copies over each other, and yet
\* until a promotion only canaries are deployed to, completed means deployed
\* everywhere, the counters are those of the results, and a run that is not
\* told to go on ends with its first failure.
THEOREM DeploysAlwaysSound == Spec => []DeploysAreSound
<1>1. DInv => CanaryFirst
  BY DEF DInv, Share, ShareOf, CanaryFirst
<1>2. DInv => StopsAtFailure
  BY DEF DInv, Unfailed, UnfailedIs, StopsAtFailure
<1>3. ASSUME DInv PROVE CountsMatchResults
  <2>1. Cardinality(In(row, {"rollback"})) = 0 => In(row, {"rollback"}) = {}
    BY TrackedFinite, FS_EmptySet
  <2>2. ~promoted => Matches(row)
    BY <1>3 DEF DInv, Accounted
  <2> QED BY <2>1, <2>2 DEF CountsMatchResults, Matches, In
<1>4. DInv => CompletedIsDeployed
  BY DEF DInv
<1>5. DInv /\ TypeOK => DeploysAreSound
  BY <1>1, <1>2, <1>3, <1>4 DEF DeploysAreSound
<1> QED BY <1>5, DeployInvariant, DeployTypeCorrect, PTL
=============================================================================
