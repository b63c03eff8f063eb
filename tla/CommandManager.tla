--------------------------- MODULE CommandManager ---------------------------
(***************************************************************************)
(* pkg/command: one multicast of a command (SendCommandToMultiple) to the  *)
(* clients 1 .. N, a CancelMultiCommand that races it, the manager's Stop, *)
(* and what becomes of each command at its client (CommandHandler and      *)
(* handleData of pkg/transport/client).                                    *)
(*                                                                         *)
(* Goroutines: the caller, one worker per client, one waiter per command   *)
(* that was sent (waitForCommandResponse), the canceller and the cleanup.  *)
(***************************************************************************)
EXTENDS Naturals, FiniteSets

CONSTANT N  \* number of clients

ASSUME CommandAssumption == N \in Nat \ {0}

VARIABLES
  main,      \* the caller inside SendCommandToMultiple
  launch,    \* the loop's index: the next client
  worker,    \* the goroutine of each client
  final,     \* the copy of the command that the worker polled
  results,   \* the slice of ClientCommandResult
  success, cancelled, \* successCount, cancelledCount
  resp,      \* the MultiCommandResponse
  cmd,       \* CommandManager.commands: the status of each command
  promise,   \* what the waiter gets
  exec,      \* what the client did
  task,      \* MultiCommandTask.Status
  listed,    \* MultiCommandTask.CommandIDs
  canceller, \* CancelMultiCommand
  todo,      \* its copy of CommandIDs, what is left of it
  checked,   \* the command it found unfinished, not updated yet (0: none)
  fired,     \* the task's context is cancelled
  stopped    \* the manager's context is cancelled

vars == <<main, launch, worker, final, results, success, cancelled, resp, cmd,
          promise, exec, task, listed, canceller, todo, checked, fired, stopped>>

Clients == 1 .. N
Terminal == {"completed", "failed", "timeout", "cancelled"}
Status == Terminal \cup {"pending"}
NoResponse == [success |-> 0, cancelled |-> 0, results |-> [i \in Clients |-> "nil"]]

TypeOK ==
  /\ main \in {"launching", "joining", "done", "returning", "returned"}
  /\ launch \in 1 .. N + 1
  /\ worker \in [Clients -> {"none", "started", "sending", "sent", "polling",
                             "seen", "finished"}]
  /\ final \in [Clients -> Status]
  /\ results \in [Clients -> Status \cup {"nil"}]
  /\ success \in 0 .. N
  /\ cancelled \in 0 .. N
  /\ resp \in [success : 0 .. N, cancelled : 0 .. N,
               results : [Clients -> Status \cup {"nil"}]]
  /\ cmd \in [Clients -> Status \cup {"none", "gone"}]
  /\ promise \in [Clients -> {"none", "open", "success", "failure", "error", "taken"}]
  /\ exec \in [Clients -> {"none", "sent", "ok", "err", "refused"}]
  /\ task \in {"running", "completed", "cancelled"}
  /\ listed \subseteq Clients
  /\ canceller \in {"idle", "marked", "fired", "updating", "returned"}
  /\ todo \subseteq Clients
  /\ checked \in 0 .. N
  /\ fired \in BOOLEAN
  /\ stopped \in BOOLEAN

Init ==
  /\ main = "launching"
  /\ launch = 1
  /\ worker = [i \in Clients |-> "none"]
  /\ final = [i \in Clients |-> "pending"]
  /\ results = [i \in Clients |-> "nil"]
  /\ success = 0
  /\ cancelled = 0
  /\ resp = NoResponse
  /\ cmd = [i \in Clients |-> "none"]
  /\ promise = [i \in Clients |-> "none"]
  /\ exec = [i \in Clients |-> "none"]
  /\ task = "running"
  /\ listed = {}
  /\ canceller = "idle"
  /\ todo = {}
  /\ checked = 0
  /\ fired = FALSE
  /\ stopped = FALSE

\* taskCtx descends from the manager's context.
Done == fired \/ stopped

\* updateCommandStatus: whatever the status was, it is overwritten.
updateCommandStatus(i, s) ==
  cmd' = IF cmd[i] \in {"none", "gone"} THEN cmd ELSE [cmd EXCEPT ![i] = s]

Finish(i, s) ==
  /\ worker' = [worker EXCEPT ![i] = "finished"]
  /\ results' = [results EXCEPT ![i] = s]

client == <<promise, exec>>
taskVars == <<task, listed, canceller, todo, checked, fired, stopped>>

-----------------------------------------------------------------------------
(* The caller.                                                             *)

Launch ==
  /\ main = "launching"
  /\ launch <= N
  /\ ~Done
  /\ worker' = [worker EXCEPT ![launch] = "started"]
  /\ launch' = launch + 1
  /\ UNCHANGED <<main, final, results, success, cancelled, resp, cmd, client, taskVars>>

\* Slip: the client launched last is counted too.
CutShortOffByOne ==
  /\ main = "launching"
  /\ launch <= N
  /\ Done
  /\ results' = [i \in Clients |-> IF i >= launch THEN "cancelled" ELSE results[i]]
  /\ cancelled' = IF launch = 1 THEN N ELSE N - launch + 2
  /\ main' = "done"
  /\ UNCHANGED <<launch, worker, final, success, resp, cmd, client, taskVars>>

\* The loop finds the task cancelled: goto done, past wg.Wait().
CutShort ==
  /\ main = "launching"
  /\ launch <= N
  /\ Done
  /\ results' = [i \in Clients |-> IF i >= launch THEN "cancelled" ELSE results[i]]
  /\ cancelled' = N - launch + 1
  /\ main' = "done"
  /\ UNCHANGED <<launch, worker, final, success, resp, cmd, client, taskVars>>

LaunchedAll ==
  /\ main = "launching"
  /\ launch = N + 1
  /\ main' = "joining"
  /\ UNCHANGED <<launch, worker, final, results, success, cancelled, resp, cmd,
                 client, taskVars>>

\* Slip: wg.Add is called by the worker itself.
JoinEarly ==
  /\ main = "joining"
  /\ \A i \in Clients : worker[i] \in {"started", "finished"}
  /\ main' = "done"
  /\ UNCHANGED <<launch, worker, final, results, success, cancelled, resp, cmd,
                 client, taskVars>>

\* wg.Wait().
Join ==
  /\ main = "joining"
  /\ \A i \in Clients : worker[i] = "finished"
  /\ main' = "done"
  /\ UNCHANGED <<launch, worker, final, results, success, cancelled, resp, cmd,
                 client, taskVars>>

\* The response takes the counters and the results as they are.
Respond ==
  /\ main = "done"
  /\ resp' = [success |-> success, cancelled |-> cancelled, results |-> results]
  /\ task' = IF cancelled > 0 THEN "cancelled" ELSE task
  /\ main' = "returning"
  /\ UNCHANGED <<launch, worker, final, results, success, cancelled, cmd, client,
                 listed, canceller, todo, checked, fired, stopped>>

\* The deferred function.
Return ==
  /\ main = "returning"
  /\ task' = IF task = "running" THEN "completed" ELSE task
  /\ main' = "returned"
  /\ UNCHANGED <<launch, worker, final, results, success, cancelled, resp, cmd,
                 client, listed, canceller, todo, checked, fired, stopped>>

-----------------------------------------------------------------------------
(* The worker of client i.                                                 *)

CancelledEarly(i) ==
  /\ worker[i] = "started"
  /\ Done
  /\ Finish(i, "cancelled")
  /\ cancelled' = cancelled + 1
  /\ UNCHANGED <<main, launch, final, success, resp, cmd, client, taskVars>>

\* SendCommand stores the command.
SendCommand(i) ==
  /\ worker[i] = "started"
  /\ ~Done
  /\ worker' = [worker EXCEPT ![i] = "sending"]
  /\ cmd' = [cmd EXCEPT ![i] = "pending"]
  /\ UNCHANGED <<main, launch, final, results, success, cancelled, resp, client, taskVars>>

\* Slip: the worker returns without wg.Done().
SendFailsSilently(i) ==
  /\ worker[i] = "sending"
  /\ updateCommandStatus(i, "failed")
  /\ worker' = [worker EXCEPT ![i] = "none"]
  /\ UNCHANGED <<main, launch, final, results, success, cancelled, resp, client, taskVars>>

\* Not connected, too many promises, or the stream fails.
SendFails(i) ==
  /\ worker[i] = "sending"
  /\ updateCommandStatus(i, "failed")
  /\ Finish(i, "failed")
  /\ UNCHANGED <<main, launch, final, success, cancelled, resp, client, taskVars>>

\* The message is on its way, the waiter runs.
Sent(i) ==
  /\ worker[i] = "sending"
  /\ worker' = [worker EXCEPT ![i] = "sent"]
  /\ promise' = [promise EXCEPT ![i] = "open"]
  /\ exec' = [exec EXCEPT ![i] = "sent"]
  /\ UNCHANGED <<main, launch, final, results, success, cancelled, resp, cmd, taskVars>>

\* The command's ID is added to the task.
List(i) ==
  /\ worker[i] = "sent"
  /\ worker' = [worker EXCEPT ![i] = "polling"]
  /\ listed' = listed \cup {i}
  /\ UNCHANGED <<main, launch, final, results, success, cancelled, resp, cmd,
                 client, task, canceller, todo, checked, fired, stopped>>

\* A tick of waitForCommandCompletionWithContext copies a finished command,
\* or one nobody waits for any more when the deadline passes (5 s after the
\* promise's own).
Poll(i) ==
  /\ worker[i] = "polling"
  /\ cmd[i] \in Terminal \/ promise[i] = "taken"
  /\ final' = [final EXCEPT ![i] = cmd[i]]
  /\ worker' = [worker EXCEPT ![i] = "seen"]
  /\ UNCHANGED <<main, launch, results, success, cancelled, resp, cmd, client, taskVars>>

\* It returns nil because the context is done.
PollStops(i) ==
  /\ worker[i] = "polling"
  /\ Done
  /\ Finish(i, "cancelled")
  /\ UNCHANGED <<main, launch, final, success, cancelled, resp, cmd, client, taskVars>>

\* Slip: every finished command counts as a success.
ReportCountsAll(i) ==
  /\ worker[i] = "seen"
  /\ ~Done
  /\ Finish(i, final[i])
  /\ success' = success + 1
  /\ UNCHANGED <<main, launch, final, cancelled, resp, cmd, client, taskVars>>

Report(i) ==
  /\ worker[i] = "seen"
  /\ ~Done
  /\ Finish(i, final[i])
  /\ success' = IF final[i] = "completed" THEN success + 1 ELSE success
  /\ UNCHANGED <<main, launch, final, cancelled, resp, cmd, client, taskVars>>

\* The context was cancelled after the poll: so is the command.
ReportCancelled(i) ==
  /\ worker[i] = "seen"
  /\ Done
  /\ Finish(i, "cancelled")
  /\ updateCommandStatus(i, "cancelled")
  /\ UNCHANGED <<main, launch, final, success, cancelled, resp, client, taskVars>>

-----------------------------------------------------------------------------
(* The client of command i, and the promise.                               *)

Execute(i) ==
  /\ exec[i] = "sent"
  /\ \E r \in {"ok", "err"} : exec' = [exec EXCEPT ![i] = r]
  /\ UNCHANGED <<main, launch, worker, final, results, success, cancelled, resp,
                 cmd, promise, taskVars>>

\* handleData: a handler that returned no Go error is acknowledged with
\* SUCCESS; a failed execution is such a response (buildErrorResponse).
AckExecuted(i) ==
  /\ promise[i] = "open"
  /\ exec[i] \in {"ok", "err"}
  /\ promise' = [promise EXCEPT ![i] = "success"]
  /\ UNCHANGED <<main, launch, worker, final, results, success, cancelled, resp,
                 cmd, exec, taskVars>>

\* FAILURE: Dispatch refuses the message, or the handler takes over 30 s.
AckFailure(i) ==
  /\ promise[i] = "open"
  /\ exec[i] = "sent"
  /\ promise' = [promise EXCEPT ![i] = "failure"]
  /\ \E refused \in BOOLEAN :
       exec' = IF refused THEN [exec EXCEPT ![i] = "refused"] ELSE exec
  /\ UNCHANGED <<main, launch, worker, final, results, success, cancelled, resp,
                 cmd, taskVars>>

\* The message or the ack is lost or late: the promise times out.
Expire(i) ==
  /\ promise[i] = "open"
  /\ promise' = [promise EXCEPT ![i] = "error"]
  /\ UNCHANGED <<main, launch, worker, final, results, success, cancelled, resp,
                 cmd, exec, taskVars>>

\* Slip: every ack is a success.
StatusOfAnyAck(answer) ==
  CASE answer \in {"success", "failure"} -> "completed"
    [] answer = "error" -> "timeout"

StatusOf(answer) ==
  CASE answer = "success" -> "completed"
    [] answer = "failure" -> "failed"
    [] answer = "error"   -> "timeout"

\* waitForCommandResponse gets the answer.
AnswerArrives(i) ==
  /\ promise[i] \in {"success", "failure", "error"}
  /\ promise' = [promise EXCEPT ![i] = "taken"]
  /\ updateCommandStatus(i, StatusOf(promise[i]))
  /\ UNCHANGED <<main, launch, worker, final, results, success, cancelled, resp,
                 exec, taskVars>>

\* It returns because the manager stops.
WaiterStops(i) ==
  /\ stopped
  /\ promise[i] \in {"open", "success", "failure", "error"}
  /\ promise' = [promise EXCEPT ![i] = "taken"]
  /\ UNCHANGED <<main, launch, worker, final, results, success, cancelled, resp,
                 cmd, exec, taskVars>>

-----------------------------------------------------------------------------
(* CancelMultiCommand, Stop and cleanup.                                   *)

MarkCancelled ==
  /\ canceller = "idle"
  /\ task = "running"
  /\ task' = "cancelled"
  /\ canceller' = "marked"
  /\ UNCHANGED <<main, launch, worker, final, results, success, cancelled, resp,
                 cmd, client, listed, todo, checked, fired, stopped>>

CancelFunc ==
  /\ canceller = "marked"
  /\ fired' = TRUE
  /\ canceller' = "fired"
  /\ UNCHANGED <<main, launch, worker, final, results, success, cancelled, resp,
                 cmd, client, task, listed, todo, checked, stopped>>

CopyIDs ==
  /\ canceller = "fired"
  /\ todo' = listed
  /\ canceller' = "updating"
  /\ UNCHANGED <<main, launch, worker, final, results, success, cancelled, resp,
                 cmd, client, task, listed, checked, fired, stopped>>

\* The status is read, and acted upon in a later step.
CheckCommand(i) ==
  /\ canceller = "updating"
  /\ checked = 0
  /\ i \in todo
  /\ todo' = todo \ {i}
  /\ checked' = IF cmd[i] = "pending" THEN i ELSE 0
  /\ UNCHANGED <<main, launch, worker, final, results, success, cancelled, resp,
                 cmd, client, task, listed, canceller, fired, stopped>>

CancelChecked ==
  /\ checked # 0
  /\ updateCommandStatus(checked, "cancelled")
  /\ checked' = 0
  /\ UNCHANGED <<main, launch, worker, final, results, success, cancelled, resp,
                 client, task, listed, canceller, todo, fired, stopped>>

CancelReturns ==
  /\ canceller = "updating"
  /\ todo = {} /\ checked = 0
  /\ canceller' = "returned"
  /\ UNCHANGED <<main, launch, worker, final, results, success, cancelled, resp,
                 cmd, client, task, listed, todo, checked, fired, stopped>>

Stop ==
  /\ ~stopped
  /\ stopped' = TRUE
  /\ UNCHANGED <<main, launch, worker, final, results, success, cancelled, resp,
                 cmd, client, task, listed, canceller, todo, checked, fired>>

\* A finished command is dropped after 30 minutes; its worker, which polls
\* every 100 ms, has seen it.
Cleanup(i) ==
  /\ ~stopped
  /\ cmd[i] \in Terminal
  /\ worker[i] = "finished"
  /\ cmd' = [cmd EXCEPT ![i] = "gone"]
  /\ UNCHANGED <<main, launch, worker, final, results, success, cancelled, resp,
                 client, taskVars>>

-----------------------------------------------------------------------------
Caller == Launch \/ CutShort \/ LaunchedAll \/ Join \/ Respond \/ Return
Worker(i) ==
  \/ CancelledEarly(i) \/ SendCommand(i) \/ SendFails(i) \/ Sent(i) \/ List(i)
  \/ Poll(i) \/ PollStops(i) \/ Report(i) \/ ReportCancelled(i)
Client(i) == Execute(i) \/ AckExecuted(i) \/ AckFailure(i)
Waiter(i) == AnswerArrives(i) \/ WaiterStops(i)
Canceller ==
  \/ MarkCancelled \/ CancelFunc \/ CopyIDs
  \/ (\E i \in Clients : CheckCommand(i)) \/ CancelChecked \/ CancelReturns

Next ==
  \/ Caller
  \/ \E i \in Clients : Worker(i) \/ Client(i) \/ Expire(i) \/ Waiter(i) \/ Cleanup(i)
  \/ Canceller
  \/ Stop

Spec == Init /\ [][Next]_vars

\* Goroutines run and timers fire; clients need not answer and nobody has to
\* cancel or stop.  It is enough that one goroutine that can go on does so,
\* less than the scheduler gives: none of them goes on for ever.
Fairness ==
  WF_vars(Caller \/ \E i \in Clients : Worker(i) \/ Waiter(i) \/ Expire(i))

FairSpec == Spec /\ Fairness

-----------------------------------------------------------------------------
(* Properties.                                                             *)

\* A command is only reported completed when its client has executed it,
\* however acks, timeouts and cancellations race.
CompletedWasExecuted ==
  \A i \in Clients : "completed" \in {cmd[i], results[i], resp.results[i]} =>
    exec[i] \in {"ok", "err"}

\* No client is counted twice: failedCount, the rest, is never negative.
CountedOnce == success + cancelled <= N

\* A response with Success (nothing failed, nothing cancelled) lists every
\* client as completed, though counters and results are read without a lock
\* when the loop was cut short.
SuccessIsComplete ==
  main \in {"returning", "returned"} /\ resp.success = N =>
    \A i \in Clients : resp.results[i] = "completed"

\* When every worker was launched the response is exact: all results are
\* there and SuccessCount counts the completed ones.
LaunchedIsExact ==
  main \in {"returning", "returned"} /\ launch = N + 1 =>
    /\ \A i \in Clients : resp.results[i] # "nil"
    /\ resp.success = Cardinality({i \in Clients : resp.results[i] = "completed"})

\* SendCommandToMultiple returns.
MulticastReturns == <>(main = "returned")

\* What a caller is told is true although acks, timeouts, cancellations and
\* the counters without a lock race: completed was executed, a full success
\* lists everybody, and a response after every launch is exact.
AnswersAreTrue == TypeOK /\ CompletedWasExecuted /\ SuccessIsComplete /\ LaunchedIsExact

-----------------------------------------------------------------------------
(* Claims of comments that the code does not keep.                         *)

\* types.go: "completed" is a successful execution, "failed" one that failed.
CompletedIsSuccess == \A i \in Clients : cmd[i] = "completed" => exec[i] = "ok"

\* CancelMultiCommand only cancels commands that are not finished.
CancelsOnlyUnfinished ==
  [][\A i \in Clients : cmd'[i] = "cancelled" => cmd[i] \in {"pending", "cancelled"}]_vars

\* SendCommandToMultiple waits for all responses.
WaitsForAll ==
  main = "returned" => \A i \in Clients : resp.results[i] # "nil"

\* CancelledCount is the number of cancelled commands.
CancelledAreCounted ==
  main = "returned" /\ launch = N + 1 =>
    resp.cancelled = Cardinality({i \in Clients : resp.results[i] = "cancelled"})

-----------------------------------------------------------------------------
(* Bounds for model checking.                                              *)

\* Cleanup comes 30 minutes after a command is finished: by then all else is
\* over.
Over(i) ==
  worker[i] \in {"none", "finished"} /\ promise[i] \in {"none", "taken"} /\ exec[i] # "sent"
LateCleanup ==
  (\E i \in Clients : cmd'[i] = "gone" /\ cmd[i] # "gone")
    => main = "returned" /\ canceller \in {"idle", "returned"} /\ \A i \in Clients : Over(i)

\* Only client 1 has executions that fail.
OneFails == \A i \in Clients : exec'[i] = "err" => i = 1

LateSpec == Init /\ [][Next /\ LateCleanup /\ OneFails]_vars /\ Fairness
=============================================================================
