---------------------------- MODULE BatchExecutor ----------------------------
(***************************************************************************)
(* pkg/batch: one job of the BatchExecutor, a command for the clients      *)
(* 1 .. N of which at most MaxConcurrency are served together, each with   *)
(* up to MaxRetries retries; CancelJob, ExecuteSync, the job's timeout and *)
(* Stop.  A client executes every message it gets, in its own time; its    *)
(* answer counts for the attempt that is waiting for it only.              *)
(***************************************************************************)
EXTENDS Naturals, FiniteSets

CONSTANTS
  BatchSize,              \* number of clients
  MaxConcurrency, \* BatchConfig
  MaxRetries      \* BatchConfig

ASSUME BatchAssumption ==
  BatchSize \in Nat \ {0} /\ MaxConcurrency \in Nat \ {0} /\ MaxRetries \in Nat

VARIABLES
  status,     \* BatchJob.Status
  step,       \* executeJob
  next,       \* its loop's index
  wait,       \* waitForResult
  expired,    \* the job's context is done (JobTimeout, Stop)
  sem,        \* tokens taken from the semaphore
  taskWorker,     \* executeTask
  retry,      \* its loop variable
  answer,     \* the promise of the current attempt
  current,    \* its message is on the way
  old,        \* messages of earlier attempts on the way
  runs,       \* how often the client executed the command
  jobResults,    \* BatchJob.Results
  succeeded, failed, pending, \* SuccessCount, FailedCount, PendingCount
  caller,     \* ExecuteSync
  jobCancelled   \* CancelJob has returned true (history)

batchVars == <<status, step, next, wait, expired, sem, taskWorker, retry, answer, current,
          old, runs, jobResults, succeeded, failed, pending, caller, jobCancelled>>

BatchClients == 1 .. BatchSize
JobEnded == {"completed", "failed", "cancelled"}

BatchTypeOK ==
  /\ status \in JobEnded \cup {"pending", "running"}
  /\ step \in {"created", "launching", "joining", "ending", "ended", "gone"}
  /\ next \in 1 .. BatchSize + 1
  /\ wait \in BOOLEAN
  /\ expired \in BOOLEAN
  /\ sem \in 0 .. MaxConcurrency
  /\ taskWorker \in [BatchClients -> {"none", "attempt", "waiting", "sleeping", "won",
                             "lost", "counted", "finished"}]
  /\ retry \in [BatchClients -> 0 .. MaxRetries]
  /\ answer \in [BatchClients -> {"none", "open", "success", "failure"}]
  /\ current \in [BatchClients -> BOOLEAN]
  /\ old \in [BatchClients -> 0 .. MaxRetries]
  /\ runs \in [BatchClients -> 0 .. MaxRetries + 1]
  /\ jobResults \in [BatchClients -> {"nil", "success", "failure"}]
  /\ succeeded \in 0 .. BatchSize
  /\ failed \in 0 .. BatchSize
  /\ pending \in 0 .. BatchSize
  /\ caller \in {"polling", "returned"}
  /\ jobCancelled \in BOOLEAN

BatchInit ==
  /\ status = "pending"
  /\ step = "created"
  /\ next = 1
  /\ wait \in BOOLEAN
  /\ expired = FALSE
  /\ sem = 0
  /\ taskWorker = [i \in BatchClients |-> "none"]
  /\ retry = [i \in BatchClients |-> 0]
  /\ answer = [i \in BatchClients |-> "none"]
  /\ current = [i \in BatchClients |-> FALSE]
  /\ old = [i \in BatchClients |-> 0]
  /\ runs = [i \in BatchClients |-> 0]
  /\ jobResults = [i \in BatchClients |-> "nil"]
  /\ succeeded = 0
  /\ failed = 0
  /\ pending = BatchSize
  /\ caller = "polling"
  /\ jobCancelled = FALSE

counts == <<jobResults, succeeded, failed, pending>>
mail == <<answer, current, old, runs>>
job == <<status, step, next, wait, expired, caller, jobCancelled>>

-----------------------------------------------------------------------------
(* executeJob.                                                             *)

\* The status is set to running whatever it was.
Start ==
  /\ step = "created"
  /\ step' = "launching"
  /\ status' = "running"
  /\ UNCHANGED <<next, wait, expired, sem, taskWorker, retry, mail, counts, caller, jobCancelled>>

\* A token is free: the next client gets a goroutine.  The context may be done
\* as well; select takes either case.
LaunchTask ==
  /\ step = "launching"
  /\ next <= BatchSize
  /\ sem < MaxConcurrency
  /\ sem' = sem + 1
  /\ taskWorker' = [taskWorker EXCEPT ![next] = "attempt"]
  /\ next' = next + 1
  /\ UNCHANGED <<status, step, wait, expired, retry, mail, counts, caller, jobCancelled>>

\* The context is done: goto done, past wg.Wait().
GiveUp ==
  /\ step = "launching"
  /\ next <= BatchSize
  /\ expired
  /\ status' = "cancelled"
  /\ step' = "ending"
  /\ UNCHANGED <<next, wait, expired, sem, taskWorker, retry, mail, counts, caller, jobCancelled>>

AllLaunched ==
  /\ step = "launching"
  /\ next = BatchSize + 1
  /\ step' = "joining"
  /\ UNCHANGED <<status, next, wait, expired, sem, taskWorker, retry, mail, counts,
                 caller, jobCancelled>>

\* Slip: the job ends with the last launch.
JoinNone ==
  /\ step = "joining"
  /\ step' = "ending"
  /\ UNCHANGED <<status, next, wait, expired, sem, taskWorker, retry, mail, counts,
                 caller, jobCancelled>>

\* wg.Wait().
JoinTasks ==
  /\ step = "joining"
  /\ \A i \in BatchClients : taskWorker[i] = "finished"
  /\ step' = "ending"
  /\ UNCHANGED <<status, next, wait, expired, sem, taskWorker, retry, mail, counts,
                 caller, jobCancelled>>

\* The final status, unless CancelJob or a timeout has set it.
End ==
  /\ step = "ending"
  /\ step' = "ended"
  /\ status' = IF status # "running" THEN status
               ELSE IF failed > 0 /\ succeeded = 0 THEN "failed" ELSE "completed"
  /\ UNCHANGED <<next, wait, expired, sem, taskWorker, retry, mail, counts, caller, jobCancelled>>

\* activeJobs forgets the job after 5 minutes.
Delete ==
  /\ step = "ended"
  /\ step' = "gone"
  /\ UNCHANGED <<status, next, wait, expired, sem, taskWorker, retry, mail, counts,
                 caller, jobCancelled>>

-----------------------------------------------------------------------------
(* executeTask for client i.                                               *)

\* Slip: one retry too many.
NextTryOffByOne(i) ==
  IF retry[i] <= MaxRetries
  THEN /\ taskWorker' = [taskWorker EXCEPT ![i] = "sleeping"]
       /\ retry' = [retry EXCEPT ![i] = @ + 1]
  ELSE taskWorker' = [taskWorker EXCEPT ![i] = "lost"] /\ UNCHANGED retry

\* continue: after the last retry the task has failed.
NextTry(i) ==
  IF retry[i] < MaxRetries
  THEN /\ taskWorker' = [taskWorker EXCEPT ![i] = "sleeping"]
       /\ retry' = [retry EXCEPT ![i] = @ + 1]
  ELSE taskWorker' = [taskWorker EXCEPT ![i] = "lost"] /\ UNCHANGED retry

\* RetryInterval is over, or the context is done.
Wake(i) ==
  /\ taskWorker[i] = "sleeping"
  /\ \/ taskWorker' = [taskWorker EXCEPT ![i] = "attempt"]
     \/ expired /\ taskWorker' = [taskWorker EXCEPT ![i] = "lost"]
  /\ UNCHANGED <<job, sem, retry, mail, counts>>

\* The client is not connected, or the stream fails.
TaskSendFails(i) ==
  /\ taskWorker[i] = "attempt"
  /\ NextTry(i)
  /\ UNCHANGED <<job, sem, mail, counts>>

\* A message with an ID of its own, and its promise when the answer matters.
Send(i) ==
  /\ taskWorker[i] = "attempt"
  /\ current' = [current EXCEPT ![i] = TRUE]
  /\ old' = IF current[i] THEN [old EXCEPT ![i] = @ + 1] ELSE old
  /\ IF wait
     THEN /\ answer' = [answer EXCEPT ![i] = "open"]
          /\ taskWorker' = [taskWorker EXCEPT ![i] = "waiting"]
     ELSE /\ UNCHANGED answer
          /\ taskWorker' = [taskWorker EXCEPT ![i] = "won"]
  /\ UNCHANGED <<job, sem, retry, runs, counts>>

\* Slip: any answer is a success.
AnsweredAnyhow(i) ==
  /\ taskWorker[i] = "waiting"
  /\ answer[i] \in {"success", "failure"}
  /\ taskWorker' = [taskWorker EXCEPT ![i] = "won"]
  /\ UNCHANGED <<job, sem, retry, mail, counts>>

\* RespChan: success, or a failure to retry.
Answered(i) ==
  /\ taskWorker[i] = "waiting"
  /\ \/ answer[i] = "success" /\ taskWorker' = [taskWorker EXCEPT ![i] = "won"] /\ UNCHANGED retry
     \/ answer[i] = "failure" /\ NextTry(i)
  /\ UNCHANGED <<job, sem, mail, counts>>

\* TaskTimeout, of the promise or of the select.
TaskTimesOut(i) ==
  /\ taskWorker[i] = "waiting"
  /\ NextTry(i)
  /\ UNCHANGED <<job, sem, mail, counts>>

WaitEnds(i) ==
  /\ taskWorker[i] = "waiting"
  /\ expired
  /\ taskWorker' = [taskWorker EXCEPT ![i] = "lost"]
  /\ UNCHANGED <<job, sem, retry, mail, counts>>

\* Slip: a failed task does not count.
RecordSuccessOnly(i) ==
  /\ taskWorker[i] \in {"won", "lost"}
  /\ taskWorker' = [taskWorker EXCEPT ![i] = "counted"]
  /\ IF taskWorker[i] = "won"
     THEN /\ jobResults' = [jobResults EXCEPT ![i] = "success"]
          /\ succeeded' = succeeded + 1 /\ UNCHANGED failed
     ELSE jobResults' = [jobResults EXCEPT ![i] = "failure"] /\ UNCHANGED <<succeeded, failed>>
  /\ UNCHANGED <<job, sem, retry, mail, pending>>

\* The result is stored and counted,
Record(i) ==
  /\ taskWorker[i] \in {"won", "lost"}
  /\ taskWorker' = [taskWorker EXCEPT ![i] = "counted"]
  /\ IF taskWorker[i] = "won"
     THEN /\ jobResults' = [jobResults EXCEPT ![i] = "success"]
          /\ succeeded' = succeeded + 1 /\ UNCHANGED failed
     ELSE /\ jobResults' = [jobResults EXCEPT ![i] = "failure"]
          /\ failed' = failed + 1 /\ UNCHANGED succeeded
  /\ UNCHANGED <<job, sem, retry, mail, pending>>

\* Slip: the token is not given back.
FinishKeeps(i) ==
  /\ taskWorker[i] = "counted"
  /\ taskWorker' = [taskWorker EXCEPT ![i] = "finished"]
  /\ pending' = pending - 1
  /\ UNCHANGED <<job, sem, retry, mail, jobResults, succeeded, failed>>

\* and then no longer pending; the token is given back.
FinishTask(i) ==
  /\ taskWorker[i] = "counted"
  /\ taskWorker' = [taskWorker EXCEPT ![i] = "finished"]
  /\ pending' = pending - 1
  /\ sem' = sem - 1
  /\ UNCHANGED <<job, retry, mail, jobResults, succeeded, failed>>

-----------------------------------------------------------------------------
(* The client of task i.                                                   *)

\* The current message is executed; its answer arrives, or not in time.
RunCommand(i) ==
  /\ current[i]
  /\ current' = [current EXCEPT ![i] = FALSE]
  /\ runs' = [runs EXCEPT ![i] = @ + 1]
  /\ \E arrives \in BOOLEAN :
       answer' = IF arrives /\ taskWorker[i] = "waiting" /\ answer[i] = "open"
                 THEN [answer EXCEPT ![i] = "success"] ELSE answer
  /\ UNCHANGED <<job, sem, taskWorker, retry, old, counts>>

\* The message of an attempt that nobody waits for any more is executed too.
ExecuteOld(i) ==
  /\ old[i] > 0
  /\ old' = [old EXCEPT ![i] = @ - 1]
  /\ runs' = [runs EXCEPT ![i] = @ + 1]
  /\ UNCHANGED <<job, sem, taskWorker, retry, answer, current, counts>>

\* The client refuses the message.
Refuse(i) ==
  /\ current[i]
  /\ taskWorker[i] = "waiting" /\ answer[i] = "open"
  /\ current' = [current EXCEPT ![i] = FALSE]
  /\ answer' = [answer EXCEPT ![i] = "failure"]
  /\ UNCHANGED <<job, sem, taskWorker, retry, old, runs, counts>>

-----------------------------------------------------------------------------
(* CancelJob, ExecuteSync, JobTimeout and Stop.                            *)

CancelJob ==
  /\ step # "gone"
  /\ status \in {"pending", "running"}
  /\ status' = "cancelled"
  /\ jobCancelled' = TRUE
  /\ UNCHANGED <<step, next, wait, expired, sem, taskWorker, retry, mail, counts, caller>>

SyncReturns ==
  /\ caller = "polling"
  /\ status \in JobEnded
  /\ caller' = "returned"
  /\ UNCHANGED <<status, step, next, wait, expired, sem, taskWorker, retry, mail,
                 counts, jobCancelled>>

\* Its own context is done: the job is cancelled when it still can be.
SyncGivesUp ==
  /\ caller = "polling"
  /\ caller' = "returned"
  /\ IF status \in {"pending", "running"} THEN status' = "cancelled" /\ jobCancelled' = TRUE
     ELSE UNCHANGED <<status, jobCancelled>>
  /\ UNCHANGED <<step, next, wait, expired, sem, taskWorker, retry, mail, counts>>

JobExpires ==
  /\ step # "created"
  /\ ~expired
  /\ expired' = TRUE
  /\ UNCHANGED <<status, step, next, wait, sem, taskWorker, retry, mail, counts,
                 caller, jobCancelled>>

-----------------------------------------------------------------------------
Job == Start \/ LaunchTask \/ GiveUp \/ AllLaunched \/ JoinTasks \/ End \/ Delete
Task(i) ==
  \/ Wake(i) \/ TaskSendFails(i) \/ Send(i) \/ Answered(i) \/ TaskTimesOut(i)
  \/ WaitEnds(i) \/ Record(i) \/ FinishTask(i)
ClientStep(i) == RunCommand(i) \/ ExecuteOld(i) \/ Refuse(i)

BatchNext ==
  \/ Job
  \/ \E i \in BatchClients : Task(i) \/ ClientStep(i)
  \/ CancelJob \/ SyncReturns \/ SyncGivesUp \/ JobExpires

BatchSpec == BatchInit /\ [][BatchNext]_batchVars

\* The goroutines run and timers fire; clients need not answer.
FairBatch ==
  /\ BatchSpec
  /\ WF_batchVars(Job)
  /\ \A i \in BatchClients : WF_batchVars(Task(i))

-----------------------------------------------------------------------------
(* Properties.                                                             *)

\* At most MaxConcurrency clients are served together.
ConcurrencyBounded ==
  Cardinality({i \in BatchClients : taskWorker[i] \notin {"none", "finished"}}) <= MaxConcurrency

\* What the progress report divides adds up at any time: a client is pending
\* until it has been counted.
CountsAddUp ==
  succeeded + failed + pending
    = BatchSize + Cardinality({i \in BatchClients : taskWorker[i] = "counted"})

\* A job that ends completed or failed has a result for every client, nothing
\* pending, and is failed exactly when no client succeeded.
EndIsExact ==
  status \in {"completed", "failed"} =>
    /\ pending = 0
    /\ \A i \in BatchClients : jobResults[i] # "nil"
    /\ succeeded = Cardinality({i \in BatchClients : jobResults[i] = "success"})
    /\ (status = "failed") <=> (\A i \in BatchClients : jobResults[i] = "failure")

\* With waitForResult a client is only successful when it has executed the
\* command, whichever of its attempts was answered late.
SuccessWasExecuted ==
  wait => \A i \in BatchClients : jobResults[i] = "success" => runs[i] > 0

\* A client never executes the command more often than it is sent: once and
\* for every retry.
RunsBounded == \A i \in BatchClients : runs[i] <= retry[i] + 1 /\ runs[i] <= MaxRetries + 1

\* Every job ends, also when clients never answer, as long as no token is lost.
JobEnds == <>(step = "gone")

\* Retries, late answers and waits: success means an execution, and no client
\* executes more often than it was sent the command.
RunsAreEarned == SuccessWasExecuted /\ RunsBounded

-----------------------------------------------------------------------------
(* Claims of the documentation that the code does not keep.                *)

\* A job that CancelJob has cancelled stays cancelled.
CancelledStays == jobCancelled => status = "cancelled"

\* No client gets the command once the job is cancelled.
CancelStopsSending ==
  [][jobCancelled => \A i \in BatchClients : current'[i] => current[i]]_batchVars
=============================================================================
