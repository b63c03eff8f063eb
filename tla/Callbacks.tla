----------------------------- MODULE Callbacks -----------------------------
(***************************************************************************)
(* pkg/release/callback: the notifications of deploy tasks.  One event of  *)
(* one configuration and channel is sent for each deploy task by a         *)
(* goroutine of the manager; what fails goes to the retry queue, whose     *)
(* workers and scheduler share the task objects.  The history is a table   *)
(* that both write.  Only the callback configuration, the semaphore, the   *)
(* queue and the table are common to the deploy tasks.                     *)
(***************************************************************************)
EXTENDS Integers, SequencesExt

CONSTANTS
  DeployTasks,    \* deploy tasks that trigger the event
  Workers,        \* workers of the retry queue
  QueueSize,      \* capacity of its channel
  MaxConcurrent,  \* capacity of the manager's semaphore
  Setups          \* configurations to choose from, with the bounds of a behaviour

VARIABLES
  setup,     \* the configuration and the bounds, never changed
  config,    \* the configuration's row
  sender,    \* the goroutine of a deploy task's callback
  late,      \* deploy tasks whose send has timed out and still goes on
  rows,      \* the history table, oldest first
  history,   \* taskHistory: how often a task was put into the retry queue
  queue,     \* the channel of the retry queue
  pending,   \* its map of tasks that wait for their time
  attempts,  \* AttemptCount of the retry task of a deploy task
  worker,    \* what a worker does
  manual,    \* a RetryCallbackHistory request: the copy of its row
  received,  \* messages that have reached the endpoint (history)
  refused    \* deploy tasks the endpoint has refused or kept waiting (history)

vars == <<setup, config, sender, late, rows, history, queue, pending, attempts,
          worker, manual, received, refused>>

RowStatuses == {"pending", "success", "failed", "retrying"}
Rows == [task : DeployTasks, status : RowStatuses]
Manuals == UNION {1 .. c.manual : c \in Setups}   \* RetryCallbackHistory requests

\* typed: the channel's Config has a type of its own, not the one that decoding
\* the JSON column gives it; max: MaxAttempts of a retry task; edits: the
\* configuration is edited meanwhile; manual: rows sent again by hand.
IsSetup(c) == /\ c.typed \in BOOLEAN /\ c.edits \in BOOLEAN
              /\ c.tasks \subseteq DeployTasks /\ c.workers \subseteq Workers
              /\ c.max \in Nat /\ c.manual \in Nat
Free == [pc |-> "idle"]
Busy == {w \in Workers : worker[w].pc # "idle"}
Holding == {d \in DeployTasks : sender[d].pc \in {"send", "failed", "offer", "save"}}

TypeOK ==
  /\ setup \in Setups /\ IsSetup(setup) /\ config \in {"enabled", "disabled", "deleted"}
  /\ \A d \in DeployTasks :
        /\ sender[d].pc \in {"idle", "wait", "send", "failed", "offer", "save", "done"}
        /\ sender[d].row \in 0 .. Len(rows)
        /\ sender[d].status \in RowStatuses
  /\ late \subseteq DeployTasks /\ refused \subseteq DeployTasks
  /\ \A i \in DOMAIN rows : rows[i] \in Rows
  /\ history \in [DeployTasks -> 0 .. 1]
  /\ Len(queue) <= QueueSize /\ ToSet(queue) \subseteq DeployTasks
  /\ pending \subseteq DeployTasks
  /\ attempts \in [DeployTasks -> Nat]
  /\ \A w \in Busy :
        worker[w].pc \in {"record", "send", "sent", "bump", "update"} /\ worker[w].task \in DeployTasks
  /\ \A x \in Manuals : manual[x].pc \in {"idle", "send", "done"}
  /\ received \in [DeployTasks -> Nat]

Init ==
  /\ setup \in Setups
  /\ config = "enabled"
  /\ sender = [d \in DeployTasks |-> [pc |-> "idle", row |-> 0, status |-> "pending"]]
  /\ late = {} /\ refused = {} /\ pending = {}
  /\ rows = <<>> /\ queue = <<>>
  /\ history = [d \in DeployTasks |-> 0]
  /\ attempts = [d \in DeployTasks |-> 0]
  /\ worker = [w \in Workers |-> Free]
  /\ manual = [x \in Manuals |-> Free]
  /\ received = [d \in DeployTasks |-> 0]

-----------------------------------------------------------------------------
(* One attempt: sendCallback and the notifier of the channel.               *)

\* What may come of it: the message may arrive without its answer.
Outcomes == [ok : BOOLEAN, arrives : BOOLEAN]
Plausible(o) == (o.ok => o.arrives) /\ (~setup.typed => o = [ok |-> FALSE, arrives |-> FALSE])

Arrives(d, o) == received' = IF o.arrives THEN [received EXCEPT ![d] = @ + 1] ELSE received
Refuses(d, o) == refused' = IF setup.typed /\ ~o.ok THEN refused \union {d} ELSE refused

\* The row a worker looks up: the latest of the configuration, the event and
\* the channel, whichever deploy task it belongs to.
Latest == Len(rows)
SetRow(i, status) == rows' = IF i = 0 THEN rows ELSE [rows EXCEPT ![i].status = status]

-----------------------------------------------------------------------------
(* The manager: TriggerCallback, sendCallbacks, sendCallbackWithHistory.    *)

TriggerCallback(d) ==
  /\ d \in setup.tasks /\ config = "enabled" /\ sender[d].pc = "idle"
  /\ sender' = [sender EXCEPT ![d].pc = "wait"]
  /\ UNCHANGED <<setup, config, late, rows, history, queue, pending, attempts, worker,
                 manual, received, refused>>

\* The semaphore is had, and the first row of the history written.
Acquire(d) ==
  /\ sender[d].pc = "wait" /\ Cardinality(Holding) < MaxConcurrent
  /\ rows' = Append(rows, [task |-> d, status |-> "pending"])
  /\ sender' = [sender EXCEPT ![d] = [pc |-> "send", row |-> Len(rows) + 1,
                                      status |-> "pending"]]
  /\ UNCHANGED <<setup, config, late, history, queue, pending, attempts, worker,
                 manual, received, refused>>

Answered(d) == \E o \in Outcomes :
  /\ sender[d].pc = "send" /\ Plausible(o)
  /\ Arrives(d, o) /\ Refuses(d, o)
  /\ sender' = [sender EXCEPT ![d].pc = IF o.ok THEN "save" ELSE "failed",
                              ![d].status = IF o.ok THEN "success" ELSE "failed"]
  /\ UNCHANGED <<setup, config, late, rows, history, queue, pending, attempts, worker,
                 manual>>

\* callbackTimeout: the attempt is given up, the goroutine under it is not.
Timeout(d) ==
  /\ setup.typed /\ sender[d].pc = "send"
  /\ sender' = [sender EXCEPT ![d].pc = "failed", ![d].status = "failed"]
  /\ late' = late \union {d}
  /\ refused' = refused \union {d}
  /\ UNCHANGED <<setup, config, rows, history, queue, pending, attempts, worker,
                 manual, received>>

LateAnswer(d) ==
  /\ d \in late
  /\ late' = late \ {d}
  /\ \E o \in Outcomes : Arrives(d, o)
  /\ UNCHANGED <<setup, config, sender, rows, history, queue, pending, attempts, worker,
                 manual, refused>>

\* Enqueue: the pending map first, then the channel without waiting for room.
Enqueue(d) ==
  /\ sender[d].pc = "failed"
  /\ IF history[d] >= setup.max
     THEN sender' = [sender EXCEPT ![d].pc = "save"] /\ UNCHANGED <<history, pending>>
     ELSE /\ history' = [history EXCEPT ![d] = @ + 1]
          /\ pending' = pending \union {d}
          /\ sender' = [sender EXCEPT ![d].pc = "offer"]
  /\ UNCHANGED <<setup, config, late, rows, queue, attempts, worker, manual, received,
                 refused>>

Offer(d) ==
  /\ sender[d].pc = "offer"
  /\ IF Len(queue) < QueueSize
     THEN /\ queue' = Append(queue, d)
          /\ sender' = [sender EXCEPT ![d].pc = "save", ![d].status = "retrying"]
          /\ UNCHANGED pending
     ELSE /\ pending' = pending \ {d}
          /\ sender' = [sender EXCEPT ![d].pc = "save"]
          /\ UNCHANGED queue
  /\ UNCHANGED <<setup, config, late, rows, history, attempts, worker, manual, received,
                 refused>>

SaveHistory(d) ==
  /\ sender[d].pc = "save"
  /\ SetRow(sender[d].row, sender[d].status)
  /\ sender' = [sender EXCEPT ![d].pc = "done"]
  /\ UNCHANGED <<setup, config, late, history, queue, pending, attempts, worker, manual,
                 received, refused>>

-----------------------------------------------------------------------------
(* The retry queue.                                                         *)

\* Slip: a task that has not failed again yet is not due.
CheckFailedTasks(d) ==
  /\ d \in pending /\ Len(queue) < QueueSize /\ attempts[d] > 0
  /\ pending' = pending \ {d}
  /\ queue' = Append(queue, d)
  /\ UNCHANGED <<setup, config, sender, late, rows, history, attempts, worker, manual,
                 received, refused>>

\* The scheduler, for one task whose time has come; no room, no change.
CheckPendingTasks(d) ==
  /\ d \in pending /\ Len(queue) < QueueSize
  /\ pending' = pending \ {d}
  /\ queue' = Append(queue, d)
  /\ UNCHANGED <<setup, config, sender, late, rows, history, attempts, worker, manual,
                 received, refused>>

At(w, pc) == worker' = [worker EXCEPT ![w].pc = pc]

Take(w) ==
  /\ w \in setup.workers /\ worker[w].pc = "idle" /\ queue # <<>>
  /\ worker' = [worker EXCEPT ![w] = [pc |-> "record", task |-> Head(queue), ok |-> FALSE,
                                      count |-> 0, status |-> "retrying"]]
  /\ queue' = Tail(queue)
  /\ UNCHANGED <<setup, config, sender, late, rows, history, pending, attempts, manual,
                 received, refused>>

RecordRetryHistory(w) ==
  /\ worker[w].pc = "record"
  /\ rows' = Append(rows, [task |-> worker[w].task, status |-> "retrying"])
  /\ At(w, "send")
  /\ UNCHANGED <<setup, config, sender, late, history, queue, pending, attempts, manual,
                 received, refused>>

\* A failure reads AttemptCount, which nothing guards, to add one to it.
Resend(w) == \E o \in Outcomes :
  LET d == worker[w].task
  IN /\ worker[w].pc = "send" /\ Plausible(o)
     /\ Arrives(d, o) /\ Refuses(d, o)
     /\ worker' = [worker EXCEPT ![w].pc = IF o.ok THEN "sent" ELSE "bump",
                                 ![w].count = IF o.ok THEN 0 ELSE attempts[d] + 1]
     /\ UNCHANGED <<setup, config, sender, late, rows, history, queue, pending, attempts,
                    manual>>

\* The task is over: succeeded, or out of attempts.
Retire(w, status) ==
  /\ history' = [history EXCEPT ![worker[w].task] = 0]
  /\ worker' = [worker EXCEPT ![w].pc = "update", ![w].status = status]

Succeed(w) ==
  /\ worker[w].pc = "sent"
  /\ Retire(w, "success")
  /\ UNCHANGED <<setup, config, sender, late, rows, queue, pending, attempts, manual,
                 received, refused>>

\* Slip: one attempt too many.
AgainOnce(w) ==
  LET d == worker[w].task
  IN /\ worker[w].pc = "bump"
     /\ attempts' = [attempts EXCEPT ![d] = worker[w].count]
     /\ IF attempts'[d] > 2 * setup.max
        THEN Retire(w, "failed") /\ UNCHANGED pending
        ELSE pending' = pending \union {d} /\ At(w, "update") /\ UNCHANGED history
     /\ UNCHANGED <<setup, config, sender, late, rows, queue, manual, received, refused>>

Again(w) ==
  LET d == worker[w].task
  IN /\ worker[w].pc = "bump"
     /\ attempts' = [attempts EXCEPT ![d] = worker[w].count]
     /\ IF attempts'[d] >= setup.max
        THEN Retire(w, "failed") /\ UNCHANGED pending
        ELSE pending' = pending \union {d} /\ At(w, "update") /\ UNCHANGED history
     /\ UNCHANGED <<setup, config, sender, late, rows, queue, manual, received, refused>>

UpdateHistoryStatus(w) ==
  /\ worker[w].pc = "update"
  /\ SetRow(Latest, worker[w].status)
  /\ worker' = [worker EXCEPT ![w] = Free]
  /\ UNCHANGED <<setup, config, sender, late, history, queue, pending, attempts, manual,
                 received, refused>>

-----------------------------------------------------------------------------
(* The handlers: a configuration is deleted, a failed row sent by hand.     *)

UpdateCallbackConfig ==
  /\ setup.edits /\ config # "deleted"
  /\ config' \in {"enabled", "disabled"}
  /\ UNCHANGED <<setup, sender, late, rows, history, queue, pending, attempts, worker,
                 manual, received, refused>>

DeleteCallbackConfig ==
  /\ setup.edits /\ config # "deleted"
  /\ config' = "deleted"
  /\ UNCHANGED <<setup, sender, late, rows, history, queue, pending, attempts, worker,
                 manual, received, refused>>

RetryCallbackHistory(x) == \E i \in DOMAIN rows :
  /\ x <= setup.manual /\ manual[x].pc = "idle" /\ rows[i].status = "failed"
  /\ config # "deleted"
  /\ manual' = [manual EXCEPT ![x] = [pc |-> "send", row |-> i, task |-> rows[i].task]]
  /\ UNCHANGED <<setup, config, sender, late, rows, history, queue, pending, attempts,
                 worker, received, refused>>

\* The whole copy is saved, with the status it had or with success.
RetriedByHand(x) == \E o \in Outcomes :
  LET d == manual[x].task
  IN /\ manual[x].pc = "send" /\ Plausible(o)
     /\ Arrives(d, o) /\ Refuses(d, o)
     /\ SetRow(manual[x].row, IF o.ok THEN "success" ELSE "failed")
     /\ manual' = [manual EXCEPT ![x] = [pc |-> "done"]]
     /\ UNCHANGED <<setup, config, sender, late, history, queue, pending, attempts, worker>>

-----------------------------------------------------------------------------
SenderStep(d) ==
  \/ Acquire(d) \/ Answered(d) \/ Timeout(d) \/ Enqueue(d) \/ Offer(d) \/ SaveHistory(d)

WorkerStep(w) ==
  \/ Take(w) \/ RecordRetryHistory(w) \/ Resend(w) \/ Succeed(w) \/ Again(w)
  \/ UpdateHistoryStatus(w)

Next ==
  \/ \E d \in DeployTasks :
       TriggerCallback(d) \/ SenderStep(d) \/ LateAnswer(d) \/ CheckPendingTasks(d)
  \/ \E w \in Workers : WorkerStep(w)
  \/ \E x \in Manuals : RetryCallbackHistory(x) \/ RetriedByHand(x)
  \/ UpdateCallbackConfig \/ DeleteCallbackConfig

\* The goroutines go on, and every attempt has a time limit of its own.
Fairness ==
  /\ \A d \in DeployTasks : WF_vars(SenderStep(d)) /\ WF_vars(CheckPendingTasks(d))
  /\ \A w \in Workers : WF_vars(WorkerStep(w))

Spec == Init /\ [][Next]_vars /\ Fairness

-----------------------------------------------------------------------------
(* Properties                                                               *)

\* However the two entries of one retry task (the channel and the pending
\* map), the workers and the unguarded counter interleave, the messages of a
\* deploy task are bounded: the first, those sent by hand, and what the retry
\* queue sends.  An increment that is lost, or that overwrites later ones, makes
\* that bound quadratic in the attempts (Enqueue, processTask).
MessagesBounded ==
  \A d \in DeployTasks :
    received[d] <= 2 + setup.manual + (setup.max * (setup.max + 1)) \div 2

\* No row says success before a message of that channel has got through,
\* although a worker updates the latest row whatever its deploy task.
SuccessWasReceived ==
  (\E i \in DOMAIN rows : rows[i].status = "success")
    => \E d \in DeployTasks : received[d] > 0

\* Every callback that failed is given up or gets through in the end: nothing
\* is left in the queue, in the map or with a worker (RetryQueue).
EventuallyQuiet ==
  <>[](queue = <<>> /\ pending = {} /\ Busy = {})

\* What the requirements say of the callbacks: the endpoint is told.  A row
\* says failed only when the endpoint has refused the message or let it wait.
FailedWasRefused ==
  \A i \in DOMAIN rows : rows[i].status = "failed" => refused # {}

=============================================================================
