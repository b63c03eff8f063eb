----------------------------- MODULE Dispatcher -----------------------------
(***************************************************************************)
(* pkg/dispatcher: Dispatcher (dispatcher.go) is the case QueueCount = 1   *)
(* of MultiQueueDispatcher (multi_queue.go).                               *)
(*                                                                         *)
(* A caller b hands over the messages Msgs[b] one after the other; they    *)
(* stand for the Tasks that are made of them, so that no two are the same. *)
(* A call of Dispatch or DispatchSync has one message; DispatchBatch and   *)
(* DispatchBatchSync have several.  Synchronous callers give every message *)
(* a response channel with room for one response and collect them in       *)
(* order.  Callers, workers and Stop interleave.                           *)
(***************************************************************************)
EXTENDS Integers, Sequences, FiniteSets

CONSTANTS
  Callers,      \* calls of Dispatch, DispatchSync, DispatchBatch(Sync)
  Sync,         \* the ones that wait for responses
  Tasks,        \* messages
  Msgs,         \* the messages of a call, in order
  WorkerCount,  \* DispatcherConfig.WorkerCount
  QueueConfig,  \* MultiQueueConfig.QueueCount
  QueueCap,     \* room in a queue
  ByHash,       \* the calls of DispatchByHash; the others go round robin
  HashOf        \* fnvHash of the message ID

ASSUME DispatcherAssumption ==
  /\ Sync \subseteq Callers
  /\ Msgs \in [Callers -> Seq(Tasks)]
  /\ \A b \in Callers : Msgs[b] # <<>>
  /\ \A b, c \in Callers : \A i \in 1 .. Len(Msgs[b]), j \in 1 .. Len(Msgs[c]) :
       Msgs[b][i] = Msgs[c][j] => b = c /\ i = j
  /\ WorkerCount \in Nat \ {0}
  /\ QueueConfig \in Nat \ {0}
  /\ QueueCap \in Nat \ {0}
  /\ ByHash \subseteq Callers
  /\ HashOf \in [Tasks -> Nat]

\* NewMultiQueueDispatcher: no more queues than workers.
QueueCount == IF QueueConfig > WorkerCount THEN WorkerCount ELSE QueueConfig
Queues     == 0 .. QueueCount - 1

\* The workers are dealt out evenly, the first queues get the remainder.
WorkersOf(q) ==
  WorkerCount \div QueueCount + (IF q < WorkerCount % QueueCount THEN 1 ELSE 0)
Workers == {w \in Queues \X (1 .. WorkerCount) : w[2] <= WorkersOf(w[1])}

VARIABLES
  queues,       \* the task channels
  dispatchIndex, \* the round robin counter, modulo the number of queues
  caller,       \* progress of the call: pc, message, queue of that message
  respCh,       \* response channel of a message
  worker,       \* the message a worker is processing
  exited,       \* workers that have returned
  cancelled,    \* Stop has cancelled the dispatcher's context
  expired,      \* callers whose own context is done
  accepted,     \* history: messages in the order the queues took them
  finished,     \* history: messages in the order their handlers returned
  metFull,      \* history: messages whose Dispatch found its queue full
  panicked      \* a send on a closed channel has ended the program

dispatcherVars == <<queues, dispatchIndex, caller, respCh, worker, exited, cancelled,
          expired, accepted, finished, metFull, panicked>>

Free == 0  \* a worker without a message

ASSUME FreeAssumption == Free \notin Tasks

DispatcherTypeOK ==
  /\ queues \in [Queues -> Seq(Tasks)]
  /\ \A q \in Queues : Len(queues[q]) <= QueueCap
  /\ dispatchIndex \in Queues
  /\ caller \in [Callers -> [pc : {"ready", "sending", "collecting", "done", "failed", "gaveup"},
                             i : Nat, q : Queues]]
  /\ respCh \in [Tasks -> {"none", "empty", "full", "read", "closed"}]
  /\ worker \in [Workers -> Tasks \cup {Free}]
  /\ exited \subseteq Workers
  /\ cancelled \in BOOLEAN
  /\ expired \subseteq Callers
  /\ accepted \in Seq(Tasks)
  /\ finished \in Seq(Tasks)
  /\ metFull \subseteq Tasks
  /\ panicked \in BOOLEAN

DispatcherInit ==
  /\ queues = [q \in Queues |-> <<>>]
  /\ dispatchIndex = 0
  /\ caller = [b \in Callers |-> [pc |-> "ready", i |-> 1, q |-> 0]]
  /\ respCh = [t \in Tasks |-> "none"]
  /\ worker = [w \in Workers |-> Free]
  /\ exited = {}
  /\ cancelled = FALSE
  /\ expired = {}
  /\ accepted = <<>>
  /\ finished = <<>>
  /\ metFull = {}
  /\ panicked = FALSE

-----------------------------------------------------------------------------
(* Callers.                                                                *)

Current(b) == Msgs[b][caller[b].i]

\* Slip: DispatchByHash takes its turn like Dispatch.
NextQueueByTurn(b) == (dispatchIndex + Len(accepted) + 1) % QueueCount

\* The queue of the next Dispatch: dispatchIndex.Add(1) or the hash.
NextQueue(b) ==
  IF b \in ByHash THEN HashOf[Current(b)] % QueueCount
  ELSE (dispatchIndex + 1) % QueueCount

\* A Dispatch starts: the queue is chosen, the select is entered.  A
\* synchronous call has made all its channels before the first one.
Begin(b) ==
  /\ ~panicked
  /\ caller[b].pc = "ready"
  /\ LET t == Current(b)
         q == NextQueue(b)
     IN /\ caller' = [caller EXCEPT ![b] = [pc |-> "sending", i |-> @.i, q |-> q]]
        /\ dispatchIndex' = IF b \in ByHash THEN dispatchIndex ELSE q
        /\ metFull' = IF Len(queues[q]) >= QueueCap THEN metFull \cup {t} ELSE metFull
        /\ respCh' = IF b \in Sync THEN [respCh EXCEPT ![t] = "empty"] ELSE respCh
  /\ UNCHANGED <<queues, worker, exited, cancelled, expired, accepted,
                 finished, panicked>>

\* Slip: a send that does not wait for room.
EnqueueUnbounded(b) ==
  /\ ~panicked
  /\ caller[b].pc = "sending"
  /\ queues' = [queues EXCEPT ![caller[b].q] = Append(@, Current(b))]
  /\ accepted' = Append(accepted, Current(b))
  /\ caller' = [caller EXCEPT ![b] =
       IF @.i < Len(Msgs[b]) THEN [pc |-> "ready", i |-> @.i + 1, q |-> @.q]
       ELSE [pc |-> IF b \in Sync THEN "collecting" ELSE "done", i |-> 1, q |-> @.q]]
  /\ UNCHANGED <<dispatchIndex, respCh, worker, exited, cancelled, expired,
                 finished, metFull, panicked>>

\* The queue has room: the call goes on to its next message, and after the
\* last one to its responses.
Enqueue(b) ==
  /\ ~panicked
  /\ caller[b].pc = "sending"
  /\ LET q == caller[b].q IN
     /\ Len(queues[q]) < QueueCap
     /\ queues' = [queues EXCEPT ![q] = Append(@, Current(b))]
     /\ accepted' = Append(accepted, Current(b))
     /\ caller' = [caller EXCEPT ![b] =
          IF @.i < Len(Msgs[b]) THEN [pc |-> "ready", i |-> @.i + 1, q |-> @.q]
          ELSE [pc |-> IF b \in Sync THEN "collecting" ELSE "done", i |-> 1, q |-> @.q]]
  /\ UNCHANGED <<dispatchIndex, respCh, worker, exited, cancelled, expired,
                 finished, metFull, panicked>>

\* The context of the caller or of the dispatcher is done (select takes any
\* branch that is ready).  A synchronous batch closes the channels of the
\* messages it has already handed over.
Refused(b) ==
  /\ ~panicked
  /\ caller[b].pc = "sending"
  /\ b \in expired \/ cancelled
  /\ caller' = [caller EXCEPT ![b] = [pc |-> "failed", i |-> @.i, q |-> @.q]]
  /\ respCh' = [t \in Tasks |->
       IF b \in Sync /\ \E j \in 1 .. caller[b].i - 1 : Msgs[b][j] = t
       THEN "closed" ELSE respCh[t]]
  /\ UNCHANGED <<queues, dispatchIndex, worker, exited, cancelled, expired,
                 accepted, finished, metFull, panicked>>

\* The caller reads the next response.
Collect(b) ==
  /\ ~panicked
  /\ caller[b].pc = "collecting"
  /\ respCh[Current(b)] = "full"
  /\ respCh' = [respCh EXCEPT ![Current(b)] = "read"]
  /\ caller' = [caller EXCEPT ![b] =
       IF @.i < Len(Msgs[b]) THEN [pc |-> "collecting", i |-> @.i + 1, q |-> @.q]
       ELSE [pc |-> "done", i |-> @.i, q |-> @.q]]
  /\ UNCHANGED <<queues, dispatchIndex, worker, exited, cancelled, expired,
                 accepted, finished, metFull, panicked>>

\* ... or its own context ends first; only that context ends the wait.
GiveUp(b) ==
  /\ ~panicked
  /\ caller[b].pc = "collecting"
  /\ b \in expired
  /\ caller' = [caller EXCEPT ![b] = [pc |-> "gaveup", i |-> @.i, q |-> @.q]]
  /\ UNCHANGED <<queues, dispatchIndex, respCh, worker, exited, cancelled,
                 expired, accepted, finished, metFull, panicked>>

Expire(b) ==
  /\ ~panicked
  /\ caller[b].pc \in {"ready", "sending", "collecting"}
  /\ expired' = expired \cup {b}
  /\ UNCHANGED <<queues, dispatchIndex, caller, respCh, worker, exited,
                 cancelled, accepted, finished, metFull, panicked>>

-----------------------------------------------------------------------------
(* Workers and Stop.                                                       *)

\* Slip: the message stays in the queue until its handler returns.
TakePeeks(w) ==
  /\ ~panicked
  /\ w \notin exited
  /\ worker[w] = Free
  /\ queues[w[1]] # <<>>
  /\ worker' = [worker EXCEPT ![w] = Head(queues[w[1]])]
  /\ UNCHANGED <<queues, dispatchIndex, caller, respCh, exited, cancelled,
                 expired, accepted, finished, metFull, panicked>>

\* The worker's select takes a message, or the end of the context: both when
\* both are ready.
Take(w) ==
  /\ ~panicked
  /\ w \notin exited
  /\ worker[w] = Free
  /\ queues[w[1]] # <<>>
  /\ worker' = [worker EXCEPT ![w] = Head(queues[w[1]])]
  /\ queues' = [queues EXCEPT ![w[1]] = Tail(@)]
  /\ UNCHANGED <<dispatchIndex, caller, respCh, exited, cancelled, expired,
                 accepted, finished, metFull, panicked>>

\* Slip: a message without a handler ends the task without a response.
FinishSilently(w) ==
  /\ ~panicked
  /\ worker[w] # Free
  /\ finished' = Append(finished, worker[w])
  /\ worker' = [worker EXCEPT ![w] = Free]
  /\ \/ UNCHANGED respCh
     \/ /\ respCh[worker[w]] = "empty"
        /\ respCh' = [respCh EXCEPT ![worker[w]] = "full"]
  /\ UNCHANGED <<queues, dispatchIndex, caller, exited, cancelled, expired,
                 accepted, metFull, panicked>>

\* processTask: the handler returns, or there is none and the response is an
\* error.  sendResponse does not block; a send on a closed channel panics
\* also inside a select with a default.
Finish(w) ==
  /\ ~panicked
  /\ worker[w] # Free
  /\ finished' = Append(finished, worker[w])
  /\ worker' = [worker EXCEPT ![w] = Free]
  /\ respCh' = [respCh EXCEPT ![worker[w]] = IF @ = "empty" THEN "full" ELSE @]
  /\ panicked' = (panicked \/ respCh[worker[w]] = "closed")
  /\ UNCHANGED <<queues, dispatchIndex, caller, exited, cancelled, expired,
                 accepted, metFull>>

Exit(w) ==
  /\ ~panicked
  /\ cancelled
  /\ w \notin exited
  /\ worker[w] = Free
  /\ exited' = exited \cup {w}
  /\ UNCHANGED <<queues, dispatchIndex, caller, respCh, worker, cancelled,
                 expired, accepted, finished, metFull, panicked>>

\* Stop cancels the context; it returns when every worker has exited.
StopDispatcher ==
  /\ ~panicked
  /\ ~cancelled
  /\ cancelled' = TRUE
  /\ UNCHANGED <<queues, dispatchIndex, caller, respCh, worker, exited,
                 expired, accepted, finished, metFull, panicked>>

-----------------------------------------------------------------------------
DispatchStep(b) == Begin(b) \/ Enqueue(b) \/ Refused(b) \/ Collect(b) \/ GiveUp(b) \/ Expire(b)
WorkerStep(w) == Take(w) \/ Finish(w) \/ Exit(w)

DispatcherNext ==
  \/ \E b \in Callers : DispatchStep(b)
  \/ \E w \in Workers : WorkerStep(w)
  \/ StopDispatcher

DispatcherSpec == DispatcherInit /\ [][DispatcherNext]_dispatcherVars

\* Callers and workers run and handlers return.  Nothing makes a queue accept,
\* a context expire or Stop be called.
DispatcherFairness ==
  /\ \A b \in Callers : WF_dispatcherVars(Collect(b))
  /\ \A w \in Workers : WF_dispatcherVars(Take(w) \/ Exit(w)) /\ WF_dispatcherVars(Finish(w))

FairDispatcher == DispatcherSpec /\ DispatcherFairness

\* The instance for TLC: two batches of two messages, and the messages of the
\* one that goes by hash have one hash.
TwoBatches == [b \in Callers |-> IF b \in ByHash THEN <<1, 2>> ELSE <<3, 4>>]
TwoHashes == [t \in Tasks |-> (t + 1) \div 2]

-----------------------------------------------------------------------------
(* Properties.                                                             *)

Elements(s) == {s[i] : i \in 1 .. Len(s)}
Queued   == UNION {Elements(queues[q]) : q \in Queues}
InWork   == {worker[w] : w \in Workers} \ {Free}
Finished == Elements(finished)

\* A message that a queue took is in one place: waiting in one queue, with one
\* worker, or finished once.  Queues, callers that give up and Stop neither
\* lose nor repeat it.
EachTaskOnce ==
  /\ Elements(accepted) = Queued \cup InWork \cup Finished
  /\ Len(accepted) = Cardinality(Queued) + Cardinality(InWork) + Len(finished)

\* DispatchByHash keeps the order of the messages with one hash when their
\* queue is served by one worker: they finish in the order the queue took
\* them, whatever the round robin puts between them.
Before(s, t, u) == \E i, j \in 1 .. Len(s) : i < j /\ s[i] = t /\ s[j] = u
Hashed == UNION {Elements(Msgs[b]) : b \in ByHash}
OneWorkerKeepsOrder ==
  \A t, u \in Hashed :
    /\ HashOf[t] % QueueCount = HashOf[u] % QueueCount
    /\ WorkersOf(HashOf[t] % QueueCount) = 1
    /\ Before(finished, t, u)
    => Before(accepted, t, u)

\* Every message a queue took is processed, unless the dispatcher is stopped:
\* every queue has a worker.
EventuallyProcessed ==
  \A t \in Tasks : t \in Elements(accepted) ~> t \in Finished \/ cancelled \/ panicked

\* A synchronous call whose messages were taken returns.
SyncReturns ==
  \A b \in Sync :
    caller[b].pc = "collecting" ~> caller[b].pc \in {"done", "gaveup"} \/ cancelled \/ panicked

\* What holds of the messages that were taken, whatever workers, callers and
\* Stop do: each is in one place, and one worker keeps the order of a hash.
TasksAreKept == DispatcherTypeOK /\ EachTaskOnce /\ OneWorkerKeepsOrder

\* Every message that was taken is processed and every caller is served.
TasksAreServed == EventuallyProcessed /\ SyncReturns

-----------------------------------------------------------------------------
(* Claims of the documentation that the code does not keep.                *)

\* sendResponse says it copes with a channel that is "full or closed".
ClosedChannelIsHandled == ~panicked

\* data-model.md: when the channel is full, new messages are refused with an
\* error.
FullQueueRefuses == metFull \cap Elements(accepted) = {}

\* spec.md: all messages are processed in the order they arrive.
ArrivalOrder == \A t, u \in Tasks : Before(finished, t, u) => Before(accepted, t, u)

\* multi_queue.go: DispatchByHash keeps the order of messages with one hash.
HashOrder ==
  \A t, u \in Hashed : HashOf[t] = HashOf[u] /\ Before(finished, t, u) => Before(accepted, t, u)
=============================================================================
