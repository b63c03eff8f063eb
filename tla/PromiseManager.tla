--------------------------- MODULE PromiseManager ---------------------------
(***************************************************************************)
(* pkg/callback: the promises the server keeps for messages that wait for  *)
(* an acknowledgement (manager.go, promise.go), driven by the callers in   *)
(* pkg/transport/server/server.go (SendToWithPromise, AsyncSend,           *)
(* handleAck).                                                             *)
(*                                                                         *)
(* A promise object p is one call of Create; MsgOf[p] is the message ID it *)
(* is stored under.  The goroutines that interleave are the callers of     *)
(* Create, the responders that deliver an acknowledgement (the reader      *)
(* started by SendToWithPromise, handleAck of any stream), the AfterFunc   *)
(* timer of every promise, delayedRemoveLoop and cleanupLoop.  Each atomic *)
(* operation on the sync.Map, the counter, the promise's mutex or the      *)
(* channel is a step.                                                      *)
(***************************************************************************)
EXTENDS Integers, Sequences, FiniteSets

CONSTANTS
  Promises,     \* promise objects, one for each call of Create
  MsgIds,       \* message IDs
  MsgOf,        \* the message ID a promise is created with
  Responders,   \* goroutines that deliver an acknowledgement or a failure
  NoPromise,    \* an ID that is not in the map
  MaxCapacity,  \* PromiseManagerConfig.MaxCapacity
  MaxCallers,   \* bound: calls of Create in progress at the same time
  DelayCap      \* capacity of delayedRemoveCh (1000 in the code)

ASSUME PromiseAssumption ==
  /\ IsFiniteSet(Promises)
  /\ NoPromise \notin Promises
  /\ MsgOf \in [Promises -> MsgIds]
  /\ MaxCapacity \in Nat \ {0}
  /\ MaxCallers \in Nat \ {0}
  /\ DelayCap \in Nat

VARIABLES
  promises,     \* sync.Map: message ID -> promise
  count,        \* atomic counter next to the map
  pc,           \* progress of the call that creates a promise
  timer,        \* the promise's AfterFunc timer and its goroutine
  completed,    \* Promise.completed, guarded by Promise.mu
  outcome,      \* responses sent on RespChan, in order
  delayedRemoveCh, \* IDs in the removal channel
  pending,      \* how often delayedRemoveLoop holds an ID until it is due
  toRemove,     \* IDs cleanup() has collected
  resp,         \* what every responder is doing
  stopped       \* Stop has closed ctx: both loops have ended

vars == <<promises, count, pc, timer, completed, outcome, delayedRemoveCh,
          pending, toRemove, resp, stopped>>

CallStates  == {"new", "checked", "stored", "created", "sent", "failed", "rejected"}
TimerStates == {"off", "armed", "hooked", "removing", "stopped", "done"}
Answers     == {"ack", "fail", "timeout"}
Idle        == [step |-> "idle", p |-> NoPromise, kind |-> "ack"]

TypeOK ==
  /\ promises \in [MsgIds -> Promises \cup {NoPromise}]
  /\ count \in Int
  /\ pc \in [Promises -> CallStates]
  /\ timer \in [Promises -> TimerStates]
  /\ completed \in [Promises -> BOOLEAN]
  /\ outcome \in [Promises -> Seq(Answers)]
  /\ delayedRemoveCh \in Seq(MsgIds)
  /\ Len(delayedRemoveCh) <= DelayCap
  /\ pending \in [MsgIds -> Nat]
  /\ toRemove \subseteq MsgIds
  /\ resp \in [Responders -> [step : {"idle", "got", "post"},
                              p : Promises \cup {NoPromise},
                              kind : {"ack", "fail"}]]
  /\ \A r \in Responders : resp[r].step # "idle" => resp[r].p \in Promises
  /\ stopped \in BOOLEAN

Init ==
  /\ promises = [m \in MsgIds |-> NoPromise]
  /\ count = 0
  /\ pc = [p \in Promises |-> "new"]
  /\ timer = [p \in Promises |-> "off"]
  /\ completed = [p \in Promises |-> FALSE]
  /\ outcome = [p \in Promises |-> <<>>]
  /\ delayedRemoveCh = <<>>
  /\ pending = [m \in MsgIds |-> 0]
  /\ toRemove = {}
  /\ resp = [r \in Responders |-> Idle]
  /\ stopped = FALSE

-----------------------------------------------------------------------------
(* Helpers.                                                                *)

Stored   == {m \in MsgIds : promises[m] # NoPromise}
Creating == {p \in Promises : pc[p] \in {"checked", "stored"}}

\* Slips a change of Remove could make, for the runs' mutants: the counter
\* goes down although the ID was gone; the ID is looked up and kept.
RemoveBlindly(m) ==
  /\ promises' = [promises EXCEPT ![m] = NoPromise]
  /\ count' = count - 1
RemoveLoadsOnly(m) == m \in MsgIds /\ UNCHANGED <<promises, count>>

\* Remove: LoadAndDelete, and count.Add(-1) when the ID was there.  The two
\* are one step: a later decrement can only make Create refuse more.
Remove(m) ==
  /\ promises' = [promises EXCEPT ![m] = NoPromise]
  /\ count' = IF promises[m] # NoPromise THEN count - 1 ELSE count

\* The select on delayedRemoveCh: queue the ID, remove it at once when full.
RemoveLater(m) ==
  \/ /\ Len(delayedRemoveCh) < DelayCap
     /\ delayedRemoveCh' = Append(delayedRemoveCh, m)
     /\ UNCHANGED <<promises, count>>
  \/ /\ Len(delayedRemoveCh) >= DelayCap
     /\ Remove(m)
     /\ UNCHANGED delayedRemoveCh

\* Slip: no test of completed.
SettleAgain(p, answer) ==
  /\ completed' = [completed EXCEPT ![p] = TRUE]
  /\ outcome' = [outcome EXCEPT ![p] = Append(@, answer)]

\* Promise.Complete, Fail and Timeout under Promise.mu: the first one wins
\* and its response goes into RespChan.
Settle(p, answer) ==
  /\ completed' = [completed EXCEPT ![p] = TRUE]
  /\ outcome' = IF completed[p] THEN outcome
                ELSE [outcome EXCEPT ![p] = Append(@, answer)]

-----------------------------------------------------------------------------
(* Create and its callers.                                                 *)

\* Create reads the counter and refuses when the capacity is reached.
CheckCapacity(p) ==
  /\ pc[p] = "new"
  /\ Cardinality(Creating) < MaxCallers
  /\ pc' = [pc EXCEPT ![p] = IF count >= MaxCapacity THEN "rejected" ELSE "checked"]
  /\ UNCHANGED <<promises, count, timer, completed, outcome, delayedRemoveCh,
                 pending, toRemove, resp, stopped>>

\* NewPromise arms the timer; the promise is stored under its ID, over
\* whatever the ID held before.
Store(p) ==
  /\ pc[p] = "checked"
  /\ pc' = [pc EXCEPT ![p] = "stored"]
  /\ timer' = [timer EXCEPT ![p] = "armed"]
  /\ promises' = [promises EXCEPT ![MsgOf[p]] = p]
  /\ UNCHANGED <<count, completed, outcome, delayedRemoveCh, pending,
                 toRemove, resp, stopped>>

CountUp(p) ==
  /\ pc[p] = "stored"
  /\ pc' = [pc EXCEPT ![p] = "created"]
  /\ count' = count + 1
  /\ UNCHANGED <<promises, timer, completed, outcome, delayedRemoveCh,
                 pending, toRemove, resp, stopped>>

\* The caller has written the message: from here the peer may answer.
Send(p) ==
  /\ pc[p] = "created"
  /\ pc' = [pc EXCEPT ![p] = "sent"]
  /\ UNCHANGED <<promises, count, timer, completed, outcome, delayedRemoveCh,
                 pending, toRemove, resp, stopped>>

\* No stream or a failed write (both callers), or a failed Close after the
\* write (AsyncSend): the caller removes the promise and gives up on it.
\* The timer is left armed.
SendFailed(p) ==
  /\ pc[p] \in {"created", "sent"}
  /\ pc' = [pc EXCEPT ![p] = "failed"]
  /\ Remove(MsgOf[p])
  /\ UNCHANGED <<timer, completed, outcome, delayedRemoveCh, pending,
                 toRemove, resp, stopped>>

-----------------------------------------------------------------------------
(* Responders: Complete (an ACK arrived) and Fail (reading it failed).     *)

\* Get: the answer to p's message arrives, the ID is looked up.
Lookup(r, p, kind) ==
  /\ resp[r].step = "idle"
  /\ pc[p] \in {"sent", "failed"}
  /\ promises[MsgOf[p]] # NoPromise
  /\ resp' = [resp EXCEPT ![r] = [step |-> "got", p |-> promises[MsgOf[p]], kind |-> kind]]
  /\ UNCHANGED <<promises, count, pc, timer, completed, outcome,
                 delayedRemoveCh, pending, toRemove, stopped>>

\* promise.Complete / promise.Fail on the pointer Get returned.
Answer(r) ==
  LET p == resp[r].p IN
  /\ resp[r].step = "got"
  /\ Settle(p, resp[r].kind)
  /\ IF completed[p]
     THEN /\ resp' = [resp EXCEPT ![r] = Idle]
          /\ UNCHANGED timer
     ELSE /\ resp' = [resp EXCEPT ![r] = [step |-> "post", p |-> p, kind |-> resp[r].kind]]
          /\ timer' = [timer EXCEPT ![p] = IF @ = "armed" THEN "stopped" ELSE @]
  /\ UNCHANGED <<promises, count, pc, delayedRemoveCh, pending, toRemove, stopped>>

Post(r) ==
  /\ resp[r].step = "post"
  /\ RemoveLater(MsgOf[resp[r].p])
  /\ resp' = [resp EXCEPT ![r] = Idle]
  /\ UNCHANGED <<pc, timer, completed, outcome, pending, toRemove, stopped>>

-----------------------------------------------------------------------------
(* The timer goroutine: onTimeout runs to its end before Promise.Timeout.  *)

TimerFires(p) ==
  /\ timer[p] = "armed"
  /\ pc[p] \in {"created", "sent", "failed"}
  /\ timer' = [timer EXCEPT ![p] = "hooked"]
  /\ UNCHANGED <<promises, count, pc, completed, outcome, delayedRemoveCh,
                 pending, toRemove, resp, stopped>>

TimerRemoves(p) ==
  /\ timer[p] = "hooked"
  /\ timer' = [timer EXCEPT ![p] = "removing"]
  /\ RemoveLater(MsgOf[p])
  /\ UNCHANGED <<pc, completed, outcome, pending, toRemove, resp, stopped>>

\* Slip: the timeout is delivered through the map, which may have lost it.
TimerSettlesByLookup(p) ==
  /\ timer[p] = "removing"
  /\ timer' = [timer EXCEPT ![p] = "done"]
  /\ IF promises[MsgOf[p]] = p THEN Settle(p, "timeout") ELSE UNCHANGED <<completed, outcome>>
  /\ UNCHANGED <<promises, count, pc, delayedRemoveCh, pending, toRemove,
                 resp, stopped>>

TimerSettles(p) ==
  /\ timer[p] = "removing"
  /\ timer' = [timer EXCEPT ![p] = "done"]
  /\ Settle(p, "timeout")
  /\ UNCHANGED <<promises, count, pc, delayedRemoveCh, pending, toRemove,
                 resp, stopped>>

-----------------------------------------------------------------------------
(* The two loops and Stop.                                                 *)

\* delayedRemoveLoop takes an ID from the channel.
TakeDelayed ==
  /\ ~stopped
  /\ delayedRemoveCh # <<>>
  /\ pending' = [pending EXCEPT ![Head(delayedRemoveCh)] = @ + 1]
  /\ delayedRemoveCh' = Tail(delayedRemoveCh)
  /\ UNCHANGED <<promises, count, pc, timer, completed, outcome, toRemove,
                 resp, stopped>>

\* Its ticker removes the IDs that are due.  removeAt is set before the send,
\* so any of the IDs it holds may be the first one due.
RemoveDue(m) ==
  /\ ~stopped
  /\ pending[m] > 0
  /\ pending' = [pending EXCEPT ![m] = @ - 1]
  /\ Remove(m)
  /\ UNCHANGED <<pc, timer, completed, outcome, delayedRemoveCh, toRemove,
                 resp, stopped>>

\* Slip: cleanup() without the IsCompleted test.
CleanupVisitsAll(m) ==
  /\ ~stopped
  /\ promises[m] # NoPromise
  /\ m \notin toRemove
  /\ toRemove' = toRemove \cup {m}
  /\ UNCHANGED <<promises, count, pc, timer, completed, outcome,
                 delayedRemoveCh, pending, resp, stopped>>

\* cleanup() collects the IDs of completed promises while it ranges over the
\* map, then removes them.
CleanupVisits(m) ==
  /\ ~stopped
  /\ promises[m] # NoPromise
  /\ completed[promises[m]]
  /\ m \notin toRemove
  /\ toRemove' = toRemove \cup {m}
  /\ UNCHANGED <<promises, count, pc, timer, completed, outcome,
                 delayedRemoveCh, pending, resp, stopped>>

CleanupRemoves(m) ==
  /\ m \in toRemove
  /\ toRemove' = toRemove \ {m}
  /\ Remove(m)
  /\ UNCHANGED <<pc, timer, completed, outcome, delayedRemoveCh, pending,
                 resp, stopped>>

\* Stop closes ctx and waits for both loops; cleanup() ends its pass first.
Stop ==
  /\ ~stopped
  /\ toRemove = {}
  /\ stopped' = TRUE
  /\ UNCHANGED <<promises, count, pc, timer, completed, outcome,
                 delayedRemoveCh, pending, toRemove, resp>>

-----------------------------------------------------------------------------
CallerStep(p) == CheckCapacity(p) \/ Store(p) \/ CountUp(p) \/ Send(p) \/ SendFailed(p)
TimerStep(p)  == TimerFires(p) \/ TimerRemoves(p) \/ TimerSettles(p)
ResponderStep(r) ==
  \/ \E p \in Promises, kind \in {"ack", "fail"} : Lookup(r, p, kind)
  \/ Answer(r)
  \/ Post(r)
LoopStep ==
  \/ TakeDelayed
  \/ \E m \in MsgIds : RemoveDue(m) \/ CleanupVisits(m) \/ CleanupRemoves(m)

Next ==
  \/ \E p \in Promises : CallerStep(p) \/ TimerStep(p)
  \/ \E r \in Responders : ResponderStep(r)
  \/ LoopStep
  \/ Stop

Spec == Init /\ [][Next]_vars

\* Goroutines run: a call of Create goes on, a timer that is not stopped
\* fires and its function returns, a responder that holds a promise finishes,
\* the loops keep ticking until Stop.  Nothing makes a peer answer, a send
\* fail, or Stop happen.
Fairness ==
  /\ \A p \in Promises : /\ WF_vars(Store(p)) /\ WF_vars(CountUp(p))
                         /\ WF_vars(TimerStep(p))
  /\ \A r \in Responders : WF_vars(Answer(r)) /\ WF_vars(Post(r))
  /\ WF_vars(TakeDelayed)
  /\ \A m \in MsgIds : /\ WF_vars(RemoveDue(m)) /\ WF_vars(CleanupVisits(m))
                       /\ WF_vars(CleanupRemoves(m))

FairSpec == Spec /\ Fairness
-----------------------------------------------------------------------------
(* Properties.                                                             *)

Accepted == {p \in Promises : pc[p] \in {"stored", "created", "sent", "failed"}}
InUse    == {p \in Promises : pc[p] \in {"created", "sent"}}
\* promises whose OnPromiseTimeout hook and RecordPromiseTimeout have run
Hooked   == {p \in Promises : timer[p] \in {"hooked", "removing", "done"}}
\* promises counted by RecordPromiseCompleted: their Complete returned true
Acked    == {p \in Promises : outcome[p] = <<"ack">>}

\* IDs are UUIDs (data-model.md: MsgID is globally unique).
UniqueIds == \A p, q \in Promises : MsgOf[p] = MsgOf[q] => p = q

\* Complete, Fail and Timeout race for a promise under its mutex: the waiter
\* is sent exactly one response, and one was sent if and only if the promise
\* is completed (RespChan has room for one).
AnsweredOnce ==
  \A p \in Promises : Len(outcome[p]) = IF completed[p] THEN 1 ELSE 0

\* The counter that stands for the size of the map never drifts from it,
\* whichever of the four places that remove an ID come first: it only lags
\* while a Create is between Store and count.Add.
CountTracksMap ==
  UniqueIds =>
    count = Cardinality(Stored) - Cardinality({p \in Promises : pc[p] = "stored"})

\* Create checks the capacity and stores in two steps, so the map can pass
\* MaxCapacity, but by no more than the other calls in progress.
OvershootBounded ==
  UniqueIds => Cardinality(Stored) <= MaxCapacity + MaxCallers - 1

\* While a caller waits and its timer has not fired, its promise is in the
\* map: no removal that was queued, collected or retried for another promise
\* takes it away, so an acknowledgement always finds the waiting caller.
WaitingIsFound ==
  UniqueIds =>
    \A p \in InUse : ~completed[p] /\ p \notin Hooked => promises[MsgOf[p]] = p

\* Every promise that Create hands out is answered, also when its message
\* could not be sent and when the manager has been stopped (timers go on).
EventuallyAnswered == \A p \in Promises : p \in Accepted ~> outcome[p] # <<>>

\* FR-019: the entry of an answered or timed-out promise leaves the map, as
\* long as the loops run.
EventuallyReleased ==
  \A p \in Promises : completed[p] ~> promises[MsgOf[p]] # p \/ stopped

\* The promises implement the one-answer contract; a second response to a
\* caller would be an answer the contract does not know.
ReplyOf(p) ==
  CASE pc[p] = "rejected"           -> "refused"
    [] pc[p] \in {"new", "checked"} -> "none"
    [] pc[p] \in {"stored", "created", "sent", "failed"} ->
         IF outcome[p] = <<>> THEN "waiting"
         ELSE IF Len(outcome[p]) = 1 THEN outcome[p][1] ELSE "twice"
Replies == [p \in Promises |-> ReplyOf(p)]
Contract == INSTANCE ReplyOnce WITH
  Requests <- Promises,
  reply <- Replies
ImplementsReplyOnce == Contract!Spec

\* The two together: the answer and the room for the next promise.
EachIsServed == EventuallyAnswered /\ EventuallyReleased

-----------------------------------------------------------------------------
(* Claims of the documentation that the code does not keep.                *)

\* data-model.md: at most MaxCapacity callback records.
MapWithinCapacity == Cardinality(Stored) <= MaxCapacity

\* hooks.go: OnPromiseTimeout is called when a promise times out.
HookMeansTimeout == \A p \in Hooked : completed[p] => outcome[p] = <<"timeout">>

\* prometheus.go: promise_active is the number of currently active promises.
\* GetSnapshot computes it as created - completed - timeouts.
ActiveGauge == Cardinality(Accepted) - Cardinality(Acked) - Cardinality(Hooked)
Quiet ==
  /\ \A p \in Accepted : completed[p]
  /\ \A p \in Promises : timer[p] \in {"off", "stopped", "done"}
  /\ \A r \in Responders : resp[r].step = "idle"
ActiveGaugeDrains == Quiet => ActiveGauge = 0

-----------------------------------------------------------------------------
\* A value of MsgOf for TLC: every promise has an ID of its own, as the UUIDs
\* of the callers give.
OwnIds == [p \in Promises |-> p]
=============================================================================
