--------------------------- MODULE RequestProofs ---------------------------
(***************************************************************************)
(* What a request passes: the promises of the side that asks, and the      *)
(* queues of the side that answers.  PromiseManager for any number of      *)
(* promises, responders and callers and any capacity; Dispatcher for any   *)
(* number of callers, queues, workers and any room in the queues.          *)
(***************************************************************************)
EXTENDS PromiseManager, Dispatcher, FiniteSetTheorems, TLAPS

-----------------------------------------------------------------------------
(* PromiseManager.                                                         *)

\* An ID that may be taken out of the map: its promise is answered, its timer
\* has fired, or its caller has given up.
Condemned(m) ==
  \E p \in Promises :
    /\ MsgOf[p] = m
    /\ completed[p] \/ p \in Hooked \/ pc[p] = "failed"

Checked   == {p \in Promises : pc[p] = "checked"}
Uncounted == {p \in Promises : pc[p] = "stored"}

\* The strengthening behind WaitingIsFound.
Phases ==
  \A p \in Promises :
    /\ pc[p] \in {"new", "checked", "rejected"} => timer[p] = "off" /\ ~completed[p]
    /\ pc[p] = "stored" => timer[p] = "armed" /\ ~completed[p]
MapSound ==
  \A m \in MsgIds : promises[m] # NoPromise =>
    MsgOf[promises[m]] = m /\ promises[m] \in Accepted
StoredFound ==
  \A p \in Promises : pc[p] = "stored" => promises[MsgOf[p]] = p
QueuedCondemned ==
  /\ \A i \in 1 .. Len(delayedRemoveCh) : Condemned(delayedRemoveCh[i])
  /\ \A m \in MsgIds : pending[m] > 0 \/ m \in toRemove => Condemned(m)
RespondersSound ==
  \A r \in Responders :
    /\ resp[r].step # "idle" => pc[resp[r].p] \in {"sent", "failed"}
    /\ resp[r].step = "post" => completed[resp[r].p]
Waiting ==
  \A p \in InUse : ~completed[p] /\ p \notin Hooked => promises[MsgOf[p]] = p

WInv ==
  /\ TypeOK
  /\ UniqueIds => /\ Phases
                  /\ MapSound
                  /\ StoredFound
                  /\ QueuedCondemned
                  /\ RespondersSound
                  /\ Waiting

\* The strengthening behind OvershootBounded: every call that has passed the
\* check has its place reserved in the bound.
Counted ==
  /\ IsFiniteSet(Stored)
  /\ count = Cardinality(Stored) - Cardinality(Uncounted)
  /\ Cardinality(Creating) <= MaxCallers
  /\ Cardinality(Stored) + Cardinality(Checked) <= MaxCapacity + MaxCallers - 1

CInv == WInv /\ (UniqueIds => Counted)

-----------------------------------------------------------------------------
\* Every variable keeps its type; the removal channel never holds more than
\* its capacity.
LEMMA InitTypeOK == Init => TypeOK
<1> SUFFICES ASSUME Init PROVE TypeOK
  OBVIOUS
<1> USE PromiseAssumption DEF Init, TypeOK, CallStates, TimerStates, Answers, Idle
<1>1. delayedRemoveCh \in Seq(MsgIds) /\ Len(delayedRemoveCh) <= DelayCap
  OBVIOUS
<1>2. outcome \in [Promises -> Seq(Answers)]
  OBVIOUS
<1>3. resp \in [Responders -> [step : {"idle", "got", "post"},
                              p : Promises \cup {NoPromise}, kind : {"ack", "fail"}]]
  OBVIOUS
<1>4. \A r \in Responders : resp[r].step # "idle" => resp[r].p \in Promises
  OBVIOUS
<1>5. /\ promises \in [MsgIds -> Promises \cup {NoPromise}]
      /\ pending \in [MsgIds -> Nat]
  OBVIOUS
<1>6. pc \in [Promises -> CallStates] /\ timer \in [Promises -> TimerStates]
  OBVIOUS
<1>7. completed \in [Promises -> BOOLEAN] /\ stopped \in BOOLEAN
  OBVIOUS
<1>8. count \in Int /\ toRemove \subseteq MsgIds
  OBVIOUS
<1> QED BY <1>1, <1>2, <1>3, <1>4, <1>5, <1>6, <1>7, <1>8

\* A removal, queued or done at once, keeps the types.
LEMMA RemoveLaterTyped ==
  ASSUME TypeOK, NEW m \in MsgIds, RemoveLater(m)
  PROVE  /\ (promises \in [MsgIds -> Promises \cup {NoPromise}])'
         /\ (count \in Int)'
         /\ (delayedRemoveCh \in Seq(MsgIds))'
         /\ (Len(delayedRemoveCh) <= DelayCap)'
<1>1. CASE Len(delayedRemoveCh) < DelayCap /\ delayedRemoveCh' = Append(delayedRemoveCh, m)
           /\ UNCHANGED <<promises, count>>
  BY <1>1, PromiseAssumption DEF TypeOK
<1>2. CASE Remove(m) /\ UNCHANGED delayedRemoveCh
  BY <1>2, PromiseAssumption DEF TypeOK, Remove
<1> QED BY <1>1, <1>2 DEF RemoveLater

\* Every step keeps the types.
LEMMA NextTypeOK == TypeOK /\ [Next]_vars => TypeOK'
<1> SUFFICES ASSUME TypeOK, [Next]_vars PROVE TypeOK'
  OBVIOUS
<1> USE PromiseAssumption DEF TypeOK, CallStates, TimerStates, Answers, Idle
<1>1. ASSUME NEW p \in Promises, CheckCapacity(p) PROVE TypeOK'
  BY <1>1 DEF CheckCapacity
<1>2. ASSUME NEW p \in Promises, Store(p) PROVE TypeOK'
  BY <1>2 DEF Store
<1>3. ASSUME NEW p \in Promises, CountUp(p) PROVE TypeOK'
  BY <1>3 DEF CountUp
<1>4. ASSUME NEW p \in Promises, Send(p) PROVE TypeOK'
  BY <1>4 DEF Send
<1>5. ASSUME NEW p \in Promises, SendFailed(p) PROVE TypeOK'
  BY <1>5 DEF SendFailed, Remove
<1>6. ASSUME NEW r \in Responders, NEW p \in Promises, NEW kind \in {"ack", "fail"},
             Lookup(r, p, kind)
      PROVE TypeOK'
  BY <1>6 DEF Lookup
<1>7. ASSUME NEW r \in Responders, Answer(r) PROVE TypeOK'
  <2>1. resp[r].p \in Promises /\ resp[r].kind \in Answers /\ resp[r].kind \in {"ack", "fail"}
    BY <1>7 DEF Answer
  <2>2. completed' \in [Promises -> BOOLEAN] /\ outcome' \in [Promises -> Seq(Answers)]
    BY <1>7, <2>1 DEF Answer, Settle
  <2>3. CASE completed[resp[r].p]
    <3>1. resp' = [resp EXCEPT ![r] = Idle] /\ timer' = timer
      BY <1>7, <2>3 DEF Answer
    <3> QED BY <1>7, <2>2, <3>1 DEF Answer
  <2>4. CASE ~completed[resp[r].p]
    <3>1. /\ resp' = [resp EXCEPT ![r] = [step |-> "post", p |-> resp[r].p, kind |-> resp[r].kind]]
          /\ timer' = [timer EXCEPT ![resp[r].p] = IF @ = "armed" THEN "stopped" ELSE @]
      BY <1>7, <2>4 DEF Answer
    <3>2. timer' \in [Promises -> TimerStates]
      BY <2>1, <3>1
    <3>3. resp' \in [Responders -> [step : {"idle", "got", "post"},
                                   p : Promises \cup {NoPromise}, kind : {"ack", "fail"}]]
      BY <2>1, <3>1
    <3>4. \A q \in Responders : resp'[q].step # "idle" => resp'[q].p \in Promises
      BY <2>1, <3>1
    <3> QED BY <1>7, <2>2, <3>2, <3>3, <3>4 DEF Answer
  <2> QED BY <2>3, <2>4
<1>8. ASSUME NEW r \in Responders, Post(r) PROVE TypeOK'
  <2>1. MsgOf[resp[r].p] \in MsgIds
    BY <1>8 DEF Post
  <2> QED BY <1>8, <2>1, RemoveLaterTyped DEF Post
<1>9. ASSUME NEW p \in Promises, TimerFires(p) PROVE TypeOK'
  BY <1>9 DEF TimerFires
<1>10. ASSUME NEW p \in Promises, TimerRemoves(p) PROVE TypeOK'
  BY <1>10, RemoveLaterTyped DEF TimerRemoves
<1>11. ASSUME NEW p \in Promises, TimerSettles(p) PROVE TypeOK'
  BY <1>11 DEF TimerSettles, Settle
<1>12. ASSUME TakeDelayed PROVE TypeOK'
  BY <1>12 DEF TakeDelayed
<1>13. ASSUME NEW m \in MsgIds, RemoveDue(m) PROVE TypeOK'
  BY <1>13 DEF RemoveDue, Remove
<1>14. ASSUME NEW m \in MsgIds, CleanupVisits(m) PROVE TypeOK'
  BY <1>14 DEF CleanupVisits
<1>15. ASSUME NEW m \in MsgIds, CleanupRemoves(m) PROVE TypeOK'
  BY <1>15 DEF CleanupRemoves, Remove
<1>16. ASSUME Stop PROVE TypeOK'
  BY <1>16 DEF Stop
<1>17. CASE UNCHANGED vars
  BY <1>17 DEF vars
<1>18. CASE Next
  BY <1>1, <1>2, <1>3, <1>4, <1>5, <1>6, <1>7, <1>8, <1>9, <1>10, <1>11, <1>12,
     <1>13, <1>14, <1>15, <1>16, <1>18
     DEF Next, CallerStep, TimerStep, ResponderStep, LoopStep
<1> QED BY <1>17, <1>18

\* The types are an invariant of every behaviour of the manager.
THEOREM TypeCorrect == Spec => []TypeOK
BY InitTypeOK, NextTypeOK, PTL DEF Spec

-----------------------------------------------------------------------------
(* A waiting promise is always in the map (WaitingIsFound).                *)

\* With IDs of their own, a condemned ID condemns exactly its promise.
LEMMA CondemnedPromise ==
  ASSUME UniqueIds, NEW p \in Promises, Condemned(MsgOf[p])
  PROVE  completed[p] \/ p \in Hooked \/ pc[p] = "failed"
BY DEF UniqueIds, Condemned

\* What is condemned stays condemned: no step undoes an answer, a timer that
\* fired or a caller's giving up.
LEMMA CondemnedStays ==
  ASSUME TypeOK, Next, UniqueIds, Phases, RespondersSound,
         NEW m, Condemned(m)
  PROVE  Condemned(m)'
<1> PICK p \in Promises : MsgOf[p] = m /\ (completed[p] \/ p \in Hooked \/ pc[p] = "failed")
  BY DEF Condemned
<1>1. completed[p] => completed'[p]
  BY DEF Next, CallerStep, TimerStep, ResponderStep, LoopStep, TypeOK, CheckCapacity, Store,
         CountUp, Send, SendFailed, Remove, Lookup, Answer, Post, RemoveLater, Settle,
         TimerFires, TimerRemoves, TimerSettles, TakeDelayed, RemoveDue, CleanupVisits,
         CleanupRemoves, Stop
<1>2. p \in Hooked => p \in Hooked'
  BY DEF Next, CallerStep, TimerStep, ResponderStep, LoopStep, TypeOK, CheckCapacity, Store,
         CountUp, Send, SendFailed, Remove, Lookup, Answer, Post, RemoveLater, Settle,
         TimerFires, TimerRemoves, TimerSettles, TakeDelayed, RemoveDue, CleanupVisits,
         CleanupRemoves, Stop, Hooked, Phases, TimerStates
<1>3. pc[p] = "failed" => pc'[p] = "failed"
  BY DEF Next, CallerStep, TimerStep, ResponderStep, LoopStep, TypeOK, CheckCapacity, Store,
         CountUp, Send, SendFailed, Remove, Lookup, Answer, Post, RemoveLater, Settle,
         TimerFires, TimerRemoves, TimerSettles, TakeDelayed, RemoveDue, CleanupVisits,
         CleanupRemoves, Stop
<1> QED BY <1>1, <1>2, <1>3 DEF Condemned

\* How a step changes the map: not at all, by storing the promise of a Create
\* call, or by taking out an ID that is condemned.
LEMMA MapStep ==
  ASSUME TypeOK, Next, UniqueIds, Phases, RespondersSound, QueuedCondemned
  PROVE  \/ promises' = promises
         \/ \E p \in Promises : Store(p)
         \/ \E m \in MsgIds : Condemned(m)' /\ promises' = [promises EXCEPT ![m] = NoPromise]
<1> DEFINE Takes(m) == Condemned(m)' /\ promises' = [promises EXCEPT ![m] = NoPromise]
<1>1. ASSUME NEW p \in Promises, SendFailed(p) PROVE Takes(MsgOf[p])
  <2>1. pc'[p] = "failed"
    BY <1>1 DEF SendFailed, TypeOK
  <2> QED BY <1>1, <2>1 DEF SendFailed, Remove, Condemned
<1>2. ASSUME NEW r \in Responders, Post(r)
      PROVE  promises' = promises \/ \E p \in Promises : Takes(MsgOf[p])
  <2> PICK p \in Promises : p = resp[r].p
    BY <1>2 DEF Post, TypeOK
  <2>1. completed'[p]
    BY <1>2 DEF Post, RespondersSound
  <2> QED BY <1>2, <2>1 DEF Post, RemoveLater, Remove, Condemned
<1>3. ASSUME NEW p \in Promises, TimerRemoves(p)
      PROVE  promises' = promises \/ Takes(MsgOf[p])
  <2>1. p \in Hooked'
    BY <1>3 DEF TimerRemoves, TypeOK, Hooked
  <2> QED BY <1>3, <2>1 DEF TimerRemoves, RemoveLater, Remove, Condemned
<1>4. ASSUME NEW m \in MsgIds, RemoveDue(m) PROVE Takes(m)
  <2>1. Condemned(m)'
    BY <1>4, CondemnedStays DEF RemoveDue, QueuedCondemned
  <2> QED BY <1>4, <2>1 DEF RemoveDue, Remove
<1>5. ASSUME NEW m \in MsgIds, CleanupRemoves(m) PROVE Takes(m)
  <2>1. Condemned(m)'
    BY <1>5, CondemnedStays DEF CleanupRemoves, QueuedCondemned
  <2> QED BY <1>5, <2>1 DEF CleanupRemoves, Remove
<1>6. \A p \in Promises : MsgOf[p] \in MsgIds
  BY PromiseAssumption
<1> QED
  BY <1>1, <1>2, <1>3, <1>4, <1>5, <1>6
     DEF Next, CallerStep, TimerStep, ResponderStep, LoopStep, CheckCapacity, CountUp, Send,
         Lookup, Answer, TimerFires, TimerSettles, TakeDelayed, CleanupVisits, Stop

\* A promise counts as stored from Store on, and stays so.
LEMMA AcceptedStays ==
  ASSUME TypeOK, Next, NEW p \in Promises
  PROVE  /\ p \in Accepted => p \in Accepted'
         /\ pc'[p] = "stored" => pc[p] = "stored" \/ Store(p)
         /\ p \in InUse' => p \in InUse \/ pc[p] = "stored"
         /\ pc[p] \in {"sent", "failed"} => pc'[p] \in {"sent", "failed"}
BY DEF Next, CallerStep, TimerStep, ResponderStep, LoopStep, TypeOK, CheckCapacity, Store,
       CountUp, Send, SendFailed, Remove, Lookup, Answer, Post, RemoveLater, Settle,
       TimerFires, TimerRemoves, TimerSettles, TakeDelayed, RemoveDue, CleanupVisits,
       CleanupRemoves, Stop, Accepted, InUse

\* Before its Store a promise is untouched, and until Send it waits.
LEMMA PhasesStep ==
  ASSUME TypeOK, Next, Phases, RespondersSound
  PROVE  Phases'
<1> USE DEF TypeOK, Phases
<1>1. ASSUME NEW p \in Promises, CallerStep(p) PROVE Phases'
  BY <1>1 DEF CallerStep, CheckCapacity, Store, CountUp, Send, SendFailed
<1>2. ASSUME NEW p \in Promises, TimerStep(p) PROVE Phases'
  BY <1>2 DEF TimerStep, TimerFires, TimerRemoves, TimerSettles, Settle
<1>3. ASSUME NEW r \in Responders, ResponderStep(r) PROVE Phases'
  BY <1>3 DEF ResponderStep, Lookup, Answer, Post, Settle, RespondersSound
<1>4. ASSUME LoopStep PROVE Phases'
  BY <1>4 DEF LoopStep, TakeDelayed, RemoveDue, CleanupVisits, CleanupRemoves
<1>5. ASSUME Stop PROVE Phases'
  BY <1>5 DEF Stop
<1> QED BY <1>1, <1>2, <1>3, <1>4, <1>5 DEF Next

\* An entry of the map stays the promise of its own ID.
LEMMA MapSoundStep ==
  ASSUME TypeOK, Next, UniqueIds, Phases, RespondersSound, QueuedCondemned, MapSound
  PROVE  MapSound'
<1> SUFFICES ASSUME NEW m \in MsgIds, promises'[m] # NoPromise
             PROVE  MsgOf[promises'[m]] = m /\ promises'[m] \in Accepted'
  BY DEF MapSound
<1>1. CASE promises'[m] = promises[m]
  <2>1. MsgOf[promises[m]] = m /\ promises[m] \in Accepted /\ promises[m] \in Promises
    BY <1>1 DEF MapSound, Accepted
  <2> QED BY <1>1, <2>1, AcceptedStays
<1>2. CASE \E p \in Promises : Store(p)
  <2> PICK p \in Promises : Store(p)
    BY <1>2
  <2>1. p \in Accepted'
    BY DEF Store, Accepted, TypeOK
  <2> QED BY <1>1, <2>1 DEF Store, TypeOK
<1> QED BY <1>1, <1>2, MapStep DEF TypeOK

\* A promise whose ID is not condemned and that is in the map stays there.
LEMMA FoundStays ==
  ASSUME TypeOK, Next, UniqueIds, Phases, RespondersSound, QueuedCondemned,
         NEW p \in Promises, promises[MsgOf[p]] = p, ~Condemned(MsgOf[p])'
  PROVE  promises'[MsgOf[p]] = p
<1>1. MsgOf[p] \in MsgIds
  BY PromiseAssumption
<1>2. ASSUME NEW q \in Promises, Store(q) PROVE promises'[MsgOf[p]] = p
  BY <1>1, <1>2 DEF Store, TypeOK, UniqueIds
<1>3. ASSUME NEW m \in MsgIds, Condemned(m)', promises' = [promises EXCEPT ![m] = NoPromise]
      PROVE  promises'[MsgOf[p]] = p
  BY <1>1, <1>3 DEF TypeOK
<1> QED BY <1>1, <1>2, <1>3, MapStep

\* Between Store and Send a promise is in the map.
LEMMA StoredFoundStep ==
  ASSUME TypeOK, Next, UniqueIds, Phases, RespondersSound, QueuedCondemned, StoredFound
  PROVE  StoredFound'
<1> SUFFICES ASSUME NEW p \in Promises, pc'[p] = "stored"
             PROVE  promises'[MsgOf[p]] = p
  BY DEF StoredFound
<1>1. CASE Store(p)
  BY <1>1, PromiseAssumption DEF Store, TypeOK
<1>2. CASE pc[p] = "stored"
  <2>1. Phases'
    BY PhasesStep
  <2>2. ~Condemned(MsgOf[p])'
    BY <2>1 DEF Phases, Condemned, UniqueIds, Hooked
  <2> QED BY <1>2, <2>2, FoundStays DEF StoredFound
<1> QED BY <1>1, <1>2, AcceptedStays

\* A promise that is open and has not timed out stays in the map.
LEMMA WaitingStep ==
  ASSUME TypeOK, Next, UniqueIds, Phases, RespondersSound, QueuedCondemned, StoredFound, Waiting
  PROVE  Waiting'
<1> SUFFICES ASSUME NEW p \in InUse', ~completed'[p], p \notin Hooked'
             PROVE  promises'[MsgOf[p]] = p
  BY DEF Waiting
<1>1. p \in Promises /\ pc'[p] # "failed"
  BY DEF InUse
<1>2. ~Condemned(MsgOf[p])'
  BY <1>1 DEF Condemned, UniqueIds
<1>3. ~Condemned(MsgOf[p])
  BY <1>1, <1>2, CondemnedStays
<1>4. promises[MsgOf[p]] = p
  <2>1. CASE pc[p] = "stored"
    BY <1>1, <2>1 DEF StoredFound
  <2>2. CASE p \in InUse
    BY <1>1, <1>3, <2>2 DEF Waiting, Condemned
  <2> QED BY <1>1, <2>1, <2>2, AcceptedStays
<1> QED BY <1>1, <1>2, <1>4, FoundStays

\* Only condemned IDs are on their way to a removal.
LEMMA QueuedStep ==
  ASSUME TypeOK, Next, UniqueIds, Phases, RespondersSound, QueuedCondemned, MapSound
  PROVE  QueuedCondemned'
<1> USE PromiseAssumption
<1>1. ASSUME NEW m, Condemned(m) PROVE Condemned(m)'
  BY <1>1, CondemnedStays
<1>2. ASSUME UNCHANGED <<delayedRemoveCh, pending, toRemove>> PROVE QueuedCondemned'
  BY <1>1, <1>2 DEF QueuedCondemned
<1>3. ASSUME NEW m \in MsgIds, Condemned(m)', RemoveLater(m), UNCHANGED <<pending, toRemove>>
      PROVE  QueuedCondemned'
  <2>1. CASE UNCHANGED delayedRemoveCh
    BY <1>2, <1>3, <2>1
  <2>2. CASE delayedRemoveCh' = Append(delayedRemoveCh, m)
    <3>1. \A i \in 1 .. Len(delayedRemoveCh') :
            delayedRemoveCh'[i] = m \/ (i \in 1 .. Len(delayedRemoveCh) /\ delayedRemoveCh'[i] = delayedRemoveCh[i])
      BY <2>2 DEF TypeOK
    <3>2. \A i \in 1 .. Len(delayedRemoveCh') : Condemned(delayedRemoveCh[i])'
      BY <1>1, <1>3, <3>1 DEF QueuedCondemned
    <3>3. \A n \in MsgIds : pending'[n] > 0 \/ n \in toRemove' => Condemned(n)'
      BY <1>1, <1>3 DEF QueuedCondemned
    <3> QED BY <3>2, <3>3 DEF QueuedCondemned
  <2> QED BY <1>3, <2>1, <2>2 DEF RemoveLater
<1>4. ASSUME NEW r \in Responders, Post(r) PROVE QueuedCondemned'
  <2> PICK p \in Promises : p = resp[r].p
    BY <1>4 DEF Post, TypeOK
  <2>1. completed'[p]
    BY <1>4 DEF Post, RespondersSound
  <2>2. Condemned(MsgOf[p])'
    BY <2>1 DEF Condemned
  <2>3. RemoveLater(MsgOf[p]) /\ MsgOf[p] \in MsgIds
    BY <1>4 DEF Post
  <2> QED BY <1>3, <1>4, <2>2, <2>3 DEF Post
<1>5. ASSUME NEW p \in Promises, TimerRemoves(p) PROVE QueuedCondemned'
  <2>1. p \in Hooked'
    BY <1>5 DEF TimerRemoves, TypeOK, Hooked
  <2>2. Condemned(MsgOf[p])'
    BY <2>1 DEF Condemned
  <2> QED BY <1>3, <1>5, <2>2 DEF TimerRemoves
<1>6. ASSUME TakeDelayed PROVE QueuedCondemned'
  <2>1. Head(delayedRemoveCh) = delayedRemoveCh[1] /\ 1 \in 1 .. Len(delayedRemoveCh)
    BY <1>6 DEF TakeDelayed, TypeOK
  <2>2. \A i \in 1 .. Len(delayedRemoveCh') :
          i + 1 \in 1 .. Len(delayedRemoveCh) /\ delayedRemoveCh'[i] = delayedRemoveCh[i + 1]
    BY <1>6 DEF TakeDelayed, TypeOK
  <2>3. \A i \in 1 .. Len(delayedRemoveCh') : Condemned(delayedRemoveCh[i])'
    BY <1>1, <2>2 DEF QueuedCondemned
  <2>4. \A m \in MsgIds : pending'[m] > 0 \/ m \in toRemove' => Condemned(m)
    BY <1>6, <2>1 DEF TakeDelayed, TypeOK, QueuedCondemned
  <2> QED BY <1>1, <2>3, <2>4 DEF QueuedCondemned
<1>7. ASSUME NEW m \in MsgIds, RemoveDue(m) PROVE QueuedCondemned'
  <2>1. \A n \in MsgIds : pending'[n] > 0 => pending[n] > 0
    BY <1>7 DEF RemoveDue, TypeOK
  <2> QED BY <1>1, <1>7, <2>1 DEF RemoveDue, QueuedCondemned
<1>8. ASSUME NEW m \in MsgIds, CleanupVisits(m) PROVE QueuedCondemned'
  <2>1. Condemned(m)
    BY <1>8 DEF CleanupVisits, MapSound, Condemned, TypeOK
  <2> QED BY <1>1, <1>8, <2>1 DEF CleanupVisits, QueuedCondemned
<1>9. ASSUME NEW m \in MsgIds, CleanupRemoves(m) PROVE QueuedCondemned'
  BY <1>1, <1>9 DEF CleanupRemoves, QueuedCondemned
<1> QED
  BY <1>2, <1>4, <1>5, <1>6, <1>7, <1>8, <1>9
     DEF Next, CallerStep, TimerStep, ResponderStep, LoopStep, CheckCapacity, Store, CountUp,
         Send, SendFailed, Lookup, Answer, TimerFires, TimerSettles, Stop

\* A responder at work holds a promise whose caller has sent its message.
LEMMA RespondersStep ==
  ASSUME TypeOK, Next, UniqueIds, Phases, RespondersSound, MapSound
  PROVE  RespondersSound'
<1>1. ASSUME NEW q \in Promises, completed[q] PROVE completed'[q]
  BY <1>1 DEF Next, CallerStep, TimerStep, ResponderStep, LoopStep, TypeOK, CheckCapacity,
         Store, CountUp, Send, SendFailed, Remove, Lookup, Answer, Post, RemoveLater, Settle,
         TimerFires, TimerRemoves, TimerSettles, TakeDelayed, RemoveDue, CleanupVisits,
         CleanupRemoves, Stop
<1>2. ASSUME UNCHANGED resp PROVE RespondersSound'
  BY <1>1, <1>2, AcceptedStays DEF RespondersSound, TypeOK
<1>3. ASSUME NEW r \in Responders, NEW p \in Promises, NEW kind \in {"ack", "fail"},
             Lookup(r, p, kind)
      PROVE  RespondersSound'
  <2>1. promises[MsgOf[p]] = p
    BY <1>3, PromiseAssumption DEF Lookup, MapSound, UniqueIds, TypeOK
  <2>2. resp' = [resp EXCEPT ![r] = [step |-> "got", p |-> p, kind |-> kind]]
        /\ pc' = pc /\ completed' = completed /\ pc[p] \in {"sent", "failed"}
    BY <1>3, <2>1 DEF Lookup
  <2> QED BY <2>2 DEF RespondersSound, TypeOK
<1>4. ASSUME NEW r \in Responders, Answer(r) PROVE RespondersSound'
  <2>1. resp[r].p \in Promises /\ pc[resp[r].p] \in {"sent", "failed"} /\ pc' = pc
    BY <1>4 DEF Answer, RespondersSound, TypeOK
  <2>2. completed' = [completed EXCEPT ![resp[r].p] = TRUE]
    BY <1>4 DEF Answer, Settle
  <2>3. \/ resp' = [resp EXCEPT ![r] = Idle]
        \/ resp' = [resp EXCEPT ![r] = [step |-> "post", p |-> resp[r].p, kind |-> resp[r].kind]]
    BY <1>4 DEF Answer
  <2>4. completed'[resp[r].p] /\ \A q \in Promises : completed[q] => completed'[q]
    BY <2>1, <2>2 DEF TypeOK
  <2>5. \A q \in Responders \ {r} : resp'[q] = resp[q]
    BY <2>3 DEF TypeOK
  <2>6. /\ resp'[r].step # "idle" => resp'[r].p = resp[r].p
        /\ Idle.step = "idle"
    BY <2>3 DEF TypeOK, Idle
  <2>7. SUFFICES ASSUME NEW q \in Responders
                 PROVE  /\ resp'[q].step # "idle" => pc'[resp'[q].p] \in {"sent", "failed"}
                        /\ resp'[q].step = "post" => completed'[resp'[q].p]
    BY DEF RespondersSound
  <2>8. CASE q = r
    BY <2>1, <2>4, <2>6, <2>8
  <2>9. CASE q # r
    BY <2>1, <2>4, <2>5, <2>9 DEF RespondersSound, TypeOK
  <2> QED BY <2>8, <2>9
<1>5. ASSUME NEW r \in Responders, Post(r) PROVE RespondersSound'
  BY <1>5 DEF Post, RespondersSound, TypeOK, Idle
<1> QED
  BY <1>2, <1>3, <1>4, <1>5
     DEF Next, CallerStep, TimerStep, ResponderStep, LoopStep, CheckCapacity, Store, CountUp,
         Send, SendFailed, TimerFires, TimerRemoves, TimerSettles, TakeDelayed, RemoveDue,
         CleanupVisits, CleanupRemoves, Stop

\* The invariant holds of an empty manager.
LEMMA InitWInv == Init => WInv
<1> SUFFICES ASSUME Init PROVE WInv
  OBVIOUS
<1>1. TypeOK
  BY InitTypeOK
<1>2. Phases /\ MapSound /\ StoredFound /\ Waiting
  BY PromiseAssumption DEF Init, Phases, MapSound, StoredFound, Waiting, InUse
<1>3. QueuedCondemned /\ RespondersSound
  BY DEF Init, QueuedCondemned, RespondersSound, Idle
<1> QED BY <1>1, <1>2, <1>3 DEF WInv

\* Every step keeps it.
LEMMA NextWInv == WInv /\ [Next]_vars => WInv'
<1> SUFFICES ASSUME WInv, [Next]_vars PROVE WInv'
  OBVIOUS
<1>1. TypeOK'
  BY NextTypeOK DEF WInv
<1>2. CASE UNCHANGED vars
  BY <1>1, <1>2 DEF vars, WInv, Phases, MapSound, StoredFound, QueuedCondemned, RespondersSound,
     Waiting, Condemned, Hooked, Accepted, InUse, UniqueIds
<1>3. CASE Next /\ UniqueIds
  BY <1>1, <1>3, PhasesStep, MapSoundStep, StoredFoundStep, QueuedStep, RespondersStep, WaitingStep
     DEF WInv
<1>4. CASE ~UniqueIds
  BY <1>1, <1>4 DEF WInv, UniqueIds
<1> QED BY <1>2, <1>3, <1>4

\* No acknowledgement misses a caller that waits in time: until its timer
\* fires or it gives up, an unanswered promise is found under its ID.
THEOREM WaitingAlwaysFound == Spec => []WaitingIsFound
<1>1. WInv => WaitingIsFound
  BY DEF WInv, Waiting, WaitingIsFound
<1> QED BY <1>1, InitWInv, NextWInv, PTL DEF Spec

-----------------------------------------------------------------------------
(* Exactly one answer (AnsweredOnce).                                      *)

AInv == TypeOK /\ AnsweredOnce

\* Settling a promise that is open makes its first answer.
LEMMA SettleOnce ==
  ASSUME AInv, NEW p \in Promises, NEW a \in Answers, Settle(p, a)
  PROVE  AnsweredOnce'
<1> SUFFICES ASSUME NEW q \in Promises
             PROVE  Len(outcome'[q]) = IF completed'[q] THEN 1 ELSE 0
  BY DEF AnsweredOnce
<1>1. Len(outcome[q]) = IF completed[q] THEN 1 ELSE 0
  BY DEF AInv, AnsweredOnce
<1>2. completed'[q] = (completed[q] \/ q = p)
  BY DEF Settle, AInv, TypeOK
<1>3. CASE completed[p]
  BY <1>1, <1>2, <1>3 DEF Settle, AInv, TypeOK
<1>4. CASE ~completed[p] /\ q # p
  BY <1>1, <1>2, <1>4 DEF Settle, AInv, TypeOK
<1>5. CASE ~completed[p] /\ q = p
  <2>1. outcome'[q] = Append(outcome[q], a) /\ outcome[q] \in Seq(Answers)
    BY <1>5 DEF Settle, AInv, TypeOK
  <2>2. Len(outcome'[q]) = Len(outcome[q]) + 1
    BY <2>1
  <2>3. Len(outcome[q]) = 0
    BY <1>1, <1>5
  <2>4. completed'[q]
    BY <1>2, <1>5
  <2>5. Len(outcome'[q]) = 1
    BY <2>2, <2>3
  <2> QED BY <2>4, <2>5
<1> QED BY <1>3, <1>4, <1>5

\* No step makes a second one.
LEMMA NextAnsweredOnce == AInv /\ [Next]_vars => AInv'
<1> SUFFICES ASSUME AInv, [Next]_vars PROVE AnsweredOnce'
  BY NextTypeOK DEF AInv
<1>1. ASSUME NEW r \in Responders, Answer(r) PROVE AnsweredOnce'
  <2>1. resp[r].p \in Promises /\ resp[r].kind \in Answers
    BY <1>1 DEF Answer, AInv, TypeOK, Answers
  <2> QED BY <1>1, <2>1, SettleOnce DEF Answer
<1>2. ASSUME NEW p \in Promises, TimerSettles(p) PROVE AnsweredOnce'
  BY <1>2, SettleOnce DEF TimerSettles, Answers
<1>3. ASSUME UNCHANGED <<completed, outcome>> PROVE AnsweredOnce'
  BY <1>3 DEF AInv, AnsweredOnce
<1> QED
  BY <1>1, <1>2, <1>3
     DEF Next, CallerStep, TimerStep, ResponderStep, LoopStep, CheckCapacity, Store, CountUp,
         Send, SendFailed, Lookup, Post, TimerFires, TimerRemoves, TakeDelayed, RemoveDue,
         CleanupVisits, CleanupRemoves, Stop, vars

\* Complete, Fail and Timeout never both send a response: a waiter gets one,
\* exactly when the promise is completed.
THEOREM OneAnswer == Spec => []AnsweredOnce
<1>1. Init => AInv
  BY InitTypeOK DEF AInv, AnsweredOnce, Init
<1>2. AInv => AnsweredOnce
  BY DEF AInv
<1> QED BY <1>1, <1>2, NextAnsweredOnce, PTL DEF Spec

-----------------------------------------------------------------------------
(* The counter and the capacity (CountTracksMap, OvershootBounded).        *)

\* The callers inside Create are finitely many, and each is counted once.
LEMMA PhaseSetsFinite ==
  /\ IsFiniteSet(Checked) /\ IsFiniteSet(Uncounted) /\ IsFiniteSet(Creating)
  /\ Cardinality(Checked) \in Nat /\ Cardinality(Uncounted) \in Nat
  /\ Cardinality(Creating) = Cardinality(Checked) + Cardinality(Uncounted)
<1>1. IsFiniteSet(Checked) /\ IsFiniteSet(Uncounted)
  BY PromiseAssumption, FS_Subset DEF Checked, Uncounted
<1>2. Creating = Checked \cup Uncounted /\ Checked \cap Uncounted = {}
  BY DEF Creating, Checked, Uncounted
<1>3. Cardinality(Checked) \in Nat /\ Cardinality(Uncounted) \in Nat
  BY <1>1, FS_CardinalityType
<1>4. IsFiniteSet(Creating)
      /\ Cardinality(Creating) = Cardinality(Checked) + Cardinality(Uncounted) - Cardinality({})
  BY <1>1, <1>2, FS_Union
<1> QED BY <1>1, <1>3, <1>4, FS_EmptySet

\* Remove takes the counter down exactly when it takes an ID out.
LEMMA RemoveCounts ==
  ASSUME TypeOK, IsFiniteSet(Stored), NEW m \in MsgIds, Remove(m)
  PROVE  /\ IsFiniteSet(Stored')
         /\ count' - count = Cardinality(Stored') - Cardinality(Stored)
         /\ Cardinality(Stored') <= Cardinality(Stored)
         /\ Cardinality(Stored') \in Nat
<1>1. Stored' = Stored \ {m}
  BY DEF Remove, Stored, TypeOK
<1>2. m \in Stored <=> promises[m] # NoPromise
  BY DEF Stored
<1>3. Cardinality(Stored) \in Nat
  BY FS_CardinalityType
<1>4. /\ IsFiniteSet(Stored')
      /\ Cardinality(Stored') = IF m \in Stored THEN Cardinality(Stored) - 1 ELSE Cardinality(Stored)
  BY <1>1, FS_RemoveElement
<1>5. Cardinality(Stored') \in Nat
  BY <1>4, FS_CardinalityType
<1> QED BY <1>2, <1>3, <1>4, <1>5 DEF Remove, TypeOK

\* A removal lowers the counter by what it takes out of the map.
LEMMA RemoveLaterCounts ==
  ASSUME TypeOK, IsFiniteSet(Stored), NEW m \in MsgIds, RemoveLater(m)
  PROVE  /\ IsFiniteSet(Stored')
         /\ count' - count = Cardinality(Stored') - Cardinality(Stored)
         /\ Cardinality(Stored') <= Cardinality(Stored)
         /\ Cardinality(Stored') \in Nat
<1>1. CASE Remove(m)
  BY <1>1, RemoveCounts
<1>2. CASE UNCHANGED <<promises, count>>
  <2>1. Stored' = Stored /\ count' - count = 0
    BY <1>2 DEF Stored, TypeOK
  <2> QED BY <2>1, FS_CardinalityType
<1> QED BY <1>1, <1>2 DEF RemoveLater

\* Every step changes the counter by what it changes in the map.
LEMMA NextCounted ==
  ASSUME WInv, UniqueIds, Counted, Next
  PROVE  Counted'
<1> USE PromiseAssumption, PhaseSetsFinite
<1>0. TypeOK /\ TypeOK' /\ Cardinality(Stored) \in Nat
  BY NextTypeOK, FS_CardinalityType DEF WInv, Counted
<1>s. /\ Cardinality(Checked') \in Nat /\ Cardinality(Uncounted') \in Nat
      /\ Cardinality(Creating') = Cardinality(Checked') + Cardinality(Uncounted')
  <2>1. IsFiniteSet(Checked') /\ IsFiniteSet(Uncounted')
    BY FS_Subset DEF Checked, Uncounted
  <2>2. Creating' = Checked' \cup Uncounted' /\ Checked' \cap Uncounted' = {}
    BY DEF Creating, Checked, Uncounted
  <2>3. Cardinality(Creating')
          = Cardinality(Checked') + Cardinality(Uncounted') - Cardinality({})
    BY <2>1, <2>2, FS_Union
  <2> QED BY <2>1, <2>3, FS_CardinalityType, FS_EmptySet
<1>1. ASSUME NEW p \in Promises, CheckCapacity(p) PROVE Counted'
  <2>1. Stored' = Stored /\ count' = count /\ Uncounted' = Uncounted
    BY <1>0, <1>1 DEF CheckCapacity, Stored, Uncounted, TypeOK
  <2>2. CASE count >= MaxCapacity
    <3>1. Checked' = Checked /\ Creating' = Creating
      BY <1>0, <1>1, <2>2 DEF CheckCapacity, Checked, Creating, TypeOK
    <3> QED BY <2>1, <3>1 DEF Counted
  <2>3. CASE ~(count >= MaxCapacity)
    <3>1. Checked' = Checked \cup {p} /\ p \notin Checked
      BY <1>0, <1>1, <2>3 DEF CheckCapacity, Checked, TypeOK
    <3>2. Cardinality(Checked') = Cardinality(Checked) + 1
      BY <3>1, FS_AddElement
    <3>3. Cardinality(Creating) < MaxCallers
      BY <1>1 DEF CheckCapacity
    <3>4. count < MaxCapacity
      BY <1>0, <2>3 DEF TypeOK
    <3>5. IsFiniteSet(Stored')
      BY <2>1 DEF Counted
    <3> QED BY <1>0, <1>s, <2>1, <3>2, <3>3, <3>4, <3>5 DEF Counted
  <2> QED BY <2>2, <2>3
<1>2. ASSUME NEW p \in Promises, Store(p) PROVE Counted'
  <2>1. promises[MsgOf[p]] = NoPromise
    BY <1>0, <1>2 DEF Store, WInv, MapSound, UniqueIds, Accepted
  <2>2. Stored' = Stored \cup {MsgOf[p]} /\ MsgOf[p] \notin Stored
    BY <1>0, <1>2, <2>1 DEF Store, Stored, TypeOK
  <2>3. Checked' = Checked \ {p} /\ p \in Checked
    BY <1>0, <1>2 DEF Store, Checked, TypeOK
  <2>4. Uncounted' = Uncounted \cup {p} /\ p \notin Uncounted
    BY <1>0, <1>2 DEF Store, Uncounted, TypeOK
  <2>5. IsFiniteSet(Stored') /\ Cardinality(Stored') = Cardinality(Stored) + 1
    BY <2>2, FS_AddElement DEF Counted
  <2>6. Cardinality(Checked') = Cardinality(Checked) - 1
    BY <2>3, FS_RemoveElement
  <2>7. Cardinality(Uncounted') = Cardinality(Uncounted) + 1
    BY <2>4, FS_AddElement
  <2>8. count' = count
    BY <1>2 DEF Store
  <2> QED BY <1>0, <1>s, <2>5, <2>6, <2>7, <2>8 DEF Counted
<1>3. ASSUME NEW p \in Promises, CountUp(p) PROVE Counted'
  <2>1. Uncounted' = Uncounted \ {p} /\ p \in Uncounted
    BY <1>0, <1>3 DEF CountUp, Uncounted, TypeOK
  <2>2. Cardinality(Uncounted') = Cardinality(Uncounted) - 1
    BY <2>1, FS_RemoveElement
  <2>3. Stored' = Stored /\ Checked' = Checked /\ count' = count + 1
    BY <1>0, <1>3 DEF CountUp, Stored, Checked, TypeOK
  <2> QED BY <1>0, <1>s, <2>2, <2>3 DEF Counted
<1>4. ASSUME Checked' = Checked, Uncounted' = Uncounted, IsFiniteSet(Stored'),
             count' - count = Cardinality(Stored') - Cardinality(Stored),
             Cardinality(Stored') <= Cardinality(Stored), Cardinality(Stored') \in Nat
      PROVE  Counted'
  <2>1. count \in Int /\ count' \in Int /\ MaxCapacity \in Int /\ MaxCallers \in Int
    BY <1>0 DEF TypeOK
  <2>2. count' = Cardinality(Stored') - Cardinality(Uncounted')
    BY <1>0, <1>s, <1>4, <2>1 DEF Counted
  <2>3. Cardinality(Creating') <= MaxCallers
    BY <1>0, <1>s, <1>4 DEF Counted
  <2>4. Cardinality(Stored') + Cardinality(Checked') <= MaxCapacity + MaxCallers - 1
    BY <1>0, <1>s, <1>4, <2>1 DEF Counted
  <2> QED BY <1>4, <2>2, <2>3, <2>4 DEF Counted
<1>5. ASSUME NEW p \in Promises, SendFailed(p) PROVE Counted'
  <2>1. Checked' = Checked /\ Uncounted' = Uncounted /\ Remove(MsgOf[p])
    BY <1>0, <1>5 DEF SendFailed, Checked, Uncounted, TypeOK
  <2> QED BY <1>0, <1>4, <2>1, RemoveCounts DEF Counted
<1>6. ASSUME UNCHANGED pc PROVE Checked' = Checked /\ Uncounted' = Uncounted
  BY <1>6 DEF Checked, Uncounted
<1>7. ASSUME NEW m \in MsgIds, Remove(m) \/ RemoveLater(m), UNCHANGED pc PROVE Counted'
  BY <1>0, <1>4, <1>6, <1>7, RemoveCounts, RemoveLaterCounts DEF Counted
<1>8. ASSUME NEW r \in Responders, Post(r) PROVE Counted'
  <2>1. MsgOf[resp[r].p] \in MsgIds
    BY <1>0, <1>8 DEF Post, TypeOK
  <2> QED BY <1>7, <1>8, <2>1 DEF Post
<1>9. ASSUME NEW p \in Promises, TimerRemoves(p) PROVE Counted'
  BY <1>7, <1>9 DEF TimerRemoves
<1>10. ASSUME NEW m \in MsgIds, RemoveDue(m) \/ CleanupRemoves(m) PROVE Counted'
  BY <1>7, <1>10 DEF RemoveDue, CleanupRemoves
<1>11. ASSUME NEW p \in Promises, Send(p) PROVE Counted'
  <2>1. Checked' = Checked /\ Uncounted' = Uncounted /\ Stored' = Stored /\ count' = count
    BY <1>0, <1>11 DEF Send, Checked, Uncounted, Stored, TypeOK
  <2> QED BY <1>0, <1>s, <2>1 DEF Counted
<1>12. ASSUME UNCHANGED <<promises, count, pc>> PROVE Counted'
  BY <1>12 DEF Counted, Checked, Uncounted, Creating, Stored
<1> QED
  BY <1>1, <1>2, <1>3, <1>5, <1>8, <1>9, <1>10, <1>11, <1>12
     DEF Next, CallerStep, TimerStep, ResponderStep, LoopStep, Lookup, Answer, TimerFires,
         TimerSettles, TakeDelayed, CleanupVisits, Stop

\* The counter of an empty manager is its size.
LEMMA InitCInv == Init => CInv
<1> SUFFICES ASSUME Init PROVE Counted
  BY InitWInv DEF CInv
<1>1. Stored = {} /\ Checked = {} /\ Uncounted = {} /\ Creating = {} /\ count = 0
  BY DEF Init, Stored, Checked, Uncounted, Creating
<1> QED BY <1>1, FS_EmptySet, PromiseAssumption DEF Counted

\* Every step keeps counter and size together.
LEMMA NextCInv == CInv /\ [Next]_vars => CInv'
<1> SUFFICES ASSUME CInv, [Next]_vars PROVE CInv'
  OBVIOUS
<1>1. WInv'
  BY NextWInv DEF CInv
<1>2. CASE Next /\ UniqueIds
  BY <1>1, <1>2, NextCounted DEF CInv
<1>3. CASE UNCHANGED vars
  <2>1. Counted' <=> Counted
    BY <1>3 DEF vars, Counted, Stored, Checked, Uncounted, Creating
  <2> QED BY <1>1, <2>1 DEF CInv, UniqueIds
<1>4. CASE ~UniqueIds
  BY <1>1, <1>4 DEF CInv, UniqueIds
<1> QED BY <1>2, <1>3, <1>4

\* The counter Create trusts is the size of the map, less the promises whose
\* Create has stored them and not counted them yet.
THEOREM CounterExact == Spec => []CountTracksMap
<1>1. CInv => CountTracksMap
  BY DEF CInv, Counted, CountTracksMap, Uncounted
<1> QED BY <1>1, InitCInv, NextCInv, PTL DEF Spec

\* The map passes MaxCapacity by less than the number of callers that are
\* inside Create at the same time.
THEOREM OvershootAtMost == Spec => []OvershootBounded
<1>1. ASSUME CInv PROVE OvershootBounded
  <2> SUFFICES ASSUME UniqueIds
               PROVE  Cardinality(Stored) <= MaxCapacity + MaxCallers - 1
    BY DEF OvershootBounded
  <2> QED BY <1>1, PhaseSetsFinite, FS_CardinalityType, PromiseAssumption DEF CInv, Counted
<1> QED BY <1>1, InitCInv, NextCInv, PTL DEF Spec

-----------------------------------------------------------------------------
(* The promises implement the contract ReplyOnce, step by step.            *)

\* What the map, a responder, a timer or an answer is about has been accepted.
\* IDs need not be unique for this.
AcceptedFirst ==
  /\ \A m \in MsgIds : promises[m] # NoPromise => promises[m] \in Accepted
  /\ \A r \in Responders : resp[r].step # "idle" => resp[r].p \in Accepted
  /\ \A p \in Promises : timer[p] # "off" \/ completed[p] => p \in Accepted

BInv == AInv /\ AcceptedFirst

\* No step settles a promise before its caller has stored it.
LEMMA AcceptedFirstStep == TypeOK /\ AcceptedFirst /\ [Next]_vars => AcceptedFirst'
<1> SUFFICES ASSUME TypeOK, AcceptedFirst, [Next]_vars PROVE AcceptedFirst'
  OBVIOUS
<1>0. CASE UNCHANGED vars
  BY <1>0 DEF vars, AcceptedFirst, Accepted
<1>1. ASSUME Next, NEW m \in MsgIds, promises'[m] # NoPromise PROVE promises'[m] \in Accepted'
  <2>1. CASE promises'[m] = promises[m]
    <3>1. promises[m] \in Accepted /\ promises[m] \in Promises
      BY <1>1, <2>1 DEF AcceptedFirst, Accepted
    <3> QED BY <1>1, <2>1, <3>1, AcceptedStays
  <2>2. ASSUME NEW p \in Promises, Store(p) PROVE promises'[m] = promises[m] \/ promises'[m] \in Accepted'
    BY <2>2 DEF Store, TypeOK, Accepted
  <2>3. promises'[m] = promises[m] \/ promises'[m] = NoPromise \/ \E p \in Promises : Store(p)
    BY <1>1, PromiseAssumption
       DEF Next, CallerStep, TimerStep, ResponderStep, LoopStep, TypeOK, CheckCapacity,
         CountUp, Send, SendFailed, Remove, Lookup, Answer, Post, RemoveLater,
         TimerFires, TimerRemoves, TimerSettles, TakeDelayed, RemoveDue, CleanupVisits,
         CleanupRemoves, Stop
  <2> QED BY <1>1, <2>1, <2>2, <2>3
<1>2. ASSUME Next, NEW r \in Responders, resp'[r].step # "idle" PROVE resp'[r].p \in Accepted'
  <2>1. \/ resp[r].step # "idle" /\ resp'[r].p = resp[r].p
        \/ \E m \in MsgIds : promises[m] # NoPromise /\ resp'[r].p = promises[m]
    <3>1. ASSUME NEW q \in Responders, NEW p \in Promises, NEW kind \in {"ack", "fail"},
                 Lookup(q, p, kind)
          PROVE  \/ resp'[r] = resp[r]
                 \/ \E m \in MsgIds : promises[m] # NoPromise /\ resp'[r].p = promises[m]
      BY <3>1, PromiseAssumption DEF Lookup, TypeOK
    <3>2. ASSUME NEW q \in Responders, Answer(q)
          PROVE  resp'[r] = resp[r] \/ (resp[r].step # "idle" /\ resp'[r].p = resp[r].p)
      BY <1>2, <3>2 DEF Answer, TypeOK, Idle
    <3>3. ASSUME NEW q \in Responders, Post(q) PROVE resp'[r] = resp[r]
      BY <1>2, <3>3 DEF Post, TypeOK, Idle
    <3>4. CASE UNCHANGED resp
      BY <1>2, <3>4
    <3> QED BY <1>2, <3>1, <3>2, <3>3, <3>4
       DEF Next, CallerStep, TimerStep, ResponderStep, LoopStep, CheckCapacity, Store,
         CountUp, Send, SendFailed, TimerFires, TimerRemoves, TimerSettles, TakeDelayed,
         RemoveDue, CleanupVisits, CleanupRemoves, Stop
  <2>2. resp'[r].p \in Accepted /\ resp'[r].p \in Promises
    BY <2>1 DEF AcceptedFirst, Accepted
  <2> QED BY <1>2, <2>2, AcceptedStays
<1>3. ASSUME Next, NEW p \in Promises, timer'[p] # "off" \/ completed'[p] PROVE p \in Accepted'
  <2>1. \/ timer[p] # "off" \/ completed[p]
        \/ Store(p)
        \/ \E r \in Responders : resp[r].step # "idle" /\ resp[r].p = p
    BY <1>3
       DEF Next, CallerStep, TimerStep, ResponderStep, LoopStep, TypeOK, CheckCapacity, Store,
         CountUp, Send, SendFailed, Remove, Lookup, Answer, Post, RemoveLater, Settle,
         TimerFires, TimerRemoves, TimerSettles, TakeDelayed, RemoveDue, CleanupVisits,
         CleanupRemoves, Stop
  <2>2. Store(p) => p \in Accepted'
    BY DEF Store, TypeOK, Accepted
  <2>3. p \in Accepted \/ Store(p)
    BY <2>1 DEF AcceptedFirst
  <2> QED BY <1>3, <2>2, <2>3, AcceptedStays
<1> QED BY <1>0, <1>1, <1>2, <1>3 DEF AcceptedFirst

\* What the step simulation needs is an inductive invariant.
LEMMA BInvInductive ==
  /\ Init => BInv
  /\ BInv /\ [Next]_vars => BInv'
<1>1. Init => AcceptedFirst
  BY DEF Init, AcceptedFirst, Idle
<1>2. Init => AInv
  BY InitTypeOK DEF AInv, AnsweredOnce, Init
<1>3. BInv /\ [Next]_vars => BInv'
  BY NextAnsweredOnce, AcceptedFirstStep DEF BInv, AInv
<1> QED BY <1>1, <1>2, <1>3 DEF BInv

\* Nothing has been sent to a waiter whose promise is not completed.
LEMMA WaitingOutcome ==
  ASSUME BInv, NEW p \in Promises
  PROVE  ~completed[p] <=> outcome[p] = <<>>
<1>1. outcome[p] \in Seq(Answers) /\ completed[p] \in BOOLEAN
  BY DEF BInv, AInv, TypeOK
<1>2. Len(outcome[p]) = IF completed[p] THEN 1 ELSE 0
  BY DEF BInv, AInv, AnsweredOnce
<1>3. outcome[p] = <<>> <=> Len(outcome[p]) = 0
  BY <1>1
<1> QED BY <1>1, <1>2, <1>3

\* The reply changes at one promise.
LEMMA ReplyAt ==
  ASSUME NEW p \in Promises, \A q \in Promises : q # p => ReplyOf(q)' = ReplyOf(q)
  PROVE  Replies' = [Replies EXCEPT ![p] = ReplyOf(p)']
BY DEF Replies

\* The mapping stays if what each caller has seen stays.
LEMMA ReplyKept ==
  ASSUME \A q \in Promises : ReplyOf(q)' = ReplyOf(q)
  PROVE  Replies' = Replies
BY DEF Replies

\* An answer is the contract's Reply.
LEMMA SettleReplies ==
  ASSUME BInv, NEW p \in Promises, NEW answer \in Answers, Settle(p, answer), UNCHANGED pc,
         p \in Accepted
  PROVE  [Contract!Next]_Replies
<1>1. \A q \in Promises : q # p => ReplyOf(q)' = ReplyOf(q)
  BY DEF Settle, ReplyOf, BInv, AInv, TypeOK
<1>2. CASE completed[p]
  <2>1. outcome' = outcome
    BY <1>2 DEF Settle
  <2>2. \A q \in Promises : ReplyOf(q)' = ReplyOf(q)
    BY <2>1 DEF ReplyOf
  <2> QED BY <2>2, ReplyKept
<1>3. CASE ~completed[p]
  <2>1. outcome[p] = <<>> /\ outcome'[p] = <<answer>>
    <3>1. outcome[p] = <<>>
      BY <1>3, WaitingOutcome
    <3>2. outcome'[p] = Append(outcome[p], answer)
      BY <1>3 DEF Settle, BInv, AInv, TypeOK
    <3> QED BY <3>1, <3>2
  <2>2. pc[p] \in {"stored", "created", "sent", "failed"}
    BY DEF Accepted
  <2>3. ReplyOf(p) = "waiting"
    BY <2>1, <2>2 DEF ReplyOf
  <2>4. ReplyOf(p)' = answer
    BY <2>1, <2>2 DEF ReplyOf
  <2>5. Contract!Reply(p)
    BY <1>1, <2>3, <2>4, ReplyAt
       DEF Contract!Reply, Contract!Answered, Answers, Replies
  <2> QED BY <2>5 DEF Contract!Next
<1> QED BY <1>2, <1>3

\* Every step is one of the contract, or leaves what the callers have seen.
LEMMA StepImplements ==
  ASSUME BInv, [Next]_vars
  PROVE  [Contract!Next]_Replies
<1> USE DEF Accepted
<1>1. ASSUME NEW p \in Promises, CheckCapacity(p)
      PROVE  [Contract!Next]_Replies
  <2>1. pc[p] = "new" /\ pc' = [pc EXCEPT ![p] = pc'[p]] /\ pc'[p] \in {"rejected", "checked"}
        /\ outcome' = outcome
    BY <1>1 DEF CheckCapacity, BInv, AInv, TypeOK
  <2>2. \A q \in Promises : q # p => ReplyOf(q)' = ReplyOf(q)
    BY <2>1 DEF ReplyOf, BInv, AInv, TypeOK
  <2>3. ReplyOf(p) = "none" /\ ReplyOf(p)' \in {"none", "refused"}
    BY <2>1 DEF ReplyOf
  <2>4. CASE ReplyOf(p)' = "none"
    BY <2>2, <2>3, <2>4, ReplyKept
  <2>5. CASE ReplyOf(p)' = "refused"
    <3>1. Contract!Refuse(p)
      BY <2>2, <2>3, <2>5, ReplyAt DEF Contract!Refuse, Replies
    <3> QED BY <3>1 DEF Contract!Next
  <2> QED BY <2>3, <2>4, <2>5
<1>2. ASSUME NEW p \in Promises, Store(p)
      PROVE  [Contract!Next]_Replies
  <2>1. pc[p] = "checked" /\ pc' = [pc EXCEPT ![p] = "stored"] /\ outcome' = outcome
    BY <1>2 DEF Store
  <2>2. \A q \in Promises : q # p => ReplyOf(q)' = ReplyOf(q)
    BY <2>1 DEF ReplyOf, BInv, AInv, TypeOK
  <2>3. outcome[p] = <<>>
    BY <2>1, WaitingOutcome DEF BInv, AcceptedFirst
  <2>4. ReplyOf(p) = "none" /\ ReplyOf(p)' = "waiting"
    BY <2>1, <2>3 DEF ReplyOf, BInv, AInv, TypeOK
  <2>5. Contract!Accept(p)
    BY <2>2, <2>4, ReplyAt DEF Contract!Accept, Replies
  <2> QED BY <2>5 DEF Contract!Next
<1>3. ASSUME NEW p \in Promises, CountUp(p) \/ Send(p) \/ SendFailed(p)
      PROVE  [Contract!Next]_Replies
  <2>1. /\ pc[p] \in {"stored", "created", "sent"} /\ outcome' = outcome
        /\ \E s \in {"created", "sent", "failed"} : pc' = [pc EXCEPT ![p] = s]
    BY <1>3 DEF CountUp, Send, SendFailed
  <2>2. \A q \in Promises : ReplyOf(q)' = ReplyOf(q)
    BY <2>1 DEF ReplyOf, BInv, AInv, TypeOK
  <2> QED BY <2>2, ReplyKept
<1>4. ASSUME NEW r \in Responders, Answer(r)
      PROVE  [Contract!Next]_Replies
  <2>1. resp[r].p \in Promises /\ resp[r].kind \in Answers /\ resp[r].p \in Accepted
    BY <1>4 DEF Answer, BInv, AInv, AcceptedFirst, TypeOK, Answers
  <2>2. Settle(resp[r].p, resp[r].kind) /\ UNCHANGED pc
    BY <1>4 DEF Answer
  <2> QED BY <2>1, <2>2, SettleReplies
<1>5. ASSUME NEW p \in Promises, TimerSettles(p)
      PROVE  [Contract!Next]_Replies
  <2>1. p \in Accepted
    BY <1>5 DEF TimerSettles, BInv, AcceptedFirst
  <2> QED BY <1>5, <2>1, SettleReplies DEF TimerSettles, Answers
<1>6. ASSUME UNCHANGED <<pc, outcome>>
      PROVE  [Contract!Next]_Replies
  <2>1. \A q \in Promises : ReplyOf(q)' = ReplyOf(q)
    BY <1>6 DEF ReplyOf
  <2> QED BY <2>1, ReplyKept
<1> QED
  BY <1>1, <1>2, <1>3, <1>4, <1>5, <1>6
     DEF Next, CallerStep, TimerStep, ResponderStep, LoopStep, Lookup, Post, TimerFires,
         TimerRemoves, TakeDelayed, RemoveDue, CleanupVisits, CleanupRemoves, Stop, vars

\* What the callers of the manager see is what ReplyOnce allows: refused, or
\* accepted and then answered once, for any IDs, unique or not.  That every
\* waiter is answered needs fairness and is checked by the run.
THEOREM AnswersOnceOnly == Spec => Contract!Safety
<1>1. Init => Contract!Init
  <2> SUFFICES ASSUME Init PROVE Contract!Init
    OBVIOUS
  <2>1. \A q \in Promises : ReplyOf(q) = "none"
    BY DEF Init, ReplyOf
  <2> QED BY <2>1 DEF Contract!Init, Replies
<1>2. Init => BInv
  BY BInvInductive
<1>3. BInv /\ [Next]_vars => BInv'
  BY BInvInductive
<1>4. BInv /\ [Next]_vars => [Contract!Next]_Replies
  BY StepImplements
<1> QED BY <1>1, <1>2, <1>3, <1>4, PTL DEF Spec, Contract!Safety

-----------------------------------------------------------------------------
(* Dispatcher.                                                             *)

\* The queue DispatchByHash gives a message.
Home(t) == HashOf[t] % QueueCount

\* A caller is at one of its messages.
AtMessage == \A b \in Callers : caller[b].i \in 1 .. Len(Msgs[b])

\* What a caller has still to hand over no queue has taken.
Fresh ==
  \A b \in Callers : caller[b].pc \in {"ready", "sending"} =>
    \A j \in caller[b].i .. Len(Msgs[b]) : Msgs[b][j] \notin Elements(accepted)

\* No message is in two places.
QueuedOnce ==
  \A q, r \in Queues : \A i \in 1 .. Len(queues[q]), j \in 1 .. Len(queues[r]) :
    queues[q][i] = queues[r][j] => q = r /\ i = j
WorkedOnce == \A v, w \in Workers : worker[v] = worker[w] /\ worker[v] # Free => v = w
Apart ==
  /\ QueuedOnce /\ WorkedOnce
  /\ Queued \cap InWork = {} /\ Queued \cap Finished = {} /\ InWork \cap Finished = {}

\* A hashed message goes to its home queue and to a worker of that queue.
Homed ==
  \A t \in Hashed :
    /\ \A b \in Callers : caller[b].pc = "sending" /\ Current(b) = t => caller[b].q = Home(t)
    /\ \A q \in Queues : t \in Elements(queues[q]) => q = Home(t)
    /\ \A w \in Workers : worker[w] = t => w[1] = Home(t)

\* Two hashed messages of one queue with one worker: finished first, then the
\* worker's, then the queue, all in the order of acceptance.
InOrder ==
  \A t, u \in Hashed : Home(t) = Home(u) /\ WorkersOf(Home(t)) = 1 =>
    /\ Before(queues[Home(t)], t, u) => Before(accepted, t, u)
    /\ t \in InWork /\ u \in Elements(queues[Home(t)]) => Before(accepted, t, u)
    /\ t \in Finished /\ u \in InWork => Before(accepted, t, u)
    /\ t \in Finished /\ u \in Elements(queues[Home(t)]) => Before(accepted, t, u)
    /\ Before(finished, t, u) => Before(accepted, t, u)

Placed ==
  /\ IsFiniteSet(Elements(accepted))
  /\ Elements(accepted) = Queued \cup InWork \cup Finished
Tallied == Len(accepted) = Cardinality(Queued) + Cardinality(InWork) + Len(finished)

DInv == DispatcherTypeOK /\ AtMessage /\ Fresh /\ Apart /\ Homed /\ InOrder /\ Placed /\ Tallied

-----------------------------------------------------------------------------
(* Sequences and the order in them.                                        *)

\* What Append adds,
LEMMA ElementsAppend ==
  ASSUME NEW S, NEW s \in Seq(S), NEW x \in S
  PROVE  Elements(Append(s, x)) = Elements(s) \cup {x}
<1>1. /\ Append(s, x) \in Seq(S) /\ Len(Append(s, x)) = Len(s) + 1
      /\ \A i \in 1 .. Len(s) : Append(s, x)[i] = s[i]
      /\ Append(s, x)[Len(s) + 1] = x /\ Len(s) \in Nat
  OBVIOUS
<1>2. 1 .. Len(s) + 1 = (1 .. Len(s)) \cup {Len(s) + 1}
  BY <1>1
<1>3. ASSUME NEW y \in Elements(Append(s, x)) PROVE y \in Elements(s) \cup {x}
  <2>1. PICK i \in 1 .. Len(s) + 1 : Append(s, x)[i] = y
    BY <1>1 DEF Elements
  <2> QED BY <1>1, <1>2, <2>1 DEF Elements
<1>4. ASSUME NEW y \in Elements(s) PROVE y \in Elements(Append(s, x))
  <2>1. PICK i \in 1 .. Len(s) : s[i] = y
    BY DEF Elements
  <2> QED BY <1>1, <1>2, <2>1 DEF Elements
<1>5. x \in Elements(Append(s, x))
  BY <1>1, <1>2 DEF Elements
<1> QED BY <1>3, <1>4, <1>5

\* and after what.
LEMMA BeforeAppend ==
  ASSUME NEW S, NEW s \in Seq(S), NEW x \in S, NEW t, NEW u
  PROVE  Before(Append(s, x), t, u) <=> Before(s, t, u) \/ (t \in Elements(s) /\ u = x)
<1>1. /\ Append(s, x) \in Seq(S) /\ Len(Append(s, x)) = Len(s) + 1
      /\ \A i \in 1 .. Len(s) : Append(s, x)[i] = s[i]
      /\ Append(s, x)[Len(s) + 1] = x /\ Len(s) \in Nat
  OBVIOUS
<1>2. 1 .. Len(s) + 1 = (1 .. Len(s)) \cup {Len(s) + 1}
  BY <1>1
<1>3. ASSUME Before(Append(s, x), t, u)
      PROVE  Before(s, t, u) \/ (t \in Elements(s) /\ u = x)
  <2>1. PICK i, j \in 1 .. Len(s) + 1 : i < j /\ Append(s, x)[i] = t /\ Append(s, x)[j] = u
    BY <1>1, <1>3 DEF Before
  <2>2. i \in 1 .. Len(s)
    BY <1>1, <2>1
  <2>3. t = s[i] /\ t \in Elements(s)
    BY <1>1, <2>1, <2>2 DEF Elements
  <2>4. CASE j \in 1 .. Len(s)
    BY <1>1, <2>1, <2>2, <2>4 DEF Before
  <2>5. CASE j = Len(s) + 1
    BY <1>1, <2>1, <2>3, <2>5
  <2> QED BY <1>2, <2>1, <2>4, <2>5
<1>4. ASSUME Before(s, t, u) PROVE Before(Append(s, x), t, u)
  <2>1. PICK i, j \in 1 .. Len(s) : i < j /\ s[i] = t /\ s[j] = u
    BY <1>4 DEF Before
  <2> QED BY <1>1, <1>2, <2>1 DEF Before
<1>5. ASSUME t \in Elements(s), u = x PROVE Before(Append(s, x), t, u)
  <2>1. PICK i \in 1 .. Len(s) : s[i] = t
    BY <1>5 DEF Elements
  <2>2. i < Len(s) + 1 /\ i \in 1 .. Len(s) + 1 /\ Len(s) + 1 \in 1 .. Len(s) + 1
    BY <1>1
  <2> QED BY <1>1, <1>5, <2>1, <2>2 DEF Before
<1> QED BY <1>3, <1>4, <1>5

\* What Tail leaves, and that the head was before it.
LEMMA ElementsTail ==
  ASSUME NEW S, NEW s \in Seq(S), s # <<>>
  PROVE  /\ Elements(s) = {Head(s)} \cup Elements(Tail(s))
         /\ \A t, u : Before(Tail(s), t, u) => Before(s, t, u)
         /\ \A u \in Elements(Tail(s)) : Before(s, Head(s), u)
<1>1. /\ Tail(s) \in Seq(S) /\ Len(Tail(s)) = Len(s) - 1 /\ Len(s) \in Nat \ {0}
      /\ \A i \in 1 .. Len(s) - 1 : Tail(s)[i] = s[i + 1]
      /\ Head(s) = s[1]
  OBVIOUS
<1>2. ASSUME NEW i \in 1 .. Len(s) - 1 PROVE i + 1 \in 1 .. Len(s) /\ 1 < i + 1 /\ 1 \in 1 .. Len(s)
  BY <1>1
<1>3. ASSUME NEW x \in Elements(s) PROVE x = Head(s) \/ x \in Elements(Tail(s))
  <2>1. PICK i \in 1 .. Len(s) : s[i] = x
    BY DEF Elements
  <2>2. CASE i = 1
    BY <1>1, <2>1, <2>2
  <2>3. CASE i # 1
    <3>1. i - 1 \in 1 .. Len(s) - 1 /\ (i - 1) + 1 = i
      BY <1>1, <2>1, <2>3
    <3> QED BY <1>1, <2>1, <3>1 DEF Elements
  <2> QED BY <2>2, <2>3
<1>4. Head(s) \in Elements(s)
  BY <1>1 DEF Elements
<1>5. ASSUME NEW u \in Elements(Tail(s)) PROVE u \in Elements(s) /\ Before(s, Head(s), u)
  <2>1. PICK i \in 1 .. Len(s) - 1 : s[i + 1] = u
    BY <1>1 DEF Elements
  <2> QED BY <1>1, <1>2, <2>1 DEF Elements, Before
<1>6. ASSUME NEW t, NEW u, Before(Tail(s), t, u) PROVE Before(s, t, u)
  <2>1. PICK i, j \in 1 .. Len(s) - 1 : i < j /\ s[i + 1] = t /\ s[j + 1] = u
    BY <1>1, <1>6 DEF Before
  <2>2. i + 1 < j + 1
    BY <2>1
  <2> QED BY <1>2, <2>1, <2>2 DEF Before
<1> QED BY <1>3, <1>4, <1>5, <1>6

-----------------------------------------------------------------------------
(* Types.                                                                  *)

\* There are queues, and every hash and turn names one.
LEMMA QueueNumbers ==
  /\ QueueCount \in Nat \ {0} /\ 0 \in Queues
  /\ \A n \in Nat : n % QueueCount \in Queues
<1>1. QueueCount \in Nat \ {0}
  BY DispatcherAssumption DEF QueueCount
<1>2. \A n \in Nat : n % QueueCount \in 0 .. QueueCount - 1
  BY <1>1
<1> QED BY <1>1, <1>2 DEF Queues

\* A worker serves a queue.
LEMMA WorkerQueue == \A w \in Workers : w[1] \in Queues
BY DEF Workers

\* A caller that is at a message has one.
LEMMA CurrentIsTask ==
  ASSUME DispatcherTypeOK, AtMessage, NEW b \in Callers PROVE Current(b) \in Tasks
<1>1. Msgs[b] \in Seq(Tasks) /\ caller[b].i \in 1 .. Len(Msgs[b])
  BY DispatcherAssumption DEF AtMessage
<1> QED BY <1>1 DEF Current

\* A new dispatcher satisfies the invariant.
LEMMA InitDInv == DispatcherInit => DInv
<1> SUFFICES ASSUME DispatcherInit PROVE DInv
  OBVIOUS
<1> USE DEF DispatcherInit
<1>1. /\ Elements(<<>>) = {} /\ <<>> \in Seq(Tasks) /\ Len(<<>>) = 0
      /\ \A t, u : ~Before(<<>>, t, u)
  BY DEF Elements, Before
<1>2. Queued = {} /\ InWork = {} /\ Finished = {} /\ Elements(accepted) = {}
  BY <1>1 DEF Queued, InWork, Finished
<1>3. DispatcherTypeOK
  <2>1. caller \in [Callers -> [pc : {"ready", "sending", "collecting", "done", "failed", "gaveup"},
                                 i : Nat, q : Queues]]
    BY QueueNumbers
  <2>2. queues \in [Queues -> Seq(Tasks)] /\ \A q \in Queues : Len(queues[q]) <= QueueCap
    BY <1>1, DispatcherAssumption
  <2> QED BY <1>1, <2>1, <2>2, QueueNumbers DEF DispatcherTypeOK
<1>4. AtMessage
  <2> SUFFICES ASSUME NEW b \in Callers PROVE 1 \in 1 .. Len(Msgs[b])
    BY DEF AtMessage
  <2> QED BY DispatcherAssumption
<1>5. Fresh
  BY <1>2 DEF Fresh
<1>6. QueuedOnce /\ WorkedOnce
  BY <1>1 DEF QueuedOnce, WorkedOnce
<1>7. Apart
  BY <1>2, <1>6 DEF Apart
<1>8. Hashed \subseteq Tasks
  BY DispatcherAssumption DEF Hashed, Elements
<1>9. Homed
  BY <1>1, <1>8, FreeAssumption DEF Homed
<1>10. InOrder
  <2>1. \A t \in Hashed : Home(t) \in Queues
    BY <1>8, QueueNumbers, DispatcherAssumption DEF Home
  <2> QED BY <1>1, <1>2, <2>1 DEF InOrder
<1>11. Placed /\ Tallied
  <2>1. IsFiniteSet({}) /\ Cardinality({}) = 0
    BY FS_EmptySet
  <2>2. Placed
    BY <1>2, <2>1 DEF Placed
  <2>3. Len(accepted) = 0 /\ Len(finished) = 0
    BY <1>1
  <2>4. Tallied
    BY <1>2, <2>1, <2>3 DEF Tallied
  <2> QED BY <2>2, <2>4
<1> QED BY <1>3, <1>4, <1>5, <1>7, <1>9, <1>10, <1>11 DEF DInv

\* The types are kept: by callers,
LEMMA CallerTyped == \A b \in Callers : DispatcherTypeOK /\ AtMessage /\ DispatchStep(b) => DispatcherTypeOK'
<1> SUFFICES ASSUME DispatcherTypeOK, AtMessage, NEW b \in Callers, DispatchStep(b) PROVE DispatcherTypeOK'
  OBVIOUS
<1>1. Current(b) \in Tasks /\ Msgs[b] \in Seq(Tasks)
  BY CurrentIsTask, DispatcherAssumption
<1> USE DEF DispatcherTypeOK
<1>2. CASE Begin(b)
  <2>1. NextQueue(b) \in Queues
    <3>1. HashOf[Current(b)] \in Nat /\ dispatchIndex + 1 \in Nat
      BY <1>1, QueueNumbers, DispatcherAssumption DEF Queues
    <3> QED BY <3>1, QueueNumbers DEF NextQueue
  <2>2. caller' = [caller EXCEPT ![b] = [pc |-> "sending", i |-> caller[b].i, q |-> NextQueue(b)]]
    BY <1>2 DEF Begin
  <2>3. dispatchIndex' \in Queues /\ metFull' \subseteq Tasks
    BY <1>1, <1>2, <2>1 DEF Begin
  <2>4. respCh' \in [Tasks -> {"none", "empty", "full", "read", "closed"}]
    BY <1>2 DEF Begin
  <2> QED BY <1>2, <2>1, <2>2, <2>3, <2>4 DEF Begin
<1>3. CASE Enqueue(b)
  <2>1. caller[b].q \in Queues /\ caller[b].i \in Nat
    OBVIOUS
  <2>2. queues' \in [Queues -> Seq(Tasks)] /\ \A q \in Queues : Len(queues'[q]) <= QueueCap
    BY <1>1, <1>3, <2>1, DispatcherAssumption DEF Enqueue
  <2>3. caller'[b] \in [pc : {"ready", "collecting", "done"}, i : Nat, q : Queues]
    BY <1>3, <2>1 DEF Enqueue
  <2>5. caller' = [caller EXCEPT ![b] = caller'[b]]
    BY <1>3 DEF Enqueue
  <2>4. accepted' \in Seq(Tasks)
    BY <1>1, <1>3 DEF Enqueue
  <2> QED BY <1>3, <2>1, <2>2, <2>3, <2>4, <2>5 DEF Enqueue
<1>4. CASE Refused(b)
  <2>1. caller' = [caller EXCEPT ![b] = [pc |-> "failed", i |-> caller[b].i, q |-> caller[b].q]]
    BY <1>4 DEF Refused
  <2>2. respCh' \in [Tasks -> {"none", "empty", "full", "read", "closed"}]
    BY <1>4 DEF Refused
  <2> QED BY <1>4, <2>1, <2>2 DEF Refused
<1>5. CASE Collect(b)
  <2>1. \/ caller' = [caller EXCEPT ![b] = [pc |-> "collecting", i |-> caller[b].i + 1, q |-> caller[b].q]]
        \/ caller' = [caller EXCEPT ![b] = [pc |-> "done", i |-> caller[b].i, q |-> caller[b].q]]
    BY <1>5 DEF Collect
  <2> QED BY <1>1, <1>5, <2>1 DEF Collect
<1>6. CASE GiveUp(b)
  <2>1. caller' = [caller EXCEPT ![b] = [pc |-> "gaveup", i |-> caller[b].i, q |-> caller[b].q]]
    BY <1>6 DEF GiveUp
  <2> QED BY <1>6, <2>1 DEF GiveUp
<1>7. CASE Expire(b)
  BY <1>7 DEF Expire
<1> QED BY <1>2, <1>3, <1>4, <1>5, <1>6, <1>7 DEF DispatchStep

\* workers and Stop.
LEMMA WorkerTyped == \A w \in Workers : DispatcherTypeOK /\ WorkerStep(w) => DispatcherTypeOK'
<1> SUFFICES ASSUME DispatcherTypeOK, NEW w \in Workers, WorkerStep(w) PROVE DispatcherTypeOK'
  OBVIOUS
<1> USE DEF DispatcherTypeOK
<1>1. CASE Take(w)
  <2>1. w[1] \in Queues /\ queues[w[1]] \in Seq(Tasks) /\ queues[w[1]] # <<>>
    BY <1>1, WorkerQueue DEF Take
  <2>2. /\ Head(queues[w[1]]) \in Tasks /\ Tail(queues[w[1]]) \in Seq(Tasks)
        /\ Len(Tail(queues[w[1]])) = Len(queues[w[1]]) - 1
    BY <2>1
  <2>3. queues' \in [Queues -> Seq(Tasks)] /\ \A q \in Queues : Len(queues'[q]) <= QueueCap
    BY <1>1, <2>1, <2>2, DispatcherAssumption DEF Take
  <2> QED BY <1>1, <2>2, <2>3 DEF Take
<1>2. CASE Finish(w)
  <2>1. worker[w] \in Tasks
    BY <1>2 DEF Finish
  <2>2. panicked' \in BOOLEAN
    BY <1>2 DEF Finish
  <2>3. /\ finished' \in Seq(Tasks) /\ worker' \in [Workers -> Tasks \cup {Free}]
        /\ respCh' \in [Tasks -> {"none", "empty", "full", "read", "closed"}]
    BY <1>2, <2>1 DEF Finish
  <2> QED BY <1>2, <2>2, <2>3 DEF Finish
<1>3. CASE Exit(w)
  BY <1>3 DEF Exit
<1> QED BY <1>1, <1>2, <1>3 DEF WorkerStep

\* The types are kept.
LEMMA TypesKept == DispatcherTypeOK /\ AtMessage /\ [DispatcherNext]_dispatcherVars => DispatcherTypeOK'
<1>1. DispatcherTypeOK /\ StopDispatcher => DispatcherTypeOK'
  BY DEF DispatcherTypeOK, StopDispatcher
<1>2. DispatcherTypeOK /\ UNCHANGED dispatcherVars => DispatcherTypeOK'
  BY DEF DispatcherTypeOK, dispatcherVars
<1> QED BY <1>1, <1>2, CallerTyped, WorkerTyped DEF DispatcherNext

-----------------------------------------------------------------------------
(* How messages move.                                                      *)

\* The steps of a caller that move no message.
Rests(b) == Begin(b) \/ Refused(b) \/ Collect(b) \/ GiveUp(b) \/ Expire(b)

\* A step moves one message, or none.
LEMMA StepKinds ==
  ASSUME [DispatcherNext]_dispatcherVars
  PROVE  \/ \E b \in Callers : Enqueue(b)
         \/ \E w \in Workers : Take(w) \/ Finish(w)
         \/ UNCHANGED <<queues, worker, accepted, finished>>
<1>1. ASSUME NEW b \in Callers, Rests(b) PROVE UNCHANGED <<queues, worker, accepted, finished>>
  BY <1>1 DEF Rests, Begin, Refused, Collect, GiveUp, Expire
<1>2. ASSUME NEW w \in Workers, Exit(w) \/ StopDispatcher PROVE UNCHANGED <<queues, worker, accepted, finished>>
  BY <1>2 DEF Exit, StopDispatcher
<1>3. StopDispatcher \/ UNCHANGED dispatcherVars => UNCHANGED <<queues, worker, accepted, finished>>
  BY DEF StopDispatcher, dispatcherVars
<1> QED BY <1>1, <1>2, <1>3 DEF DispatcherNext, DispatchStep, WorkerStep, Rests

\* Where the message of a place is.
LEMMA InQueue ==
  ASSUME NEW q \in Queues, NEW t \in Elements(queues[q]) PROVE t \in Queued
BY DEF Queued

\* A queue takes a message that was nowhere,
LEMMA EnqueueMoves ==
  ASSUME DInv, NEW b \in Callers, Enqueue(b)
  PROVE  /\ Current(b) \in Tasks /\ caller[b].q \in Queues
         /\ Current(b) \notin Elements(accepted)
         /\ Elements(accepted)' = Elements(accepted) \cup {Current(b)}
         /\ queues' = [queues EXCEPT ![caller[b].q] = Append(@, Current(b))]
         /\ Elements(queues'[caller[b].q]) = Elements(queues[caller[b].q]) \cup {Current(b)}
         /\ \A q \in Queues \ {caller[b].q} : queues'[q] = queues[q]
         /\ Queued' = Queued \cup {Current(b)}
         /\ InWork' = InWork /\ Finished' = Finished
<1> DEFINE t == Current(b)
           q == caller[b].q
<1>1. t \in Tasks /\ q \in Queues /\ queues[q] \in Seq(Tasks) /\ accepted \in Seq(Tasks)
  BY CurrentIsTask DEF DInv, DispatcherTypeOK
<1>2. t \notin Elements(accepted)
  <2>1. caller[b].i \in caller[b].i .. Len(Msgs[b])
    BY DispatcherAssumption DEF DInv, AtMessage
  <2> QED BY <2>1 DEF DInv, Fresh, Enqueue, Current
<1>3. queues' = [queues EXCEPT ![q] = Append(@, t)] /\ accepted' = Append(accepted, t)
  BY DEF Enqueue
<1>4. Elements(accepted)' = Elements(accepted) \cup {t}
  BY <1>1, <1>3, ElementsAppend
<1>5. queues'[q] = Append(queues[q], t) /\ \A r \in Queues \ {q} : queues'[r] = queues[r]
  BY <1>1, <1>3 DEF DInv, DispatcherTypeOK
<1>6. Elements(queues'[q]) = Elements(queues[q]) \cup {t}
  BY <1>1, <1>5, ElementsAppend
<1>7. Queued' = Queued \cup {t}
  <2>1. \A x : x \in Queued <=> \E r \in Queues : x \in Elements(queues[r])
    BY DEF Queued
  <2>2. \A x : x \in Queued' <=> \E r \in Queues : x \in Elements(queues'[r])
    BY DEF Queued
  <2> QED BY <1>1, <1>5, <1>6, <2>1, <2>2
<1>8. InWork' = InWork /\ Finished' = Finished
  BY DEF Enqueue, InWork, Finished
<1> QED BY <1>1, <1>2, <1>3, <1>4, <1>5, <1>6, <1>7, <1>8

\* a worker takes it out of the queue,
LEMMA TakeMoves ==
  ASSUME DInv, NEW w \in Workers, Take(w)
  PROVE  LET q == w[1]
             h == Head(queues[q])
         IN  /\ q \in Queues /\ queues[q] \in Seq(Tasks) /\ queues[q] # <<>>
             /\ h \in Tasks /\ h \in Elements(queues[q]) /\ h \notin Elements(queues'[q])
             /\ queues'[q] = Tail(queues[q]) /\ queues' \in [Queues -> Seq(Tasks)]
             /\ Elements(queues[q]) = {h} \cup Elements(queues'[q])
             /\ \A r \in Queues \ {q} : queues'[r] = queues[r]
             /\ h \in Queued /\ Queued' = Queued \ {h}
             /\ worker[w] = Free /\ worker'[w] = h
             /\ \A v \in Workers \ {w} : worker'[v] = worker[v]
             /\ InWork' = InWork \cup {h}
             /\ accepted' = accepted /\ finished' = finished
<1> DEFINE q == w[1]
           h == Head(queues[q])
<1>1. q \in Queues /\ queues[q] \in Seq(Tasks) /\ queues[q] # <<>> /\ queues \in [Queues -> Seq(Tasks)]
  BY WorkerQueue DEF DInv, DispatcherTypeOK, Take
<1>2. /\ h \in Tasks /\ Tail(queues[q]) \in Seq(Tasks) /\ Len(queues[q]) \in Nat \ {0}
      /\ h = queues[q][1] /\ Len(Tail(queues[q])) = Len(queues[q]) - 1
      /\ \A i \in 1 .. Len(queues[q]) - 1 : Tail(queues[q])[i] = queues[q][i + 1]
  BY <1>1
<1>3. /\ queues'[q] = Tail(queues[q]) /\ queues' \in [Queues -> Seq(Tasks)]
      /\ \A r \in Queues \ {q} : queues'[r] = queues[r]
  BY <1>1, <1>2 DEF Take
<1>4. Elements(queues[q]) = {h} \cup Elements(queues'[q])
  BY <1>1, <1>3, ElementsTail
<1>5. h \notin Elements(queues'[q])
  <2> SUFFICES ASSUME NEW i \in 1 .. Len(queues[q]) - 1, queues[q][i + 1] = h PROVE FALSE
    BY <1>2, <1>3 DEF Elements
  <2>1. i + 1 \in 1 .. Len(queues[q]) /\ 1 \in 1 .. Len(queues[q]) /\ i + 1 # 1
    BY <1>2
  <2> QED BY <1>1, <1>2, <2>1 DEF DInv, Apart, QueuedOnce
<1>6. \A r \in Queues \ {q} : h \notin Elements(queues[r])
  <2> SUFFICES ASSUME NEW r \in Queues \ {q}, NEW i \in 1 .. Len(queues[r]), queues[r][i] = h
               PROVE  FALSE
    BY DEF Elements
  <2>1. 1 \in 1 .. Len(queues[q])
    BY <1>2
  <2> QED BY <1>1, <1>2, <2>1 DEF DInv, Apart, QueuedOnce
<1>7. h \in Queued /\ Queued' = Queued \ {h}
  <2>1. \A x : x \in Queued <=> \E r \in Queues : x \in Elements(queues[r])
    BY DEF Queued
  <2>2. \A x : x \in Queued' <=> \E r \in Queues : x \in Elements(queues'[r])
    BY DEF Queued
  <2>3. h \in Queued
    BY <1>1, <1>4, <2>1
  <2>4. ASSUME NEW x PROVE x \in Queued' <=> x \in Queued /\ x # h
    <3>1. ASSUME NEW r \in Queues, x \in Elements(queues'[r]) PROVE x # h /\ x \in Elements(queues[r])
      BY <1>3, <1>4, <1>5, <1>6, <3>1
    <3>2. ASSUME NEW r \in Queues, x \in Elements(queues[r]), x # h PROVE x \in Elements(queues'[r])
      BY <1>3, <1>4, <3>2
    <3> QED BY <2>1, <2>2, <3>1, <3>2
  <2> QED BY <2>3, <2>4
<1>8. /\ worker[w] = Free /\ worker'[w] = h
      /\ \A v \in Workers \ {w} : worker'[v] = worker[v]
  BY DEF Take, DInv, DispatcherTypeOK
<1>9. InWork' = InWork \cup {h}
  BY <1>2, <1>8, FreeAssumption DEF InWork
<1>10. accepted' = accepted /\ finished' = finished
  BY DEF Take
<1> QED BY <1>1, <1>2, <1>3, <1>4, <1>5, <1>7, <1>8, <1>9, <1>10

\* and finishes it.
LEMMA FinishMoves ==
  ASSUME DInv, NEW w \in Workers, Finish(w)
  PROVE  /\ worker[w] \in Tasks /\ worker[w] \in InWork
         /\ worker'[w] = Free
         /\ \A v \in Workers \ {w} : worker'[v] = worker[v]
         /\ InWork' = InWork \ {worker[w]}
         /\ Finished' = Finished \cup {worker[w]}
         /\ finished' = Append(finished, worker[w]) /\ finished \in Seq(Tasks)
         /\ queues' = queues /\ accepted' = accepted
<1>1. /\ worker[w] \in Tasks /\ finished \in Seq(Tasks)
      /\ finished' = Append(finished, worker[w])
      /\ queues' = queues /\ accepted' = accepted
      /\ worker'[w] = Free /\ \A v \in Workers \ {w} : worker'[v] = worker[v]
  BY DEF Finish, DInv, DispatcherTypeOK
<1>2. worker[w] \in InWork
  BY <1>1, FreeAssumption DEF InWork
<1>3. \A v \in Workers \ {w} : worker[v] # worker[w]
  BY <1>1, FreeAssumption DEF DInv, Apart, WorkedOnce
<1>4. InWork' = InWork \ {worker[w]}
  BY <1>1, <1>3, FreeAssumption DEF InWork
<1>5. Finished' = Finished \cup {worker[w]}
  BY <1>1, ElementsAppend DEF Finished
<1> QED BY <1>1, <1>2, <1>4, <1>5

-----------------------------------------------------------------------------
(* Every conjunct of DInv is preserved by every step.                      *)

\* What a step does to the callers.
LEMMA CallerMoves ==
  ASSUME DispatcherTypeOK, AtMessage, [DispatcherNext]_dispatcherVars, NEW b \in Callers
  PROVE  \/ caller'[b] = caller[b]
         \/ /\ Begin(b) /\ caller[b].pc = "ready" /\ caller'[b].pc = "sending"
            /\ caller'[b].i = caller[b].i /\ caller'[b].q = NextQueue(b)
         \/ /\ Enqueue(b) /\ caller[b].pc = "sending" /\ caller[b].i < Len(Msgs[b])
            /\ caller'[b].pc = "ready" /\ caller'[b].i = caller[b].i + 1
         \/ /\ Enqueue(b) /\ caller'[b].pc \in {"collecting", "done"} /\ caller'[b].i = 1
         \/ /\ caller'[b].pc \in {"failed", "gaveup", "done"} /\ caller'[b].i = caller[b].i
         \/ /\ caller'[b].pc = "collecting" /\ caller[b].i < Len(Msgs[b])
            /\ caller'[b].i = caller[b].i + 1
<1> USE DEF DispatcherTypeOK
<1>1. ASSUME NEW c \in Callers \ {b}, DispatchStep(c) PROVE caller'[b] = caller[b]
  BY <1>1 DEF DispatchStep, Begin, Enqueue, Refused, Collect, GiveUp, Expire
<1>2. ASSUME NEW w \in Workers, WorkerStep(w) PROVE caller' = caller
  BY <1>2 DEF WorkerStep, Take, Finish, Exit
<1>3. StopDispatcher \/ UNCHANGED dispatcherVars => caller' = caller
  BY DEF StopDispatcher, dispatcherVars
<1>4. Begin(b) => caller[b].pc = "ready"
                  /\ caller'[b].pc = "sending" /\ caller'[b].i = caller[b].i
                  /\ caller'[b].q = NextQueue(b)
  BY DEF Begin
<1>5. Enqueue(b) => caller[b].pc = "sending"
        /\ \/ caller[b].i < Len(Msgs[b]) /\ caller'[b].pc = "ready" /\ caller'[b].i = caller[b].i + 1
           \/ caller'[b].pc \in {"collecting", "done"} /\ caller'[b].i = 1
  BY DEF Enqueue
<1>6. Refused(b) \/ GiveUp(b) => caller'[b].pc \in {"failed", "gaveup"} /\ caller'[b].i = caller[b].i
  BY DEF Refused, GiveUp
<1>7. Collect(b) =>
        \/ caller'[b].pc = "collecting" /\ caller[b].i < Len(Msgs[b]) /\ caller'[b].i = caller[b].i + 1
        \/ caller'[b].pc = "done" /\ caller'[b].i = caller[b].i
  BY DEF Collect
<1>8. Expire(b) => caller' = caller
  BY DEF Expire
<1> QED BY <1>1, <1>2, <1>3, <1>4, <1>5, <1>6, <1>7, <1>8 DEF DispatcherNext, DispatchStep

\* A caller stays at one of its messages.
LEMMA AtMessageKept == DispatcherTypeOK /\ AtMessage /\ [DispatcherNext]_dispatcherVars => AtMessage'
<1> SUFFICES ASSUME DispatcherTypeOK, AtMessage, [DispatcherNext]_dispatcherVars, NEW b \in Callers
             PROVE  caller'[b].i \in 1 .. Len(Msgs[b])
  BY DEF AtMessage
<1>1. caller[b].i \in 1 .. Len(Msgs[b]) /\ Len(Msgs[b]) \in Nat
  BY DispatcherAssumption DEF AtMessage
<1>2. caller[b].i < Len(Msgs[b]) => caller[b].i + 1 \in 1 .. Len(Msgs[b])
  BY <1>1
<1>3. caller'[b].i \in {caller[b].i, 1} \/ (caller[b].i < Len(Msgs[b]) /\ caller'[b].i = caller[b].i + 1)
  BY CallerMoves
<1> QED BY <1>1, <1>2, <1>3

\* What is still to be handed over stays out of the queues.
LEMMA FreshKept == DInv /\ [DispatcherNext]_dispatcherVars => Fresh'
<1> SUFFICES ASSUME DInv, [DispatcherNext]_dispatcherVars, NEW b \in Callers,
                    caller'[b].pc \in {"ready", "sending"},
                    NEW j \in caller'[b].i .. Len(Msgs[b])
             PROVE  Msgs[b][j] \notin Elements(accepted)'
  BY DEF Fresh
<1>1. caller[b].i \in 1 .. Len(Msgs[b]) /\ Len(Msgs[b]) \in Nat
  BY DispatcherAssumption DEF DInv, AtMessage
<1>2. /\ caller[b].pc \in {"ready", "sending"}
      /\ caller'[b].i = caller[b].i \/ (Enqueue(b) /\ caller'[b].i = caller[b].i + 1)
  BY CallerMoves DEF DInv
<1>3. j \in caller[b].i .. Len(Msgs[b]) /\ (Enqueue(b) => j # caller[b].i)
  <2>1. CASE Enqueue(b)
    <3>1. caller'[b].i = caller[b].i + 1
      BY <2>1, CallerMoves DEF DInv, Enqueue, DispatcherTypeOK
    <3> QED BY <1>1, <3>1
  <2> QED BY <1>1, <1>2, <2>1
<1>4. Msgs[b][j] \notin Elements(accepted)
  BY <1>2, <1>3 DEF DInv, Fresh
<1>5. ASSUME NEW c \in Callers, Enqueue(c) PROVE Msgs[b][j] # Current(c)
  <2>1. caller[c].i \in 1 .. Len(Msgs[c]) /\ j \in 1 .. Len(Msgs[b])
    BY <1>1, <1>3, DispatcherAssumption DEF DInv, AtMessage
  <2>2. Msgs[b][j] = Msgs[c][caller[c].i] => b = c /\ j = caller[c].i
    BY <2>1, DispatcherAssumption
  <2> QED BY <1>3, <1>5, <2>2 DEF Current
<1>6. ASSUME NEW c \in Callers, Enqueue(c) PROVE Msgs[b][j] \notin Elements(accepted)'
  BY <1>4, <1>5, <1>6, EnqueueMoves
<1>7. ASSUME accepted' = accepted PROVE Msgs[b][j] \notin Elements(accepted)'
  BY <1>4, <1>7
<1>8. ASSUME NEW w \in Workers, Take(w) \/ Finish(w) PROVE accepted' = accepted
  BY <1>8 DEF Take, Finish
<1> QED BY <1>6, <1>7, <1>8, StepKinds

\* A message that is taken is where it was or one place on.
LEMMA PlacedKept == DInv /\ [DispatcherNext]_dispatcherVars => Placed'
<1> SUFFICES ASSUME DInv, [DispatcherNext]_dispatcherVars PROVE Placed'
  OBVIOUS
<1>1. ASSUME NEW b \in Callers, Enqueue(b) PROVE Placed'
  BY <1>1, EnqueueMoves, FS_AddElement DEF DInv, Placed
<1>2. ASSUME NEW w \in Workers, Take(w) PROVE Placed'
  <2> DEFINE h == Head(queues[w[1]])
  <2>1. /\ h \in Queued /\ Queued' = Queued \ {h} /\ InWork' = InWork \cup {h}
        /\ accepted' = accepted /\ finished' = finished
    BY <1>2, TakeMoves
  <2>2. Elements(accepted)' = Elements(accepted) /\ Finished' = Finished
    BY <2>1 DEF Finished
  <2> QED BY <2>1, <2>2 DEF DInv, Placed
<1>3. ASSUME NEW w \in Workers, Finish(w) PROVE Placed'
  <2>1. /\ worker[w] \in InWork /\ InWork' = InWork \ {worker[w]}
        /\ Finished' = Finished \cup {worker[w]}
        /\ queues' = queues /\ accepted' = accepted
    BY <1>3, FinishMoves
  <2>2. Elements(accepted)' = Elements(accepted) /\ Queued' = Queued
    BY <2>1 DEF Queued
  <2> QED BY <2>1, <2>2 DEF DInv, Placed
<1>4. ASSUME UNCHANGED <<queues, worker, accepted, finished>> PROVE Placed'
  BY <1>4 DEF DInv, Placed, Queued, InWork, Finished
<1> QED BY <1>1, <1>2, <1>3, <1>4, StepKinds

\* None is lost or doubled.
LEMMA TalliedKept == DInv /\ [DispatcherNext]_dispatcherVars => Tallied'
<1> SUFFICES ASSUME DInv, [DispatcherNext]_dispatcherVars PROVE Tallied'
  OBVIOUS
<1>1. /\ IsFiniteSet(Queued) /\ IsFiniteSet(InWork)
      /\ Cardinality(Queued) \in Nat /\ Cardinality(InWork) \in Nat
  BY FS_Subset, FS_CardinalityType DEF DInv, Placed
<1>2. /\ Len(accepted) = Cardinality(Queued) + Cardinality(InWork) + Len(finished)
      /\ Len(finished) \in Nat /\ Len(accepted) \in Nat
  BY DEF DInv, Tallied, DispatcherTypeOK
<1>3. ASSUME NEW b \in Callers, Enqueue(b) PROVE Tallied'
  <2>1. Cardinality(Queued \cup {Current(b)}) = Cardinality(Queued) + 1
    BY <1>1, <1>3, EnqueueMoves, FS_AddElement DEF DInv, Placed
  <2>2. Len(accepted') = Len(accepted) + 1 /\ finished' = finished
    BY <1>3, CurrentIsTask DEF Enqueue, DInv, DispatcherTypeOK
  <2>3. Queued' = Queued \cup {Current(b)} /\ InWork' = InWork
    BY <1>3, EnqueueMoves
  <2> QED BY <1>1, <1>2, <2>1, <2>2, <2>3 DEF Tallied
<1>4. ASSUME NEW w \in Workers, Take(w) PROVE Tallied'
  <2> DEFINE h == Head(queues[w[1]])
  <2>1. /\ h \in Queued /\ Queued' = Queued \ {h} /\ InWork' = InWork \cup {h}
        /\ accepted' = accepted /\ finished' = finished
    BY <1>4, TakeMoves
  <2>2. h \notin InWork
    BY <2>1 DEF DInv, Apart
  <2>3. Cardinality(Queued \ {h}) = Cardinality(Queued) - 1
    BY <1>1, <2>1, FS_RemoveElement
  <2>4. Cardinality(InWork \cup {h}) = Cardinality(InWork) + 1
    BY <1>1, <2>2, FS_AddElement
  <2> QED BY <1>1, <1>2, <2>1, <2>3, <2>4 DEF Tallied
<1>5. ASSUME NEW w \in Workers, Finish(w) PROVE Tallied'
  <2>1. /\ worker[w] \in Tasks /\ worker[w] \in InWork /\ InWork' = InWork \ {worker[w]}
        /\ finished' = Append(finished, worker[w]) /\ finished \in Seq(Tasks)
        /\ queues' = queues /\ accepted' = accepted
    BY <1>5, FinishMoves
  <2>2. Cardinality(InWork \ {worker[w]}) = Cardinality(InWork) - 1
    BY <1>1, <2>1, FS_RemoveElement
  <2>3. Len(finished') = Len(finished) + 1
    BY <2>1
  <2>4. Queued' = Queued
    BY <2>1 DEF Queued
  <2> QED BY <1>1, <1>2, <2>1, <2>2, <2>3, <2>4 DEF Tallied
<1>6. ASSUME UNCHANGED <<queues, worker, accepted, finished>> PROVE Tallied'
  BY <1>6 DEF DInv, Tallied, Queued, InWork
<1> QED BY <1>3, <1>4, <1>5, <1>6, StepKinds

\* No message gets into a second place.
LEMMA ApartKept == DInv /\ [DispatcherNext]_dispatcherVars => Apart'
<1> SUFFICES ASSUME DInv, [DispatcherNext]_dispatcherVars PROVE Apart'
  OBVIOUS
<1>1. ASSUME NEW b \in Callers, Enqueue(b) PROVE Apart'
  <2> DEFINE t == Current(b)
             p == caller[b].q
  <2>1. /\ t \in Tasks /\ p \in Queues /\ t \notin Elements(accepted)
        /\ Queued' = Queued \cup {t} /\ InWork' = InWork /\ Finished' = Finished
        /\ \A q \in Queues \ {p} : queues'[q] = queues[q]
        /\ queues'[p] = Append(queues[p], t)
    BY <1>1, EnqueueMoves DEF DInv, DispatcherTypeOK
  <2>2. t \notin Queued /\ t \notin InWork /\ t \notin Finished
    BY <2>1 DEF DInv, Placed
  <2>3. ASSUME NEW q \in Queues, NEW i \in 1 .. Len(queues'[q])
        PROVE  \/ i \in 1 .. Len(queues[q]) /\ queues'[q][i] = queues[q][i] /\ queues'[q][i] # t
               \/ q = p /\ i = Len(queues[p]) + 1 /\ queues'[q][i] = t
    <3>1. queues[p] \in Seq(Tasks) /\ Len(queues[p]) \in Nat
      BY <2>1 DEF DInv, DispatcherTypeOK
    <3>2. /\ Len(queues'[p]) = Len(queues[p]) + 1 /\ queues'[p][Len(queues[p]) + 1] = t
          /\ \A k \in 1 .. Len(queues[p]) : queues'[p][k] = queues[p][k]
      BY <2>1, <3>1
    <3>3. \A k \in 1 .. Len(queues[q]) : queues[q][k] # t
      BY <2>2 DEF Queued, Elements
    <3>4. CASE q = p
      <4>1. i \in 1 .. Len(queues[p]) + 1
        BY <3>2, <3>4
      <4>2. i \in 1 .. Len(queues[p]) \/ i = Len(queues[p]) + 1
        BY <3>1, <4>1
      <4> QED BY <3>2, <3>3, <3>4, <4>2
    <3>5. CASE q # p
      <4>1. queues'[q] = queues[q]
        BY <2>1, <3>5
      <4> QED BY <3>3, <4>1
    <3> QED BY <3>4, <3>5
  <2>4. QueuedOnce'
    <3> SUFFICES ASSUME NEW q \in Queues, NEW r \in Queues,
                        NEW i \in 1 .. Len(queues'[q]), NEW j \in 1 .. Len(queues'[r]),
                        queues'[q][i] = queues'[r][j]
                 PROVE  q = r /\ i = j
      BY DEF QueuedOnce
    <3> QED BY <2>3 DEF DInv, Apart, QueuedOnce
  <2>5. WorkedOnce'
    BY <1>1 DEF Enqueue, WorkedOnce, DInv, Apart
  <2> QED BY <2>1, <2>2, <2>4, <2>5 DEF DInv, Apart
<1>2. ASSUME NEW w \in Workers, Take(w) PROVE Apart'
  <2> DEFINE h == Head(queues[w[1]])
             p == w[1]
  <2>1. /\ p \in Queues /\ queues[p] \in Seq(Tasks) /\ queues[p] # <<>>
        /\ queues'[p] = Tail(queues[p])
        /\ \A q \in Queues \ {p} : queues'[q] = queues[q]
        /\ h \in Queued /\ Queued' = Queued \ {h} /\ InWork' = InWork \cup {h}
        /\ finished' = finished
        /\ worker'[w] = h /\ \A v \in Workers \ {w} : worker'[v] = worker[v]
    BY <1>2, TakeMoves
  <2>2. /\ Len(queues[p]) \in Nat \ {0} /\ Len(queues'[p]) = Len(queues[p]) - 1
        /\ \A k \in 1 .. Len(queues[p]) - 1 : queues'[p][k] = queues[p][k + 1]
    BY <2>1
  <2>3. QueuedOnce'
    <3> SUFFICES ASSUME NEW q \in Queues, NEW r \in Queues,
                        NEW i \in 1 .. Len(queues'[q]), NEW j \in 1 .. Len(queues'[r]),
                        queues'[q][i] = queues'[r][j]
                 PROVE  q = r /\ i = j
      BY DEF QueuedOnce
    <3> DEFINE at(s, k) == IF s = p THEN k + 1 ELSE k
    <3>1. ASSUME NEW s \in Queues, NEW k \in 1 .. Len(queues'[s])
          PROVE at(s, k) \in 1 .. Len(queues[s]) /\ queues'[s][k] = queues[s][at(s, k)]
      <4>1. CASE s = p
        <5>1. k \in 1 .. Len(queues[p]) - 1 /\ k + 1 \in 1 .. Len(queues[p])
          BY <2>2, <4>1
        <5> QED BY <2>2, <4>1, <5>1
      <4>2. CASE s # p
        BY <2>1, <4>2
      <4> QED BY <4>1, <4>2
    <3>2. /\ at(q, i) \in 1 .. Len(queues[q]) /\ queues'[q][i] = queues[q][at(q, i)]
          /\ at(r, j) \in 1 .. Len(queues[r]) /\ queues'[r][j] = queues[r][at(r, j)]
      BY <3>1
    <3> HIDE DEF at
    <3>4. \A k \in 1 .. Len(queues[q]), l \in 1 .. Len(queues[r]) :
            queues[q][k] = queues[r][l] => q = r /\ k = l
      BY DEF DInv, Apart, QueuedOnce
    <3>3. q = r /\ at(q, i) = at(r, j)
      BY <3>2, <3>4
    <3> QED BY <3>3 DEF at
  <2>4. Finished' = Finished
    BY <2>1 DEF Finished
  <2>5. \A v \in Workers : worker[v] # h
    <3>1. h \in Tasks /\ h \notin InWork
      BY <1>2, <2>1, TakeMoves DEF DInv, Apart
    <3> QED BY <3>1, FreeAssumption DEF InWork
  <2>6. WorkedOnce'
    BY <2>1, <2>5 DEF DInv, Apart, WorkedOnce
  <2> QED BY <2>1, <2>3, <2>4, <2>6 DEF DInv, Apart
<1>3. ASSUME NEW w \in Workers, Finish(w) PROVE Apart'
  <2>1. /\ worker'[w] = Free /\ \A v \in Workers \ {w} : worker'[v] = worker[v]
        /\ worker[w] \in InWork /\ InWork' = InWork \ {worker[w]}
        /\ Finished' = Finished \cup {worker[w]} /\ queues' = queues
    BY <1>3, FinishMoves
  <2>2. Queued' = Queued /\ QueuedOnce'
    BY <2>1 DEF Queued, QueuedOnce, DInv, Apart
  <2>3. WorkedOnce'
    BY <2>1 DEF DInv, Apart, WorkedOnce
  <2> QED BY <2>1, <2>2, <2>3 DEF DInv, Apart
<1>4. ASSUME UNCHANGED <<queues, worker, accepted, finished>> PROVE Apart'
  BY <1>4 DEF DInv, Apart, QueuedOnce, WorkedOnce, Queued, InWork, Finished
<1> QED BY <1>1, <1>2, <1>3, <1>4, StepKinds

\* A hashed message is handed over by DispatchByHash.
LEMMA HashedCaller ==
  ASSUME DInv, NEW b \in Callers, Current(b) \in Hashed PROVE b \in ByHash
<1>1. PICK c \in ByHash : \E j \in 1 .. Len(Msgs[c]) : Msgs[c][j] = Current(b)
  BY DEF Hashed, Elements
<1>2. caller[b].i \in 1 .. Len(Msgs[b])
  BY DEF DInv, AtMessage
<1> QED BY <1>1, <1>2, DispatcherAssumption DEF Current

\* A hashed message is a message, and its home a queue.
LEMMA HomeIsQueue == \A t \in Hashed : t \in Tasks /\ Home(t) \in Queues
<1> SUFFICES ASSUME NEW t \in Hashed PROVE t \in Tasks /\ Home(t) \in Queues
  OBVIOUS
<1>1. t \in Tasks
  BY DispatcherAssumption DEF Hashed, Elements
<1>2. HashOf[t] \in Nat
  BY <1>1, DispatcherAssumption
<1> QED BY <1>1, <1>2, QueueNumbers DEF Home

\* A queue with one worker has no other.
LEMMA OneWorker ==
  ASSUME NEW v \in Workers, NEW w \in Workers, v[1] = w[1], WorkersOf(w[1]) = 1 PROVE v = w
<1>1. /\ v \in Queues \X (1 .. WorkerCount) /\ v[2] <= 1
      /\ w \in Queues \X (1 .. WorkerCount) /\ w[2] <= 1
  BY DEF Workers
<1>2. v[2] = 1 /\ w[2] = 1 /\ v = <<v[1], v[2]>> /\ w = <<w[1], w[2]>>
  BY <1>1, DispatcherAssumption
<1> QED BY <1>2

\* A hashed message keeps to its home queue.
LEMMA HomedKept == DInv /\ [DispatcherNext]_dispatcherVars => Homed'
<1> SUFFICES ASSUME DInv, [DispatcherNext]_dispatcherVars, NEW t \in Hashed
             PROVE  /\ \A b \in Callers : caller'[b].pc = "sending" /\ Current(b)' = t
                                            => caller'[b].q = Home(t)
                    /\ \A q \in Queues : t \in Elements(queues'[q]) => q = Home(t)
                    /\ \A w \in Workers : worker'[w] = t => w[1] = Home(t)
  BY DEF Homed, Elements, Home, Hashed
<1>1. ASSUME NEW b \in Callers, caller'[b].pc = "sending", Current(b)' = t
      PROVE  caller'[b].q = Home(t)
  <2>1. CASE caller'[b] = caller[b]
    BY <1>1, <2>1 DEF DInv, Homed, Current
  <2>2. CASE Begin(b) /\ caller'[b].i = caller[b].i /\ caller'[b].q = NextQueue(b)
    <3>1. Current(b) = t
      BY <1>1, <2>2 DEF Current
    <3> QED BY <2>2, <3>1, HashedCaller DEF NextQueue, Home
  <2> QED BY <1>1, <2>1, <2>2, CallerMoves DEF DInv
<1>2. Homed /\ t \in Hashed
  BY DEF DInv
<1>3. ASSUME NEW b \in Callers, Enqueue(b)
      PROVE  /\ \A q \in Queues : t \in Elements(queues'[q]) => q = Home(t)
             /\ \A w \in Workers : worker'[w] = t => w[1] = Home(t)
  <2>1. caller[b].pc = "sending" /\ worker' = worker
    BY <1>3 DEF Enqueue
  <2>2. Current(b) = t => caller[b].q = Home(t)
    BY <1>2, <2>1 DEF Homed
  <2>3. /\ Elements(queues'[caller[b].q]) = Elements(queues[caller[b].q]) \cup {Current(b)}
        /\ \A q \in Queues \ {caller[b].q} : queues'[q] = queues[q]
    BY <1>3, EnqueueMoves
  <2> QED BY <1>2, <2>1, <2>2, <2>3 DEF Homed
<1>4. ASSUME NEW v \in Workers, Take(v)
      PROVE  /\ \A q \in Queues : t \in Elements(queues'[q]) => q = Home(t)
             /\ \A w \in Workers : worker'[w] = t => w[1] = Home(t)
  <2>1. /\ Elements(queues[v[1]]) = {Head(queues[v[1]])} \cup Elements(queues'[v[1]])
        /\ v[1] \in Queues /\ \A r \in Queues \ {v[1]} : queues'[r] = queues[r]
        /\ worker'[v] = Head(queues[v[1]])
        /\ \A w \in Workers \ {v} : worker'[w] = worker[w]
    BY <1>4, TakeMoves
  <2> QED BY <1>2, <2>1 DEF Homed
<1>5. ASSUME NEW v \in Workers, Finish(v)
      PROVE  /\ \A q \in Queues : t \in Elements(queues'[q]) => q = Home(t)
             /\ \A w \in Workers : worker'[w] = t => w[1] = Home(t)
  <2>1. /\ queues' = queues /\ worker'[v] = Free
        /\ \A w \in Workers \ {v} : worker'[w] = worker[w]
    BY <1>5, FinishMoves
  <2>2. t # Free
    BY DispatcherAssumption, FreeAssumption DEF Hashed, Elements
  <2> QED BY <1>2, <2>1, <2>2 DEF Homed
<1>6. ASSUME UNCHANGED <<queues, worker, accepted, finished>>
      PROVE  /\ \A q \in Queues : t \in Elements(queues'[q]) => q = Home(t)
             /\ \A w \in Workers : worker'[w] = t => w[1] = Home(t)
  BY <1>2, <1>6 DEF Homed
<1> QED BY <1>1, <1>3, <1>4, <1>5, <1>6, StepKinds

\* A queue with one worker keeps the order of its hashed messages: when a
\* message joins,
LEMMA EnqueueOrder ==
  ASSUME DInv, NEW b \in Callers, Enqueue(b) PROVE InOrder'
<1> SUFFICES ASSUME NEW t \in Hashed, NEW u \in Hashed, Home(t) = Home(u),
                    WorkersOf(Home(t)) = 1
             PROVE  /\ Before(queues'[Home(t)], t, u) => Before(accepted', t, u)
                    /\ t \in InWork' /\ u \in Elements(queues'[Home(t)]) => Before(accepted', t, u)
                    /\ t \in Finished' /\ u \in InWork' => Before(accepted', t, u)
                    /\ t \in Finished' /\ u \in Elements(queues'[Home(t)]) => Before(accepted', t, u)
                    /\ Before(finished', t, u) => Before(accepted', t, u)
  BY DEF InOrder, Home, Hashed, Elements, Before
<1> DEFINE q == Home(t)
           x == Current(b)
           p == caller[b].q
<1>1. /\ x \in Tasks /\ p \in Queues /\ queues[p] \in Seq(Tasks)
      /\ InWork' = InWork /\ Finished' = Finished
      /\ queues'[p] = Append(queues[p], x)
      /\ \A r \in Queues \ {p} : queues'[r] = queues[r]
      /\ Elements(queues'[p]) = Elements(queues[p]) \cup {x}
  BY EnqueueMoves DEF DInv, DispatcherTypeOK
<1>2. accepted' = Append(accepted, x) /\ accepted \in Seq(Tasks) /\ finished' = finished
  BY DEF Enqueue, DInv, DispatcherTypeOK
<1>3. q \in Queues
  BY HomeIsQueue
<1>4. /\ Before(accepted, t, u) => Before(accepted', t, u)
      /\ t \in Elements(accepted) /\ u = x => Before(accepted', t, u)
  BY <1>1, <1>2, BeforeAppend
<1>5. /\ t \in Elements(queues[q]) \/ t \in InWork \/ t \in Finished => t \in Elements(accepted)
  BY <1>3, InQueue DEF DInv, Placed
<1>6. /\ Before(queues[q], t, u) => Before(accepted, t, u)
      /\ t \in InWork /\ u \in Elements(queues[q]) => Before(accepted, t, u)
      /\ t \in Finished /\ u \in InWork => Before(accepted, t, u)
      /\ t \in Finished /\ u \in Elements(queues[q]) => Before(accepted, t, u)
      /\ Before(finished, t, u) => Before(accepted, t, u)
  BY DEF DInv, InOrder
<1>7. u \in Elements(queues'[q]) => u \in Elements(queues[q]) \/ u = x
  BY <1>1, <1>3
<1>8. Before(queues'[q], t, u) => Before(queues[q], t, u) \/ (t \in Elements(queues[q]) /\ u = x)
  <2>1. CASE q = p
    <3>1. Before(Append(queues[p], x), t, u)
            => Before(queues[p], t, u) \/ (t \in Elements(queues[p]) /\ u = x)
      BY <1>1, BeforeAppend
    <3> QED BY <1>1, <2>1, <3>1
  <2>2. CASE q # p
    BY <1>1, <1>3, <2>2
  <2> QED BY <2>1, <2>2
<1> QED BY <1>1, <1>2, <1>4, <1>5, <1>6, <1>7, <1>8

\* is taken,
LEMMA TakeOrder ==
  ASSUME DInv, NEW w \in Workers, Take(w) PROVE InOrder'
<1> SUFFICES ASSUME NEW t \in Hashed, NEW u \in Hashed, Home(t) = Home(u),
                    WorkersOf(Home(t)) = 1
             PROVE  /\ Before(queues'[Home(t)], t, u) => Before(accepted', t, u)
                    /\ t \in InWork' /\ u \in Elements(queues'[Home(t)]) => Before(accepted', t, u)
                    /\ t \in Finished' /\ u \in InWork' => Before(accepted', t, u)
                    /\ t \in Finished' /\ u \in Elements(queues'[Home(t)]) => Before(accepted', t, u)
                    /\ Before(finished', t, u) => Before(accepted', t, u)
  BY DEF InOrder, Home, Hashed, Elements, Before
<1> DEFINE q == Home(t)
           p == w[1]
           h == Head(queues[p])
<1>1. /\ p \in Queues /\ queues[p] \in Seq(Tasks) /\ queues[p] # <<>>
      /\ h \in Elements(queues[p]) /\ queues'[p] = Tail(queues[p])
      /\ Elements(queues[p]) = {h} \cup Elements(queues'[p])
      /\ \A r \in Queues \ {p} : queues'[r] = queues[r]
      /\ InWork' = InWork \cup {h}
      /\ accepted' = accepted /\ finished' = finished
  BY TakeMoves
<1>2. q \in Queues /\ Finished' = Finished
  BY <1>1, HomeIsQueue DEF Finished
<1>3. /\ Before(queues[q], t, u) => Before(accepted, t, u)
      /\ t \in InWork /\ u \in Elements(queues[q]) => Before(accepted, t, u)
      /\ t \in Finished /\ u \in InWork => Before(accepted, t, u)
      /\ t \in Finished /\ u \in Elements(queues[q]) => Before(accepted, t, u)
      /\ Before(finished, t, u) => Before(accepted, t, u)
  BY DEF DInv, InOrder
<1>4. /\ Before(queues'[p], t, u) => Before(queues[p], t, u)
      /\ u \in Elements(queues'[p]) => Before(queues[p], h, u)
  BY <1>1, ElementsTail
<1>5. t = h \/ u = h => p = q
  BY <1>1 DEF DInv, Homed
<1>6. u \in Elements(queues'[q]) => u \in Elements(queues[q])
  BY <1>1, <1>2
<1>7. Before(queues'[q], t, u) => Before(queues[q], t, u)
  BY <1>1, <1>2, <1>4
<1>8. t = h /\ u \in Elements(queues'[q]) => Before(accepted, t, u)
  BY <1>3, <1>4, <1>5
<1>9. t \in Finished /\ u = h => Before(accepted, t, u)
  BY <1>1, <1>3, <1>5
<1> QED BY <1>1, <1>2, <1>3, <1>6, <1>7, <1>8, <1>9

\* and is finished.
LEMMA FinishOrder ==
  ASSUME DInv, NEW w \in Workers, Finish(w) PROVE InOrder'
<1> SUFFICES ASSUME NEW t \in Hashed, NEW u \in Hashed, Home(t) = Home(u),
                    WorkersOf(Home(t)) = 1
             PROVE  /\ Before(queues'[Home(t)], t, u) => Before(accepted', t, u)
                    /\ t \in InWork' /\ u \in Elements(queues'[Home(t)]) => Before(accepted', t, u)
                    /\ t \in Finished' /\ u \in InWork' => Before(accepted', t, u)
                    /\ t \in Finished' /\ u \in Elements(queues'[Home(t)]) => Before(accepted', t, u)
                    /\ Before(finished', t, u) => Before(accepted', t, u)
  BY DEF InOrder, Home, Hashed, Elements, Before
<1> DEFINE x == worker[w]
<1>1. /\ x \in Tasks /\ x \in InWork
      /\ InWork' = InWork \ {x} /\ Finished' = Finished \cup {x}
      /\ finished' = Append(finished, x) /\ finished \in Seq(Tasks)
      /\ queues' = queues /\ accepted' = accepted
  BY FinishMoves
<1>2. /\ t \in InWork /\ u \in Elements(queues[Home(t)]) => Before(accepted, t, u)
      /\ t \in Finished /\ u \in InWork => Before(accepted, t, u)
      /\ t \in Finished /\ u \in Elements(queues[Home(t)]) => Before(accepted, t, u)
      /\ Before(finished, t, u) => Before(accepted, t, u)
      /\ Before(queues[Home(t)], t, u) => Before(accepted, t, u)
  BY DEF DInv, InOrder
<1>3. ~(t = x /\ u \in InWork \ {x})
  <2> SUFFICES ASSUME t = x, u \in InWork, u # x PROVE FALSE
    OBVIOUS
  <2>1. PICK v \in Workers : worker[v] = u
    BY DEF InWork
  <2>2. v[1] = Home(u) /\ w[1] = Home(t)
    BY <2>1 DEF DInv, Homed
  <2>3. v = w
    BY <2>2, OneWorker
  <2> QED BY <2>1, <2>3
<1>4. Before(finished', t, u) => Before(finished, t, u) \/ (t \in Finished /\ u = x)
  BY <1>1, BeforeAppend DEF Finished
<1> QED BY <1>1, <1>2, <1>3, <1>4

\* The order is kept.
LEMMA InOrderKept == DInv /\ [DispatcherNext]_dispatcherVars => InOrder'
<1>1. ASSUME DInv, UNCHANGED <<queues, worker, accepted, finished>> PROVE InOrder'
  BY <1>1 DEF DInv, InOrder, InWork, Finished
<1> QED BY <1>1, StepKinds, EnqueueOrder, TakeOrder, FinishOrder

-----------------------------------------------------------------------------
(* The theorems.                                                           *)

\* DInv is inductive.
THEOREM DispatcherInvariant == DispatcherSpec => []DInv
<1>1. DispatcherInit => DInv
  BY InitDInv
<1>2. DInv /\ [DispatcherNext]_dispatcherVars => DInv'
  BY TypesKept, AtMessageKept, FreshKept, ApartKept, HomedKept, InOrderKept, PlacedKept,
     TalliedKept DEF DInv
<1> QED BY <1>1, <1>2, PTL DEF DispatcherSpec

\* A queue never holds more than its capacity, whatever callers, workers and
\* Stop do.
THEOREM DispatcherTypeCorrect == DispatcherSpec => []DispatcherTypeOK
<1>1. DInv => DispatcherTypeOK
  BY DEF DInv
<1> QED BY <1>1, DispatcherInvariant, PTL

\* Every message a queue took is in one place and is finished at most once,
\* and messages with one hash finish in the order they were taken when one
\* worker serves their queue.
THEOREM TasksAlwaysKept == DispatcherSpec => []TasksAreKept
<1>1. ASSUME DInv PROVE EachTaskOnce
  BY <1>1 DEF DInv, Placed, Tallied, EachTaskOnce
<1>2. ASSUME DInv PROVE OneWorkerKeepsOrder
  BY <1>2 DEF DInv, InOrder, OneWorkerKeepsOrder, Home
<1>3. DInv => TasksAreKept
  BY <1>1, <1>2 DEF DInv, TasksAreKept
<1> QED BY <1>3, DispatcherInvariant, PTL
=============================================================================
