--------------------------- MODULE CommandProofs ---------------------------
(***************************************************************************)
(* Commands to many clients: a multicast, for any number of clients, and a *)
(* batch job, for any number of clients, tokens and retries.               *)
(***************************************************************************)
EXTENDS CommandManager, BatchExecutor, FiniteSetTheorems, TLAPS

-----------------------------------------------------------------------------
(* CommandManager.                                                         *)

Completed(r) == {i \in Clients : r[i] = "completed"}
Cancelled(r) == {i \in Clients : r[i] = "cancelled"}
Ended == main \in {"done", "returning", "returned"}

\* The types, but for the counters.
Typed ==
  /\ main \in {"launching", "joining", "done", "returning", "returned"}
  /\ launch \in 1 .. N + 1
  /\ worker \in [Clients -> {"none", "started", "sending", "sent", "polling",
                             "seen", "finished"}]
  /\ final \in [Clients -> Status]
  /\ results \in [Clients -> Status \cup {"nil"}]
  /\ success \in Nat
  /\ cancelled \in Nat
  /\ cmd \in [Clients -> Status \cup {"none", "gone"}]
  /\ promise \in [Clients -> {"none", "open", "success", "failure", "error", "taken"}]
  /\ exec \in [Clients -> {"none", "sent", "ok", "err", "refused"}]
  /\ task \in {"running", "completed", "cancelled"}
  /\ listed \subseteq Clients
  /\ canceller \in {"idle", "marked", "fired", "updating", "returned"}
  /\ todo \subseteq Clients
  /\ checked \in 0 .. N
  /\ fired \in BOOLEAN
  /\ stopped \in BOOLEAN

\* A worker's client has a result when the worker has finished, or when the
\* loop was cut short before it; its command is known while it is under way.
Worked ==
  \A i \in Clients :
    /\ i >= launch => worker[i] = "none"
    /\ i < launch => worker[i] # "none"
    /\ results[i] # "nil" => worker[i] = "finished" \/ (Ended /\ i >= launch)
    /\ worker[i] = "finished" => results[i] # "nil"
    /\ worker[i] \in {"none", "started", "sending"} => exec[i] = "none" /\ promise[i] = "none"
    /\ worker[i] \in {"sending", "sent", "polling", "seen"} => cmd[i] \in Status

\* Every record of a completion rests on an execution.
Executed ==
  \A i \in Clients :
    \/ promise[i] = "success" \/ cmd[i] = "completed" \/ final[i] = "completed"
    \/ results[i] = "completed" \/ resp.results[i] = "completed"
    => exec[i] \in {"ok", "err"}

\* The counters count results.
Counted ==
  /\ success = Cardinality(Completed(results))
  /\ cancelled <= Cardinality(Cancelled(results))

\* What the caller takes along.
Responded ==
  /\ Ended /\ launch = N + 1 => \A i \in Clients : results[i] # "nil"
  /\ resp \in [success : 0 .. N, cancelled : 0 .. N,
               results : [Clients -> Status \cup {"nil"}]]
  /\ main \in {"returning", "returned"} =>
       /\ resp.success = Cardinality(Completed(resp.results))
       /\ launch = N + 1 => \A i \in Clients : resp.results[i] # "nil"

CInv == Typed /\ Worked /\ Executed /\ Counted /\ Responded

-----------------------------------------------------------------------------
(* Every conjunct of CInv is preserved by every step.                      *)

\* A multicast that starts satisfies the invariant.
LEMMA InitCInv == Init => CInv
<1> SUFFICES ASSUME Init PROVE CInv
  OBVIOUS
<1> USE CommandAssumption DEF Init
<1>1. Typed
  <2>1. launch \in 1 .. N + 1 /\ checked \in 0 .. N /\ success \in Nat /\ cancelled \in Nat
    OBVIOUS
  <2>2. /\ worker \in [Clients -> {"none", "started", "sending", "sent", "polling",
                                   "seen", "finished"}]
        /\ final \in [Clients -> Status] /\ results \in [Clients -> Status \cup {"nil"}]
        /\ cmd \in [Clients -> Status \cup {"none", "gone"}]
        /\ promise \in [Clients -> {"none", "open", "success", "failure", "error", "taken"}]
        /\ exec \in [Clients -> {"none", "sent", "ok", "err", "refused"}]
    BY DEF Status
  <2> QED BY <2>1, <2>2 DEF Typed
<1>2. Worked /\ Executed
  BY DEF Worked, Executed, Ended, Clients, NoResponse
<1>3. Completed(results) = {} /\ Cancelled(results) = {}
  BY DEF Completed, Cancelled
<1>4. Counted
  BY <1>3, FS_EmptySet DEF Counted
<1>5. Responded
  BY DEF Responded, Ended, NoResponse, Clients
<1> QED BY <1>1, <1>2, <1>4, <1>5 DEF CInv

\* The types are kept.
LEMMA TypedKept == CInv /\ [Next]_vars => Typed'
<1> SUFFICES ASSUME CInv, [Next]_vars PROVE Typed'
  OBVIOUS
<1> USE CommandAssumption DEF CInv, Typed, Worked, Status, Terminal, Finish,
        updateCommandStatus, StatusOf, client, taskVars, Clients
<1>1. CASE Launch BY <1>1 DEF Launch
<1>2. CASE CutShort BY <1>2 DEF CutShort
<1>3. CASE LaunchedAll BY <1>3 DEF LaunchedAll
<1>4. CASE Join BY <1>4 DEF Join
<1>5. CASE Respond BY <1>5 DEF Respond
<1>6. CASE Return BY <1>6 DEF Return
<1>7. CASE MarkCancelled BY <1>7 DEF MarkCancelled
<1>8. CASE CancelFunc BY <1>8 DEF CancelFunc
<1>9. CASE CopyIDs BY <1>9 DEF CopyIDs
<1>10. CASE CancelChecked BY <1>10 DEF CancelChecked
<1>11. CASE CancelReturns BY <1>11 DEF CancelReturns
<1>12. CASE Stop BY <1>12 DEF Stop
<1>13. ASSUME NEW i \in Clients, CancelledEarly(i) PROVE Typed'
  BY <1>13 DEF CancelledEarly
<1>14. ASSUME NEW i \in Clients, SendCommand(i) PROVE Typed'
  BY <1>14 DEF SendCommand
<1>15. ASSUME NEW i \in Clients, SendFails(i) PROVE Typed'
  BY <1>15 DEF SendFails
<1>16. ASSUME NEW i \in Clients, Sent(i) PROVE Typed'
  BY <1>16 DEF Sent
<1>17. ASSUME NEW i \in Clients, List(i) PROVE Typed'
  BY <1>17 DEF List
<1>18. ASSUME NEW i \in Clients, Poll(i) PROVE Typed'
  BY <1>18 DEF Poll
<1>19. ASSUME NEW i \in Clients, PollStops(i) PROVE Typed'
  BY <1>19 DEF PollStops
<1>20. ASSUME NEW i \in Clients, Report(i) PROVE Typed'
  BY <1>20 DEF Report
<1>21. ASSUME NEW i \in Clients, ReportCancelled(i) PROVE Typed'
  BY <1>21 DEF ReportCancelled
<1>22. ASSUME NEW i \in Clients, Execute(i) PROVE Typed'
  BY <1>22 DEF Execute
<1>23. ASSUME NEW i \in Clients, AckExecuted(i) PROVE Typed'
  BY <1>23 DEF AckExecuted
<1>24. ASSUME NEW i \in Clients, AckFailure(i) PROVE Typed'
  BY <1>24 DEF AckFailure
<1>25. ASSUME NEW i \in Clients, Expire(i) PROVE Typed'
  BY <1>25 DEF Expire
<1>26. ASSUME NEW i \in Clients, AnswerArrives(i) PROVE Typed'
  BY <1>26 DEF AnswerArrives
<1>27. ASSUME NEW i \in Clients, WaiterStops(i) PROVE Typed'
  BY <1>27 DEF WaiterStops
<1>28. ASSUME NEW i \in Clients, Cleanup(i) PROVE Typed'
  BY <1>28 DEF Cleanup
<1>29. ASSUME NEW i \in Clients, CheckCommand(i) PROVE Typed'
  BY <1>29 DEF CheckCommand
<1>30. CASE UNCHANGED vars BY <1>30 DEF vars
<1> QED BY <1>1, <1>2, <1>3, <1>4, <1>5, <1>6, <1>7, <1>8, <1>9, <1>10, <1>11, <1>12,
        <1>13, <1>14, <1>15, <1>16, <1>17, <1>18, <1>19, <1>20, <1>21, <1>22, <1>23,
        <1>24, <1>25, <1>26, <1>27, <1>28, <1>29, <1>30 DEF Next, Caller, Worker,
        Client, Waiter, Canceller

\* Workers and results go together.
LEMMA WorkedKept == CInv /\ [Next]_vars => Worked'
<1> SUFFICES ASSUME CInv, [Next]_vars PROVE Worked'
  OBVIOUS
<1> USE CommandAssumption DEF CInv, Typed, Worked, Ended, Status, Terminal, Finish,
        updateCommandStatus, StatusOf, client, taskVars, Clients
<1>1. CASE Launch BY <1>1 DEF Launch
<1>2. CASE CutShort BY <1>2 DEF CutShort
<1>3. CASE LaunchedAll BY <1>3 DEF LaunchedAll
<1>4. CASE Join BY <1>4 DEF Join
<1>5. CASE Respond BY <1>5 DEF Respond
<1>6. CASE Return BY <1>6 DEF Return
<1>7. CASE MarkCancelled BY <1>7 DEF MarkCancelled
<1>8. CASE CancelFunc BY <1>8 DEF CancelFunc
<1>9. CASE CopyIDs BY <1>9 DEF CopyIDs
<1>10. CASE CancelChecked BY <1>10 DEF CancelChecked
<1>11. CASE CancelReturns BY <1>11 DEF CancelReturns
<1>12. CASE Stop BY <1>12 DEF Stop
<1>13. ASSUME NEW i \in Clients, CancelledEarly(i) PROVE Worked'
  BY <1>13 DEF CancelledEarly
<1>14. ASSUME NEW i \in Clients, SendCommand(i) PROVE Worked'
  BY <1>14 DEF SendCommand
<1>15. ASSUME NEW i \in Clients, SendFails(i) PROVE Worked'
  BY <1>15 DEF SendFails
<1>16. ASSUME NEW i \in Clients, Sent(i) PROVE Worked'
  BY <1>16 DEF Sent
<1>17. ASSUME NEW i \in Clients, List(i) PROVE Worked'
  BY <1>17 DEF List
<1>18. ASSUME NEW i \in Clients, Poll(i) PROVE Worked'
  BY <1>18 DEF Poll
<1>19. ASSUME NEW i \in Clients, PollStops(i) PROVE Worked'
  BY <1>19 DEF PollStops
<1>20. ASSUME NEW i \in Clients, Report(i) PROVE Worked'
  BY <1>20 DEF Report
<1>21. ASSUME NEW i \in Clients, ReportCancelled(i) PROVE Worked'
  BY <1>21 DEF ReportCancelled
<1>22. ASSUME NEW i \in Clients, Execute(i) PROVE Worked'
  BY <1>22 DEF Execute
<1>23. ASSUME NEW i \in Clients, AckExecuted(i) PROVE Worked'
  BY <1>23 DEF AckExecuted
<1>24. ASSUME NEW i \in Clients, AckFailure(i) PROVE Worked'
  BY <1>24 DEF AckFailure
<1>25. ASSUME NEW i \in Clients, Expire(i) PROVE Worked'
  BY <1>25 DEF Expire
<1>26. ASSUME NEW i \in Clients, AnswerArrives(i) PROVE Worked'
  BY <1>26 DEF AnswerArrives
<1>27. ASSUME NEW i \in Clients, WaiterStops(i) PROVE Worked'
  BY <1>27 DEF WaiterStops
<1>28. ASSUME NEW i \in Clients, Cleanup(i) PROVE Worked'
  BY <1>28 DEF Cleanup
<1>29. ASSUME NEW i \in Clients, CheckCommand(i) PROVE Worked'
  BY <1>29 DEF CheckCommand
<1>30. CASE UNCHANGED vars BY <1>30 DEF vars
<1> QED BY <1>1, <1>2, <1>3, <1>4, <1>5, <1>6, <1>7, <1>8, <1>9, <1>10, <1>11, <1>12,
        <1>13, <1>14, <1>15, <1>16, <1>17, <1>18, <1>19, <1>20, <1>21, <1>22, <1>23,
        <1>24, <1>25, <1>26, <1>27, <1>28, <1>29, <1>30 DEF Next, Caller, Worker,
        Client, Waiter, Canceller

\* Whoever says completed relies on one who knew.
LEMMA ExecutedKept == CInv /\ [Next]_vars => Executed'
<1> SUFFICES ASSUME CInv, [Next]_vars PROVE Executed'
  OBVIOUS
<1> USE DEF CInv, Typed, Worked, Executed, Responded, Status, Terminal, Finish,
        updateCommandStatus, StatusOf, client, taskVars
<1>1. CASE Launch BY <1>1 DEF Launch
<1>2. CASE CutShort BY <1>2 DEF CutShort
<1>3. CASE LaunchedAll BY <1>3 DEF LaunchedAll
<1>4. CASE Join BY <1>4 DEF Join
<1>5. CASE Respond BY <1>5 DEF Respond
<1>6. CASE Return BY <1>6 DEF Return
<1>7. CASE MarkCancelled BY <1>7 DEF MarkCancelled
<1>8. CASE CancelFunc BY <1>8 DEF CancelFunc
<1>9. CASE CopyIDs BY <1>9 DEF CopyIDs
<1>10. CASE CancelChecked BY <1>10 DEF CancelChecked
<1>11. CASE CancelReturns BY <1>11 DEF CancelReturns
<1>12. CASE Stop BY <1>12 DEF Stop
<1>13. ASSUME NEW i \in Clients, CancelledEarly(i) PROVE Executed'
  BY <1>13 DEF CancelledEarly
<1>14. ASSUME NEW i \in Clients, SendCommand(i) PROVE Executed'
  BY <1>14 DEF SendCommand
<1>15. ASSUME NEW i \in Clients, SendFails(i) PROVE Executed'
  BY <1>15 DEF SendFails
<1>16. ASSUME NEW i \in Clients, Sent(i) PROVE Executed'
  BY <1>16 DEF Sent
<1>17. ASSUME NEW i \in Clients, List(i) PROVE Executed'
  BY <1>17 DEF List
<1>18. ASSUME NEW i \in Clients, Poll(i) PROVE Executed'
  BY <1>18 DEF Poll
<1>19. ASSUME NEW i \in Clients, PollStops(i) PROVE Executed'
  BY <1>19 DEF PollStops
<1>20. ASSUME NEW i \in Clients, Report(i) PROVE Executed'
  BY <1>20 DEF Report
<1>21. ASSUME NEW i \in Clients, ReportCancelled(i) PROVE Executed'
  BY <1>21 DEF ReportCancelled
<1>22. ASSUME NEW i \in Clients, Execute(i) PROVE Executed'
  BY <1>22 DEF Execute
<1>23. ASSUME NEW i \in Clients, AckExecuted(i) PROVE Executed'
  BY <1>23 DEF AckExecuted
<1>24. ASSUME NEW i \in Clients, AckFailure(i) PROVE Executed'
  BY <1>24 DEF AckFailure
<1>25. ASSUME NEW i \in Clients, Expire(i) PROVE Executed'
  BY <1>25 DEF Expire
<1>26. ASSUME NEW i \in Clients, AnswerArrives(i) PROVE Executed'
  BY <1>26 DEF AnswerArrives
<1>27. ASSUME NEW i \in Clients, WaiterStops(i) PROVE Executed'
  BY <1>27 DEF WaiterStops
<1>28. ASSUME NEW i \in Clients, Cleanup(i) PROVE Executed'
  BY <1>28 DEF Cleanup
<1>29. ASSUME NEW i \in Clients, CheckCommand(i) PROVE Executed'
  BY <1>29 DEF CheckCommand
<1>30. CASE UNCHANGED vars BY <1>30 DEF vars
<1> QED BY <1>1, <1>2, <1>3, <1>4, <1>5, <1>6, <1>7, <1>8, <1>9, <1>10, <1>11, <1>12,
        <1>13, <1>14, <1>15, <1>16, <1>17, <1>18, <1>19, <1>20, <1>21, <1>22, <1>23,
        <1>24, <1>25, <1>26, <1>27, <1>28, <1>29, <1>30 DEF Next, Caller, Worker,
        Client, Waiter, Canceller

\* Clients that have no result yet get one.
LEMMA AddResult ==
  ASSUME NEW r \in [Clients -> Status \cup {"nil"}], NEW i \in Clients, r[i] = "nil",
         NEW s \in Status
  PROVE  LET q == [r EXCEPT ![i] = s]
         IN  /\ s = "completed" => Cardinality(Completed(q)) = Cardinality(Completed(r)) + 1
             /\ s # "completed" => Completed(q) = Completed(r)
             /\ s = "cancelled" => Cardinality(Cancelled(q)) = Cardinality(Cancelled(r)) + 1
             /\ s # "cancelled" => Cancelled(q) = Cancelled(r)
<1> DEFINE q == [r EXCEPT ![i] = s]
<1>1. q[i] = s /\ \A j \in Clients \ {i} : q[j] = r[j]
  OBVIOUS
<1>2. IsFiniteSet(Completed(r)) /\ IsFiniteSet(Cancelled(r))
  <2>1. IsFiniteSet(Clients)
    BY FS_Interval, CommandAssumption DEF Clients
  <2>2. Completed(r) \subseteq Clients /\ Cancelled(r) \subseteq Clients
    BY DEF Completed, Cancelled
  <2> QED BY <2>1, <2>2, FS_Subset
<1>3. s = "completed" => Completed(q) = Completed(r) \cup {i} /\ i \notin Completed(r)
  BY <1>1 DEF Completed
<1>4. s = "cancelled" => Cancelled(q) = Cancelled(r) \cup {i} /\ i \notin Cancelled(r)
  BY <1>1 DEF Cancelled
<1>5. s # "completed" => Completed(q) = Completed(r)
  BY <1>1 DEF Completed
<1>6. s # "cancelled" => Cancelled(q) = Cancelled(r)
  BY <1>1 DEF Cancelled
<1>7. s = "completed" => Cardinality(Completed(q)) = Cardinality(Completed(r)) + 1
  BY <1>2, <1>3, FS_AddElement
<1>8. s = "cancelled" => Cardinality(Cancelled(q)) = Cardinality(Cancelled(r)) + 1
  BY <1>2, <1>4, FS_AddElement
<1> QED BY <1>5, <1>6, <1>7, <1>8

\* How results come about: one by a worker, or all that were not launched.
LEMMA ResultSteps ==
  ASSUME CInv, [Next]_vars
  PROVE  \/ results' = results /\ success' = success /\ cancelled' = cancelled
         \/ CutShort
         \/ \E i \in Clients, s \in Status :
              /\ results[i] = "nil" /\ results' = [results EXCEPT ![i] = s]
              /\ success' = IF s = "completed" THEN success + 1 ELSE success
              /\ cancelled' = cancelled \/ (s = "cancelled" /\ cancelled' = cancelled + 1)
<1> DEFINE Same == results' = results /\ success' = success /\ cancelled' = cancelled
           New(i, s) == /\ results[i] = "nil" /\ results' = [results EXCEPT ![i] = s]
                        /\ success' = IF s = "completed" THEN success + 1 ELSE success
                        /\ cancelled' = cancelled \/ (s = "cancelled" /\ cancelled' = cancelled + 1)
<1>1. ASSUME NEW i \in Clients, worker[i] # "finished", i < launch PROVE results[i] = "nil"
  BY <1>1, CommandAssumption DEF CInv, Worked, Typed, Clients
<1>2. ASSUME NEW i \in Clients, worker[i] \notin {"none", "finished"} PROVE results[i] = "nil"
  BY <1>1, <1>2, CommandAssumption DEF CInv, Worked, Typed, Clients
<1>3. {"failed", "cancelled", "completed"} \subseteq Status
  BY DEF Status, Terminal
<1>4. ASSUME NEW i \in Clients, CancelledEarly(i) PROVE New(i, "cancelled")
  BY <1>2, <1>4 DEF CancelledEarly, Finish
<1>5. ASSUME NEW i \in Clients, SendFails(i) PROVE New(i, "failed")
  BY <1>2, <1>5 DEF SendFails, Finish
<1>6. ASSUME NEW i \in Clients, PollStops(i) \/ ReportCancelled(i) PROVE New(i, "cancelled")
  BY <1>2, <1>6 DEF PollStops, ReportCancelled, Finish
<1>7. ASSUME NEW i \in Clients, Report(i) PROVE New(i, final[i])
  BY <1>2, <1>7 DEF Report, Finish
<1>8. \A i \in Clients : final[i] \in Status
  BY DEF CInv, Typed
<1>9. ASSUME NEW i \in Clients, SendCommand(i) \/ Sent(i) \/ List(i) \/ Poll(i) PROVE Same
  BY <1>9 DEF SendCommand, Sent, List, Poll
<1>10. ASSUME NEW i \in Clients, Client(i) \/ Expire(i) \/ Waiter(i) \/ Cleanup(i) PROVE Same
  BY <1>10 DEF Client, Execute, AckExecuted, AckFailure, Expire, Waiter, AnswerArrives,
               WaiterStops, Cleanup
<1>11. Canceller \/ Stop => Same
  BY DEF Canceller, MarkCancelled, CancelFunc, CopyIDs, CheckCommand, CancelChecked,
         CancelReturns, Stop
<1>12. Caller => Same \/ CutShort
  BY DEF Caller, Launch, LaunchedAll, Join, Respond, Return
<1>13. UNCHANGED vars => Same
  BY DEF vars
<1>14. (\E i \in Clients : Worker(i)) => Same \/ \E i \in Clients, s \in Status : New(i, s)
  BY <1>3, <1>4, <1>5, <1>6, <1>7, <1>8, <1>9 DEF Worker
<1> QED BY <1>10, <1>11, <1>12, <1>13, <1>14 DEF Next

\* The counters count, whether the loop is cut short or not.
LEMMA CountedKept == CInv /\ [Next]_vars => Counted'
<1> SUFFICES ASSUME CInv, [Next]_vars PROVE Counted'
  OBVIOUS
<1> USE DEF Counted
<1>1. /\ results \in [Clients -> Status \cup {"nil"}] /\ success \in Nat /\ cancelled \in Nat
      /\ success = Cardinality(Completed(results))
      /\ cancelled <= Cardinality(Cancelled(results))
  BY DEF CInv, Typed
<1>2. \A r : /\ IsFiniteSet(Completed(r)) /\ IsFiniteSet(Cancelled(r))
             /\ Cardinality(Completed(r)) \in Nat /\ Cardinality(Cancelled(r)) \in Nat
  <2>1. IsFiniteSet(Clients)
    BY FS_Interval, CommandAssumption DEF Clients
  <2>2. \A r : Completed(r) \subseteq Clients /\ Cancelled(r) \subseteq Clients
    BY DEF Completed, Cancelled
  <2>3. \A r : IsFiniteSet(Completed(r)) /\ IsFiniteSet(Cancelled(r))
    BY <2>1, <2>2, FS_Subset
  <2> QED BY <2>3, FS_CardinalityType
<1>3. CASE results' = results /\ success' = success /\ cancelled' = cancelled
  BY <1>1, <1>3
<1>4. CASE CutShort
  <2>1. /\ launch \in 1 .. N /\ N \in Nat /\ success' = success /\ cancelled' = N - launch + 1
        /\ results' = [i \in Clients |-> IF i >= launch THEN "cancelled" ELSE results[i]]
    BY <1>4, CommandAssumption DEF CutShort, CInv, Typed
  <2>2. \A i \in Clients : i >= launch => results[i] = "nil"
    BY <1>4 DEF CutShort, CInv, Worked, Ended
  <2>3. Completed(results') = Completed(results)
    BY <2>1, <2>2 DEF Completed
  <2>4. launch .. N \subseteq Cancelled(results')
    BY <2>1 DEF Cancelled, Clients
  <2>5. Cardinality(launch .. N) = N - launch + 1
    BY <2>1, FS_Interval
  <2>6. Cardinality(launch .. N) <= Cardinality(Cancelled(results'))
    BY <1>2, <2>4, FS_Subset
  <2> QED BY <1>1, <2>1, <2>3, <2>5, <2>6
<1>5. ASSUME NEW i \in Clients, NEW s \in Status,
             results[i] = "nil", results' = [results EXCEPT ![i] = s],
             success' = IF s = "completed" THEN success + 1 ELSE success,
             cancelled' = cancelled \/ (s = "cancelled" /\ cancelled' = cancelled + 1)
      PROVE  Counted'
  <2>1. /\ s = "completed" => Cardinality(Completed(results')) = Cardinality(Completed(results)) + 1
        /\ s # "completed" => Completed(results') = Completed(results)
        /\ s = "cancelled" => Cardinality(Cancelled(results')) = Cardinality(Cancelled(results)) + 1
        /\ s # "cancelled" => Cancelled(results') = Cancelled(results)
    BY <1>1, <1>5, AddResult
  <2>2. success' = Cardinality(Completed(results'))
    BY <1>1, <1>2, <1>5, <2>1
  <2>3. cancelled' <= Cardinality(Cancelled(results'))
    BY <1>1, <1>2, <1>5, <2>1
  <2> QED BY <2>2, <2>3
<1> QED BY <1>3, <1>4, <1>5, ResultSteps

\* The clients that completed and those that were cancelled are different ones.
LEMMA CountersFit == CInv => success + cancelled <= N /\ success \in 0 .. N /\ cancelled \in 0 .. N
<1> SUFFICES ASSUME CInv PROVE success + cancelled <= N /\ success \in 0 .. N /\ cancelled \in 0 .. N
  OBVIOUS
<1> DEFINE A == Completed(results)
           B == Cancelled(results)
<1>1. A \subseteq Clients /\ B \subseteq Clients /\ A \cap B = {}
  BY DEF Completed, Cancelled
<1>2. IsFiniteSet(Clients) /\ Cardinality(Clients) = N /\ N \in Nat
  BY FS_Interval, CommandAssumption DEF Clients
<1>3. /\ IsFiniteSet(A) /\ IsFiniteSet(B) /\ Cardinality(A) \in Nat /\ Cardinality(B) \in Nat
  BY <1>1, <1>2, FS_Subset, FS_CardinalityType
<1>4. Cardinality(A \cup B) = Cardinality(A) + Cardinality(B)
  BY <1>1, <1>3, FS_Union, FS_EmptySet
<1>5. Cardinality(A \cup B) <= N
  BY <1>1, <1>2, FS_Subset
<1>6. success = Cardinality(A) /\ cancelled <= Cardinality(B) /\ success \in Nat /\ cancelled \in Nat
  BY DEF CInv, Counted, Typed
<1> QED BY <1>2, <1>3, <1>4, <1>5, <1>6

\* Only Respond makes a response, and nothing is launched after it.
LEMMA RespondSteps ==
  ASSUME CInv, [Next]_vars, ~Respond
  PROVE  /\ resp' = resp
         /\ main' \in {"returning", "returned"} => main \in {"returning", "returned"}
         /\ launch' = N + 1 /\ Ended' => launch = N + 1 /\ (Ended \/ Join)
<1>1. ASSUME NEW i \in Clients, Worker(i) \/ Client(i) \/ Expire(i) \/ Waiter(i) \/ Cleanup(i)
      PROVE resp' = resp /\ main' = main /\ launch' = launch
  BY <1>1 DEF Worker, CancelledEarly, SendCommand, SendFails, Sent, List, Poll, PollStops,
              Report, ReportCancelled, Client, Execute, AckExecuted, AckFailure, Expire,
              Waiter, AnswerArrives, WaiterStops, Cleanup
<1>2. Canceller \/ Stop => resp' = resp /\ main' = main /\ launch' = launch
  BY DEF Canceller, MarkCancelled, CancelFunc, CopyIDs, CheckCommand, CancelChecked,
         CancelReturns, Stop
<1>3. CASE Launch \/ LaunchedAll \/ Return
  BY <1>3 DEF Launch, LaunchedAll, Return, Ended
<1>4. CASE CutShort
  BY <1>4, CommandAssumption DEF CutShort, CInv, Typed
<1>5. CASE Join
  BY <1>5 DEF Join
<1> QED BY <1>1, <1>2, <1>3, <1>4, <1>5 DEF Next, Caller, vars, Ended

\* The response has what there was when it was made.
LEMMA RespondedKept == CInv /\ [Next]_vars => Responded'
<1> SUFFICES ASSUME CInv, [Next]_vars PROVE Responded'
  OBVIOUS
<1>1. ASSUME Ended', launch' = N + 1, NEW i \in Clients PROVE results'[i] # "nil"
  <2>1. CASE Respond
    BY <1>1, <2>1 DEF Respond, CInv, Responded, Ended
  <2>2. CASE Join
    BY <2>2 DEF Join, CInv, Worked
  <2>3. ASSUME launch = N + 1, Ended PROVE results'[i] # "nil"
    <3>1. results[i] # "nil"
      BY <2>3 DEF CInv, Responded
    <3>2. ~CutShort
      BY <2>3 DEF CutShort, Ended
    <3>3. ASSUME NEW j \in Clients, NEW s \in Status, results' = [results EXCEPT ![j] = s]
          PROVE results'[i] # "nil"
      BY <3>1, <3>3 DEF CInv, Typed, Status, Terminal
    <3> QED BY <3>1, <3>2, <3>3, ResultSteps
  <2> QED BY <1>1, <2>1, <2>2, <2>3, RespondSteps
<1>2. CASE Respond
  <2>1. /\ resp' = [success |-> success, cancelled |-> cancelled, results |-> results]
        /\ results' = results /\ launch' = launch
    BY <1>2 DEF Respond
  <2>2. success \in 0 .. N /\ cancelled \in 0 .. N
    BY CountersFit
  <2>3. resp' \in [success : 0 .. N, cancelled : 0 .. N,
                   results : [Clients -> Status \cup {"nil"}]]
    BY <2>1, <2>2 DEF CInv, Typed
  <2>4. resp'.success = Cardinality(Completed(resp'.results))
    BY <2>1 DEF CInv, Counted
  <2>5. launch' = N + 1 => \A i \in Clients : resp'.results[i] # "nil"
    BY <1>2, <2>1 DEF Respond, CInv, Responded, Ended
  <2> QED BY <1>1, <2>3, <2>4, <2>5 DEF Responded
<1>3. CASE ~Respond
  <2>1. /\ resp' = resp
        /\ main' \in {"returning", "returned"} => main \in {"returning", "returned"}
        /\ launch' = N + 1 /\ Ended' => launch = N + 1
    BY <1>3, RespondSteps
  <2> QED BY <1>1, <2>1 DEF CInv, Responded, Ended
<1> QED BY <1>2, <1>3

-----------------------------------------------------------------------------
(* The theorems.                                                           *)

\* CInv is inductive.
THEOREM CommandInvariant == Spec => []CInv
<1>1. Init => CInv
  BY InitCInv
<1>2. CInv /\ [Next]_vars => CInv'
  BY TypedKept, WorkedKept, ExecutedKept, CountedKept, RespondedKept DEF CInv
<1> QED BY <1>1, <1>2, PTL DEF Spec

\* Every variable keeps its type: no counter passes the number of clients.
THEOREM CommandTypeCorrect == Spec => []TypeOK
<1>1. CInv => TypeOK
  BY CountersFit DEF CInv, Typed, Responded, TypeOK
<1> QED BY <1>1, CommandInvariant, PTL

\* No client is counted twice, also when the loop that cuts a multicast short
\* sets the counter that workers still add to: failedCount, the rest, is never
\* negative.
THEOREM NoneCountedTwice == Spec => []CountedOnce
<1>1. CInv => CountedOnce
  BY CountersFit DEF CountedOnce
<1> QED BY <1>1, CommandInvariant, PTL

\* What a caller is told is true for any number of clients: completed was
\* executed, a full success lists everybody, and a response after every launch
\* is exact.
THEOREM AnswersAlwaysTrue == Spec => []AnswersAreTrue
<1>1. ASSUME CInv PROVE TypeOK
  BY <1>1, CountersFit DEF CInv, Typed, Responded, TypeOK
<1>2. ASSUME CInv PROVE CompletedWasExecuted
  BY <1>2 DEF CInv, Executed, CompletedWasExecuted
<1>3. ASSUME CInv PROVE LaunchedIsExact
  BY <1>3 DEF CInv, Responded, LaunchedIsExact, Completed
<1>4. ASSUME CInv PROVE SuccessIsComplete
  <2> SUFFICES ASSUME main \in {"returning", "returned"}, resp.success = N, NEW i \in Clients
               PROVE  resp.results[i] = "completed"
    BY DEF SuccessIsComplete
  <2>1. Cardinality(Completed(resp.results)) = N
    BY <1>4 DEF CInv, Responded
  <2>2. IsFiniteSet(Clients) /\ Cardinality(Clients) = N
    BY FS_Interval, CommandAssumption DEF Clients
  <2>3. Completed(resp.results) = Clients
    BY <2>1, <2>2, FS_Subset DEF Completed
  <2> QED BY <2>3 DEF Completed
<1>5. CInv => AnswersAreTrue
  BY <1>1, <1>2, <1>3, <1>4 DEF AnswersAreTrue
<1> QED BY <1>5, CommandInvariant, PTL

-----------------------------------------------------------------------------
(* BatchExecutor.                                                          *)

Served     == {i \in BatchClients : taskWorker[i] \notin {"none", "finished"}}
Unfinished == {i \in BatchClients : taskWorker[i] # "finished"}
Won        == {i \in BatchClients : jobResults[i] = "success"}
Lost       == {i \in BatchClients : jobResults[i] = "failure"}

AllFinished == \A i \in BatchClients : taskWorker[i] = "finished"

\* The types, but for the bounds that follow from the rest.
BatchTyped ==
  /\ status \in JobEnded \cup {"pending", "running"}
  /\ step \in {"created", "launching", "joining", "ending", "ended", "gone"}
  /\ next \in 1 .. BatchSize + 1
  /\ wait \in BOOLEAN
  /\ expired \in BOOLEAN
  /\ sem \in Int
  /\ taskWorker \in [BatchClients -> {"none", "attempt", "waiting", "sleeping", "won",
                             "lost", "counted", "finished"}]
  /\ retry \in [BatchClients -> 0 .. MaxRetries]
  /\ answer \in [BatchClients -> {"none", "open", "success", "failure"}]
  /\ current \in [BatchClients -> BOOLEAN]
  /\ old \in [BatchClients -> Nat]
  /\ runs \in [BatchClients -> Nat]
  /\ jobResults \in [BatchClients -> {"nil", "success", "failure"}]
  /\ succeeded \in Int
  /\ failed \in Int
  /\ pending \in Int
  /\ caller \in {"polling", "returned"}
  /\ jobCancelled \in BOOLEAN

\* Messages delivered or on the way, against attempts made.
Attempted ==
  \A i \in BatchClients :
    /\ runs[i] + old[i] + (IF current[i] THEN 1 ELSE 0)
         <= retry[i] + (IF taskWorker[i] \in {"none", "attempt", "sleeping"} THEN 0 ELSE 1)
    /\ old[i] <= retry[i]

\* Who claims a success has executed.
Earned ==
  wait => \A i \in BatchClients :
    answer[i] = "success" \/ taskWorker[i] = "won" \/ jobResults[i] = "success" => runs[i] > 0

\* Where the worker is and what it has recorded.
Recorded ==
  \A i \in BatchClients :
    /\ jobResults[i] # "nil" <=> taskWorker[i] \in {"counted", "finished"}
    /\ i >= next => taskWorker[i] = "none"

\* Tokens and counters are what they count.
Tallied ==
  /\ sem = Cardinality(Served)
  /\ sem <= MaxConcurrency
  /\ pending = Cardinality(Unfinished)
  /\ succeeded = Cardinality(Won)
  /\ failed = Cardinality(Lost)

\* What the job's own goroutine knows when it ends.
Concluded ==
  /\ step = "created" => status \in {"pending", "cancelled"}
  /\ status = "pending" => step = "created"
  /\ step = "ending" /\ status = "running" => AllFinished
  /\ step \in {"ended", "gone"} => status \in JobEnded
  /\ status \in {"completed", "failed"} => AllFinished /\ step \in {"ended", "gone"}
  /\ status = "completed" => Won # {}
  /\ status = "failed" => Won = {}

BInv == BatchTyped /\ Attempted /\ Earned /\ Recorded /\ Tallied /\ Concluded

-----------------------------------------------------------------------------
(* Every conjunct of BInv is preserved by every step.                      *)

\* A new job satisfies the invariant.
LEMMA InitBInv == BatchInit => BInv
<1> SUFFICES ASSUME BatchInit PROVE BInv
  OBVIOUS
<1>1. BatchTyped
  <2>1. 0 \in 0 .. MaxRetries /\ 1 \in 1 .. BatchSize + 1 /\ BatchSize \in Int
    BY BatchAssumption
  <2>2. /\ retry \in [BatchClients -> 0 .. MaxRetries]
        /\ old \in [BatchClients -> Nat] /\ runs \in [BatchClients -> Nat]
        /\ current \in [BatchClients -> BOOLEAN]
    BY <2>1 DEF BatchInit
  <2>3. /\ taskWorker \in [BatchClients -> {"none", "attempt", "waiting", "sleeping", "won",
                                   "lost", "counted", "finished"}]
        /\ answer \in [BatchClients -> {"none", "open", "success", "failure"}]
        /\ jobResults \in [BatchClients -> {"nil", "success", "failure"}]
    BY DEF BatchInit
  <2>4. /\ status \in JobEnded \cup {"pending", "running"} /\ step = "created"
        /\ next = 1 /\ sem = 0 /\ succeeded = 0 /\ failed = 0 /\ pending = BatchSize
        /\ caller = "polling"
        /\ wait \in BOOLEAN /\ expired \in BOOLEAN /\ jobCancelled \in BOOLEAN
    BY DEF BatchInit, JobEnded
  <2> QED BY <2>1, <2>2, <2>3, <2>4 DEF BatchTyped
<1>6. Attempted /\ Earned /\ Recorded
  BY BatchAssumption DEF BatchInit, Attempted, Earned, Recorded
<1>2. Served = {} /\ Unfinished = 1 .. BatchSize /\ Won = {} /\ Lost = {}
  BY DEF BatchInit, Served, Unfinished, Won, Lost, BatchClients
<1>3. Cardinality({}) = 0 /\ Cardinality(1 .. BatchSize) = BatchSize
  BY FS_EmptySet, FS_Interval, BatchAssumption
<1>4. Tallied
  BY <1>2, <1>3, BatchAssumption DEF BatchInit, Tallied
<1>5. Concluded
  BY DEF BatchInit, Concluded
<1> QED BY <1>1, <1>4, <1>5, <1>6 DEF BInv

\* The types: executeJob,
LEMMA JobTyped == BatchTyped /\ Job => BatchTyped'
<1> SUFFICES ASSUME BatchTyped, Job PROVE BatchTyped'
  OBVIOUS
<1> USE BatchAssumption DEF BatchTyped, JobEnded, BatchClients, counts, mail
<1>1. CASE Start BY <1>1 DEF Start
<1>2. CASE LaunchTask BY <1>2 DEF LaunchTask
<1>3. CASE GiveUp BY <1>3 DEF GiveUp
<1>4. CASE AllLaunched BY <1>4 DEF AllLaunched
<1>5. CASE JoinTasks BY <1>5 DEF JoinTasks
<1>6. CASE End BY <1>6 DEF End
<1>7. CASE Delete BY <1>7 DEF Delete
<1> QED BY <1>1, <1>2, <1>3, <1>4, <1>5, <1>6, <1>7 DEF Job

\* the retry of an attempt,
LEMMA NextTryTyped ==
  ASSUME BatchTyped, NEW i \in BatchClients, NextTry(i)
  PROVE  /\ taskWorker' \in [BatchClients -> {"none", "attempt", "waiting", "sleeping", "won",
                                     "lost", "counted", "finished"}]
         /\ retry' \in [BatchClients -> 0 .. MaxRetries]
BY BatchAssumption DEF BatchTyped, NextTry

\* executeTask,
LEMMA TaskTyped == \A i \in BatchClients : BatchTyped /\ Task(i) => BatchTyped'
<1> SUFFICES ASSUME BatchTyped, NEW i \in BatchClients, Task(i) PROVE BatchTyped'
  OBVIOUS
<1> USE DEF BatchTyped, counts, mail, job
<1>1. CASE Wake(i) BY <1>1 DEF Wake
<1>2. CASE TaskSendFails(i) BY <1>2, NextTryTyped DEF TaskSendFails
<1>3. CASE Send(i) BY <1>3 DEF Send
<1>4. CASE Answered(i) BY <1>4, NextTryTyped DEF Answered
<1>5. CASE TaskTimesOut(i) BY <1>5, NextTryTyped DEF TaskTimesOut
<1>6. CASE WaitEnds(i) BY <1>6 DEF WaitEnds
<1>7. CASE Record(i) BY <1>7 DEF Record
<1>8. CASE FinishTask(i) BY <1>8 DEF FinishTask
<1> QED BY <1>1, <1>2, <1>3, <1>4, <1>5, <1>6, <1>7, <1>8 DEF Task

\* and every step.
LEMMA NextTyped == BatchTyped /\ [BatchNext]_batchVars => BatchTyped'
<1> SUFFICES ASSUME BatchTyped, [BatchNext]_batchVars PROVE BatchTyped'
  OBVIOUS
<1>1. ASSUME NEW i \in BatchClients, ClientStep(i) PROVE BatchTyped'
  <2> USE <1>1 DEF BatchTyped, counts, job
  <2>1. CASE RunCommand(i)
    <3>1. answer' \in [BatchClients -> {"none", "open", "success", "failure"}]
      BY <2>1 DEF RunCommand
    <3> QED BY <2>1, <3>1 DEF RunCommand
  <2>2. CASE ExecuteOld(i) BY <2>2 DEF ExecuteOld
  <2>3. CASE Refuse(i) BY <2>3 DEF Refuse
  <2> QED BY <2>1, <2>2, <2>3 DEF ClientStep
<1>2. CASE CancelJob \/ SyncReturns \/ SyncGivesUp \/ JobExpires
  BY <1>2 DEF CancelJob, SyncReturns, SyncGivesUp, JobExpires, BatchTyped, JobEnded, counts, mail
<1>3. CASE UNCHANGED batchVars
  BY <1>3 DEF batchVars, BatchTyped
<1> QED BY <1>1, <1>2, <1>3, JobTyped, TaskTyped DEF BatchNext

-----------------------------------------------------------------------------
(* Executions.                                                             *)

\* A retry allows one more execution, and none before it is sent.
LEMMA NextTryAttempted ==
  ASSUME BatchTyped, Attempted, NEW i \in BatchClients, NextTry(i), UNCHANGED mail,
         taskWorker[i] \in {"attempt", "waiting"}
  PROVE  Attempted'
<1> SUFFICES ASSUME NEW j \in BatchClients
             PROVE  /\ runs[j] + old[j] + (IF current[j] THEN 1 ELSE 0)
                         <= retry'[j] + (IF taskWorker'[j] \in {"none", "attempt", "sleeping"} THEN 0 ELSE 1)
                    /\ old[j] <= retry'[j]
  BY DEF Attempted, mail
<1>1. CASE j = i BY <1>1 DEF BatchTyped, Attempted, NextTry
<1>2. CASE j # i BY <1>2 DEF BatchTyped, Attempted, NextTry
<1> QED BY <1>1, <1>2

\* A send spends the attempt; an execution takes a message off the way.
LEMMA NextAttempted == BatchTyped /\ Recorded /\ Attempted /\ [BatchNext]_batchVars => Attempted'
<1> SUFFICES ASSUME BatchTyped, Recorded, Attempted, [BatchNext]_batchVars PROVE Attempted'
  OBVIOUS
<1>1. ASSUME Job PROVE Attempted'
  <2>1. CASE LaunchTask
    <3>1. next \in BatchClients /\ taskWorker[next] = "none"
      BY <2>1, BatchAssumption DEF LaunchTask, BatchTyped, Recorded, BatchClients
    <3> QED BY <2>1, <3>1 DEF LaunchTask, BatchTyped, Attempted, mail
  <2>2. CASE Start \/ GiveUp \/ AllLaunched \/ JoinTasks \/ End \/ Delete
    BY <2>2 DEF Start, GiveUp, AllLaunched, JoinTasks, End, Delete, Attempted, mail
  <2> QED BY <1>1, <2>1, <2>2 DEF Job
<1>2. ASSUME NEW i \in BatchClients, Task(i) PROVE Attempted'
  <2> USE DEF BatchTyped, Attempted, mail
  <2>1. CASE Wake(i) BY <2>1 DEF Wake
  <2>2. CASE TaskSendFails(i) BY <2>2, NextTryAttempted DEF TaskSendFails
  <2>3. CASE Send(i) BY <2>3 DEF Send
  <2>4. CASE Answered(i)
    <3>1. CASE answer[i] = "success" /\ taskWorker' = [taskWorker EXCEPT ![i] = "won"] /\ UNCHANGED retry
      BY <2>4, <3>1 DEF Answered
    <3>2. CASE NextTry(i) BY <2>4, <3>2, NextTryAttempted DEF Answered
    <3> QED BY <2>4, <3>1, <3>2 DEF Answered
  <2>5. CASE TaskTimesOut(i) BY <2>5, NextTryAttempted DEF TaskTimesOut
  <2>6. CASE WaitEnds(i) BY <2>6 DEF WaitEnds
  <2>7. CASE Record(i) BY <2>7 DEF Record
  <2>8. CASE FinishTask(i) BY <2>8 DEF FinishTask
  <2> QED BY <1>2, <2>1, <2>2, <2>3, <2>4, <2>5, <2>6, <2>7, <2>8 DEF Task
<1>3. ASSUME NEW i \in BatchClients, ClientStep(i) PROVE Attempted'
  BY <1>3 DEF ClientStep, RunCommand, ExecuteOld, Refuse, BatchTyped, Attempted
<1>4. CASE CancelJob \/ SyncReturns \/ SyncGivesUp \/ JobExpires \/ UNCHANGED batchVars
  BY <1>4 DEF CancelJob, SyncReturns, SyncGivesUp, JobExpires, batchVars, Attempted, mail
<1> QED BY <1>1, <1>2, <1>3, <1>4 DEF BatchNext

\* Success spreads from the answer to the worker to the result.
LEMMA NextEarned == BatchTyped /\ Earned /\ [BatchNext]_batchVars => Earned'
<1> SUFFICES ASSUME BatchTyped, Earned, [BatchNext]_batchVars PROVE Earned'
  OBVIOUS
<1>1. ASSUME Job PROVE Earned'
  BY <1>1 DEF Job, Start, LaunchTask, GiveUp, AllLaunched, JoinTasks, End, Delete, BatchTyped, Earned,
     mail, counts
<1>2. ASSUME NEW i \in BatchClients, Task(i) PROVE Earned'
  <2> USE DEF BatchTyped, Earned, mail, counts, job
  <2>1. CASE Wake(i) BY <2>1 DEF Wake
  <2>2. CASE TaskSendFails(i) BY <2>2 DEF TaskSendFails, NextTry
  <2>3. CASE Send(i) BY <2>3 DEF Send
  <2>4. CASE Answered(i) BY <2>4 DEF Answered, NextTry
  <2>5. CASE TaskTimesOut(i) BY <2>5 DEF TaskTimesOut, NextTry
  <2>6. CASE WaitEnds(i) BY <2>6 DEF WaitEnds
  <2>7. CASE Record(i) BY <2>7 DEF Record
  <2>8. CASE FinishTask(i) BY <2>8 DEF FinishTask
  <2> QED BY <1>2, <2>1, <2>2, <2>3, <2>4, <2>5, <2>6, <2>7, <2>8 DEF Task
<1>3. ASSUME NEW i \in BatchClients, ClientStep(i) PROVE Earned'
  <2> USE DEF BatchTyped, Earned, counts, job
  <2>1. CASE RunCommand(i) BY <2>1 DEF RunCommand
  <2>2. CASE ExecuteOld(i) BY <2>2 DEF ExecuteOld
  <2>3. CASE Refuse(i) BY <2>3 DEF Refuse
  <2> QED BY <1>3, <2>1, <2>2, <2>3 DEF ClientStep
<1>4. CASE CancelJob \/ SyncReturns \/ SyncGivesUp \/ JobExpires \/ UNCHANGED batchVars
  BY <1>4 DEF CancelJob, SyncReturns, SyncGivesUp, JobExpires, batchVars, Earned, mail, counts
<1> QED BY <1>1, <1>2, <1>3, <1>4 DEF BatchNext

\* A result is recorded once, by a worker that was started once.
LEMMA NextRecorded == BatchTyped /\ Recorded /\ [BatchNext]_batchVars => Recorded'
<1> SUFFICES ASSUME BatchTyped, Recorded, [BatchNext]_batchVars PROVE Recorded'
  OBVIOUS
<1>1. ASSUME Job PROVE Recorded'
  <2>1. CASE LaunchTask
    <3>1. next \in BatchClients /\ next' = next + 1
      BY <2>1, BatchAssumption DEF LaunchTask, BatchTyped, BatchClients
    <3>2. taskWorker' = [taskWorker EXCEPT ![next] = "attempt"] /\ jobResults' = jobResults
      BY <2>1 DEF LaunchTask, counts
    <3>3. SUFFICES ASSUME NEW i \in BatchClients
                   PROVE  /\ jobResults[i] # "nil" <=> taskWorker'[i] \in {"counted", "finished"}
                          /\ i >= next + 1 => taskWorker'[i] = "none"
      BY <3>1, <3>2 DEF Recorded
    <3>4. CASE i = next BY <3>1, <3>2, <3>4 DEF BatchTyped, Recorded, BatchClients
    <3>5. CASE i # next BY <3>1, <3>2, <3>5 DEF BatchTyped, Recorded, BatchClients
    <3> QED BY <3>4, <3>5
  <2>2. CASE Start \/ GiveUp \/ AllLaunched \/ JoinTasks \/ End \/ Delete
    BY <2>2 DEF Start, GiveUp, AllLaunched, JoinTasks, End, Delete, Recorded, counts
  <2> QED BY <1>1, <2>1, <2>2 DEF Job
<1>2. ASSUME NEW i \in BatchClients, Task(i) PROVE Recorded'
  <2> USE DEF BatchTyped, Recorded, counts, job
  <2>1. CASE Wake(i) BY <2>1 DEF Wake
  <2>2. CASE TaskSendFails(i) BY <2>2 DEF TaskSendFails, NextTry
  <2>3. CASE Send(i) BY <2>3 DEF Send
  <2>4. CASE Answered(i) BY <2>4 DEF Answered, NextTry
  <2>5. CASE TaskTimesOut(i) BY <2>5 DEF TaskTimesOut, NextTry
  <2>6. CASE WaitEnds(i) BY <2>6 DEF WaitEnds
  <2>7. CASE Record(i) BY <2>7 DEF Record
  <2>8. CASE FinishTask(i) BY <2>8 DEF FinishTask
  <2> QED BY <1>2, <2>1, <2>2, <2>3, <2>4, <2>5, <2>6, <2>7, <2>8 DEF Task
<1>3. ASSUME NEW i \in BatchClients, ClientStep(i) PROVE Recorded'
  BY <1>3 DEF ClientStep, RunCommand, ExecuteOld, Refuse, Recorded, counts, job
<1>4. CASE CancelJob \/ SyncReturns \/ SyncGivesUp \/ JobExpires \/ UNCHANGED batchVars
  BY <1>4 DEF CancelJob, SyncReturns, SyncGivesUp, JobExpires, batchVars, Recorded, counts
<1> QED BY <1>1, <1>2, <1>3, <1>4 DEF BatchNext

-----------------------------------------------------------------------------
(* Tokens and counters.                                                    *)

\* Sets of clients are finite and no larger than N.
LEMMA SubsetsFinite ==
  ASSUME NEW S \in SUBSET BatchClients
  PROVE  IsFiniteSet(S) /\ Cardinality(S) \in 0 .. BatchSize
<1>1. IsFiniteSet(BatchClients) /\ Cardinality(BatchClients) = BatchSize
  BY FS_Interval, BatchAssumption DEF BatchClients
<1>2. IsFiniteSet(S) /\ Cardinality(S) <= BatchSize
  BY <1>1, FS_Subset
<1> QED BY <1>2, FS_CardinalityType, BatchAssumption

\* The sets that are counted.
LEMMA PhaseSetsFinite ==
  /\ IsFiniteSet(Served) /\ Cardinality(Served) \in 0 .. BatchSize
  /\ IsFiniteSet(Unfinished) /\ Cardinality(Unfinished) \in 0 .. BatchSize
  /\ IsFiniteSet(Won) /\ Cardinality(Won) \in 0 .. BatchSize
  /\ IsFiniteSet(Lost) /\ Cardinality(Lost) \in 0 .. BatchSize
BY SubsetsFinite DEF Served, Unfinished, Won, Lost

\* The size of a partition.
LEMMA DisjointUnion ==
  ASSUME NEW S, NEW T, IsFiniteSet(S), IsFiniteSet(T), S \cap T = {}
  PROVE  Cardinality(S \cup T) = Cardinality(S) + Cardinality(T)
<1>1. Cardinality(S \cup T) = Cardinality(S) + Cardinality(T) - Cardinality(S \cap T)
  BY FS_Union
<1>2. Cardinality(S \cap T) = 0
  BY FS_EmptySet, Zenon
<1>3. Cardinality(S) \in Nat /\ Cardinality(T) \in Nat
  BY FS_CardinalityType
<1> QED BY <1>1, <1>2, <1>3

\* A worker that goes from one step of its task to another moves no counter.
LEMMA MoveTallied ==
  ASSUME BatchTyped, Tallied, NEW i \in BatchClients,
         NEW w \in {"attempt", "waiting", "sleeping", "won", "lost"},
         taskWorker[i] \notin {"none", "finished"},
         taskWorker' = [taskWorker EXCEPT ![i] = w],
         UNCHANGED <<sem, counts>>
  PROVE  Tallied'
<1>1. Served' = Served BY DEF Served, BatchTyped
<1>2. Unfinished' = Unfinished BY DEF Unfinished, BatchTyped
<1>3. Won' = Won /\ Lost' = Lost BY DEF Won, Lost, counts
<1> QED BY <1>1, <1>2, <1>3 DEF Tallied, counts

\* A launch takes a token for a client that had none.
LEMMA LaunchTallied == BatchTyped /\ Recorded /\ Tallied /\ LaunchTask => Tallied'
<1> SUFFICES ASSUME BatchTyped, Recorded, Tallied, LaunchTask PROVE Tallied'
  OBVIOUS
<1>1. next \in BatchClients /\ taskWorker[next] = "none"
  BY BatchAssumption DEF LaunchTask, BatchTyped, Recorded, BatchClients
<1>2. Served' = Served \cup {next} /\ next \notin Served
  BY <1>1 DEF LaunchTask, BatchTyped, Served
<1>3. Unfinished' = Unfinished /\ Won' = Won /\ Lost' = Lost
  BY <1>1 DEF LaunchTask, BatchTyped, Unfinished, Won, Lost, counts
<1>4. Cardinality(Served') = Cardinality(Served) + 1
  BY <1>2, PhaseSetsFinite, FS_AddElement
<1> QED BY <1>3, <1>4, BatchAssumption DEF LaunchTask, Tallied, BatchTyped, counts

\* A result is new when it is counted.
LEMMA RecordTallied ==
  ASSUME BatchTyped, Recorded, Tallied, NEW i \in BatchClients, Record(i)
  PROVE  Tallied'
<1>1. Served' = Served /\ Unfinished' = Unfinished
  BY DEF Record, BatchTyped, Served, Unfinished
<1>2. jobResults[i] = "nil"
  BY DEF Record, Recorded
<1>3. CASE taskWorker[i] = "won"
  <2>1. Won' = Won \cup {i} /\ i \notin Won /\ Lost' = Lost
    BY <1>2, <1>3 DEF Record, BatchTyped, Won, Lost
  <2>2. Cardinality(Won') = Cardinality(Won) + 1
    BY <2>1, PhaseSetsFinite, FS_AddElement
  <2> QED BY <1>1, <1>3, <2>1, <2>2 DEF Record, Tallied
<1>4. CASE taskWorker[i] # "won"
  <2>1. Lost' = Lost \cup {i} /\ i \notin Lost /\ Won' = Won
    BY <1>2, <1>4 DEF Record, BatchTyped, Won, Lost
  <2>2. Cardinality(Lost') = Cardinality(Lost) + 1
    BY <2>1, PhaseSetsFinite, FS_AddElement
  <2> QED BY <1>1, <1>4, <2>1, <2>2 DEF Record, Tallied
<1> QED BY <1>3, <1>4

\* A worker that finishes gives back its own token.
LEMMA FinishTallied ==
  ASSUME BatchTyped, Tallied, NEW i \in BatchClients, FinishTask(i)
  PROVE  Tallied'
<1>1. Served' = Served \ {i} /\ i \in Served
  BY DEF FinishTask, BatchTyped, Served
<1>2. Unfinished' = Unfinished \ {i} /\ i \in Unfinished
  BY DEF FinishTask, BatchTyped, Unfinished
<1>3. Won' = Won /\ Lost' = Lost
  BY DEF FinishTask, Won, Lost
<1>4. /\ Cardinality(Served') = Cardinality(Served) - 1
      /\ Cardinality(Unfinished') = Cardinality(Unfinished) - 1
  BY <1>1, <1>2, PhaseSetsFinite, FS_RemoveElement
<1> QED BY <1>3, <1>4, PhaseSetsFinite, BatchAssumption DEF FinishTask, Tallied, BatchTyped

\* No other step touches what is counted.
LEMMA NextTallied == BatchTyped /\ Recorded /\ Tallied /\ [BatchNext]_batchVars => Tallied'
<1> SUFFICES ASSUME BatchTyped, Recorded, Tallied, [BatchNext]_batchVars PROVE Tallied'
  OBVIOUS
<1>s. UNCHANGED <<taskWorker, sem, counts>> => Tallied'
  BY DEF Tallied, Served, Unfinished, Won, Lost, counts
<1>1. ASSUME Job PROVE Tallied'
  <2>1. Start \/ GiveUp \/ AllLaunched \/ JoinTasks \/ End \/ Delete
          => UNCHANGED <<taskWorker, sem, counts>>
    BY DEF Start, GiveUp, AllLaunched, JoinTasks, End, Delete
  <2> QED BY <1>1, <1>s, <2>1, LaunchTallied DEF Job
<1>2. ASSUME NEW i \in BatchClients, Task(i) PROVE Tallied'
  <2>n. ASSUME NextTry(i), UNCHANGED <<sem, counts>>, taskWorker[i] \in {"attempt", "waiting"}
        PROVE  Tallied'
    BY <2>n, MoveTallied DEF NextTry
  <2>1. CASE Wake(i) BY <2>1, MoveTallied DEF Wake
  <2>2. CASE TaskSendFails(i) BY <2>2, <2>n DEF TaskSendFails
  <2>3. CASE Send(i) BY <2>3, MoveTallied DEF Send
  <2>4. CASE Answered(i) BY <2>4, <2>n, MoveTallied DEF Answered
  <2>5. CASE TaskTimesOut(i) BY <2>5, <2>n DEF TaskTimesOut
  <2>6. CASE WaitEnds(i) BY <2>6, MoveTallied DEF WaitEnds
  <2>7. CASE Record(i) BY <2>7, RecordTallied
  <2>8. CASE FinishTask(i) BY <2>8, FinishTallied
  <2> QED BY <1>2, <2>1, <2>2, <2>3, <2>4, <2>5, <2>6, <2>7, <2>8 DEF Task
<1>3. ASSUME NEW i \in BatchClients, ClientStep(i) PROVE Tallied'
  BY <1>3, <1>s DEF ClientStep, RunCommand, ExecuteOld, Refuse
<1>4. CASE CancelJob \/ SyncReturns \/ SyncGivesUp \/ JobExpires \/ UNCHANGED batchVars
  BY <1>4, <1>s DEF CancelJob, SyncReturns, SyncGivesUp, JobExpires, batchVars, counts
<1> QED BY <1>1, <1>2, <1>3, <1>4 DEF BatchNext

-----------------------------------------------------------------------------
(* The end of the job.                                                     *)

\* The verdict: with every result in, nobody failed means somebody succeeded.
LEMMA EndConcluded == BatchTyped /\ Recorded /\ Tallied /\ Concluded /\ End => Concluded'
<1> SUFFICES ASSUME BatchTyped, Recorded, Tallied, Concluded, End PROVE Concluded'
  OBVIOUS
<1>1. /\ step = "ending" /\ step' = "ended"
      /\ UNCHANGED <<taskWorker, jobResults>>
  BY DEF End, counts
<1>2. Won' = Won /\ (AllFinished => AllFinished')
  BY <1>1 DEF Won, AllFinished
<1>3. CASE status # "running"
  BY <1>1, <1>3 DEF End, Concluded, BatchTyped, JobEnded
<1>4. CASE status = "running"
  <2>1. AllFinished
    BY <1>1, <1>4 DEF Concluded
  <2>2. 1 \in BatchClients
    BY BatchAssumption DEF BatchClients
  <2>3. 1 \in Won \/ 1 \in Lost
    BY <2>1, <2>2 DEF AllFinished, Recorded, BatchTyped, Won, Lost
  <2>4. (succeeded = 0 <=> Won = {}) /\ (failed = 0 <=> Lost = {})
    BY PhaseSetsFinite, FS_EmptySet DEF Tallied
  <2>5. succeeded \in Nat /\ failed \in Nat
    BY PhaseSetsFinite DEF Tallied
  <2>6. CASE failed > 0 /\ succeeded = 0
    <3>1. status' = "failed" BY <1>4, <2>6 DEF End
    <3> QED BY <1>1, <1>2, <2>1, <2>4, <2>6, <3>1 DEF Concluded, JobEnded
  <2>7. CASE ~(failed > 0 /\ succeeded = 0)
    <3>1. status' = "completed" BY <1>4, <2>7 DEF End
    <3>2. Won # {}
      BY <2>3, <2>4, <2>5, <2>7
    <3> QED BY <1>1, <1>2, <2>1, <3>1, <3>2 DEF Concluded, JobEnded
  <2> QED BY <2>6, <2>7
<1> QED BY <1>3, <1>4

\* After the end nothing moves that the verdict rests on.
LEMMA NextConcluded ==
  BatchTyped /\ Recorded /\ Tallied /\ Concluded /\ [BatchNext]_batchVars => Concluded'
<1> SUFFICES ASSUME BatchTyped, Recorded, Tallied, Concluded, [BatchNext]_batchVars PROVE Concluded'
  OBVIOUS
<1>s. UNCHANGED <<taskWorker, jobResults>> => (AllFinished => AllFinished') /\ Won' = Won
  BY DEF AllFinished, Won
<1>1. ASSUME Job PROVE Concluded'
  <2>1. CASE Start BY <2>1 DEF Start, Concluded, BatchTyped, JobEnded
  <2>2. CASE LaunchTask BY <2>2 DEF LaunchTask, Concluded, BatchTyped, JobEnded
  <2>3. CASE GiveUp BY <2>3 DEF GiveUp, Concluded, BatchTyped, JobEnded
  <2>4. CASE AllLaunched BY <2>4 DEF AllLaunched, Concluded, BatchTyped, JobEnded
  <2>5. CASE JoinTasks BY <2>5 DEF JoinTasks, Concluded, AllFinished, BatchTyped, JobEnded
  <2>6. CASE End BY <2>6, EndConcluded
  <2>7. CASE Delete BY <2>7, <1>s DEF Delete, Concluded, counts, BatchTyped, JobEnded
  <2> QED BY <1>1, <2>1, <2>2, <2>3, <2>4, <2>5, <2>6, <2>7 DEF Job
<1>2. ASSUME NEW i \in BatchClients, Task(i) PROVE Concluded'
  <2>1. taskWorker[i] # "finished"
    BY <1>2 DEF Task, Wake, TaskSendFails, Send, Answered, TaskTimesOut, WaitEnds, Record, FinishTask
  <2>2. ~AllFinished
    BY <2>1 DEF AllFinished
  <2>3. UNCHANGED <<status, step>>
    BY <1>2 DEF Task, Wake, TaskSendFails, Send, Answered, TaskTimesOut, WaitEnds, Record, FinishTask, job
  <2> QED BY <2>2, <2>3 DEF Concluded
<1>3. ASSUME NEW i \in BatchClients, ClientStep(i) PROVE Concluded'
  BY <1>3, <1>s DEF ClientStep, RunCommand, ExecuteOld, Refuse, Concluded, counts, job
<1>4. CASE CancelJob
  BY <1>4 DEF CancelJob, Concluded, JobEnded
<1>5. CASE SyncGivesUp
  <2>1. UNCHANGED <<step, taskWorker, jobResults>>
    BY <1>5 DEF SyncGivesUp, counts
  <2>2. CASE status \in {"pending", "running"}
    BY <1>5, <2>1, <2>2 DEF SyncGivesUp, Concluded, JobEnded
  <2>3. CASE UNCHANGED status
    BY <1>s, <2>1, <2>3 DEF Concluded
  <2> QED BY <1>5, <2>2, <2>3 DEF SyncGivesUp
<1>6. CASE SyncReturns \/ JobExpires \/ UNCHANGED batchVars
  BY <1>6, <1>s DEF SyncReturns, JobExpires, batchVars, Concluded, counts
<1> QED BY <1>1, <1>2, <1>3, <1>4, <1>5, <1>6 DEF BatchNext

\* Together they are inductive.
LEMMA NextBInv == BInv /\ [BatchNext]_batchVars => BInv'
BY NextTyped, NextAttempted, NextEarned, NextRecorded, NextTallied, NextConcluded DEF BInv

\* And hold of every behaviour.
LEMMA AlwaysBInv == BatchSpec => []BInv
<1>1. BatchInit => BInv BY InitBInv
<1>2. BInv /\ [BatchNext]_batchVars => BInv' BY NextBInv
<1> QED BY <1>1, <1>2, PTL DEF BatchSpec

-----------------------------------------------------------------------------
(* The theorems.                                                           *)

\* Every variable keeps its type: there are never more tokens taken than the
\* semaphore has, nor more answers outstanding than attempts.
THEOREM BatchTypeCorrect == BatchSpec => []BatchTypeOK
<1>1. BInv => BatchTypeOK
  <2> SUFFICES ASSUME BInv PROVE BatchTypeOK
    OBVIOUS
  <2>1. ASSUME NEW i \in BatchClients
        PROVE  old[i] \in 0 .. MaxRetries /\ runs[i] \in 0 .. MaxRetries + 1
    <3>1. /\ retry[i] \in 0 .. MaxRetries /\ old[i] \in Nat /\ runs[i] \in Nat
          /\ runs[i] + old[i] <= retry[i] + 1 /\ old[i] <= retry[i]
      BY BatchAssumption DEF BInv, BatchTyped, Attempted
    <3> QED BY <3>1, BatchAssumption
  <2>2. old \in [BatchClients -> 0 .. MaxRetries] /\ runs \in [BatchClients -> 0 .. MaxRetries + 1]
    BY <2>1 DEF BInv, BatchTyped
  <2>3. /\ sem \in 0 .. MaxConcurrency
        /\ succeeded \in 0 .. BatchSize /\ failed \in 0 .. BatchSize /\ pending \in 0 .. BatchSize
    BY PhaseSetsFinite, BatchAssumption DEF BInv, Tallied
  <2> QED BY <2>2, <2>3 DEF BInv, BatchTyped, BatchTypeOK
<1> QED BY <1>1, AlwaysBInv, PTL

\* At most MaxConcurrency clients are served together.
THEOREM ConcurrencyHolds == BatchSpec => []ConcurrencyBounded
<1>1. BInv => ConcurrencyBounded
  BY DEF BInv, Tallied, Served, ConcurrencyBounded
<1> QED BY <1>1, AlwaysBInv, PTL

\* The three counters account for every client at every moment.
THEOREM CountersExact == BatchSpec => []CountsAddUp
<1>1. BInv => CountsAddUp
  <2> SUFFICES ASSUME BInv PROVE CountsAddUp
    OBVIOUS
  <2> DEFINE Booked == {i \in BatchClients : taskWorker[i] = "counted"}
             Gone   == {i \in BatchClients : taskWorker[i] = "finished"}
  <2>1. /\ Won \cup Lost = Booked \cup Gone
        /\ Won \cap Lost = {} /\ Booked \cap Gone = {}
        /\ Unfinished \cup Gone = BatchClients /\ Unfinished \cap Gone = {}
    BY DEF BInv, BatchTyped, Recorded, Won, Lost, Unfinished
  <2>2. /\ IsFiniteSet(Booked) /\ Cardinality(Booked) \in 0 .. BatchSize
        /\ IsFiniteSet(Gone) /\ Cardinality(Gone) \in 0 .. BatchSize
        /\ Cardinality(BatchClients) = BatchSize
    BY SubsetsFinite, FS_Interval, BatchAssumption DEF BatchClients
  <2>3. CountsAddUp <=> succeeded + failed + pending = BatchSize + Cardinality(Booked)
    BY DEF CountsAddUp
  <2> HIDE DEF Booked, Gone
  <2>4. Cardinality(Won \cup Lost) = Cardinality(Won) + Cardinality(Lost)
    BY <2>1, PhaseSetsFinite, DisjointUnion
  <2>5. Cardinality(Booked \cup Gone) = Cardinality(Booked) + Cardinality(Gone)
    BY <2>1, <2>2, DisjointUnion
  <2>6. BatchSize = Cardinality(Unfinished) + Cardinality(Gone)
    BY <2>1, <2>2, PhaseSetsFinite, DisjointUnion
  <2>7. /\ pending = Cardinality(Unfinished)
        /\ succeeded = Cardinality(Won) /\ failed = Cardinality(Lost)
    BY DEF BInv, Tallied
  <2> QED BY <2>1, <2>2, <2>3, <2>4, <2>5, <2>6, <2>7, PhaseSetsFinite, BatchAssumption
<1> QED BY <1>1, AlwaysBInv, PTL

\* A job that ends by itself has every result, and its status is their verdict.
THEOREM EndHasAllResults == BatchSpec => []EndIsExact
<1>1. BInv => EndIsExact
  <2> SUFFICES ASSUME BInv, status \in {"completed", "failed"}
               PROVE  /\ pending = 0
                      /\ \A i \in BatchClients : jobResults[i] # "nil"
                      /\ succeeded = Cardinality({i \in BatchClients : jobResults[i] = "success"})
                      /\ (status = "failed") <=> (\A i \in BatchClients : jobResults[i] = "failure")
    BY DEF EndIsExact
  <2>1. AllFinished
    BY DEF BInv, Concluded
  <2>2. Unfinished = {}
    BY <2>1 DEF AllFinished, Unfinished
  <2>3. \A i \in BatchClients : jobResults[i] # "nil"
    BY <2>1 DEF AllFinished, BInv, Recorded
  <2>4. 1 \in BatchClients
    BY BatchAssumption DEF BatchClients
  <2>5. (status = "failed") <=> (Won = {})
    BY DEF BInv, Concluded
  <2>6. (Won = {}) <=> (\A i \in BatchClients : jobResults[i] = "failure")
    BY <2>3, <2>4 DEF Won, BInv, BatchTyped
  <2> QED BY <2>2, <2>3, <2>5, <2>6, FS_EmptySet DEF BInv, Tallied, Won
<1> QED BY <1>1, AlwaysBInv, PTL

\* With waitForResult a reported success was executed.
THEOREM SuccessIsReal == BatchSpec => []SuccessWasExecuted
<1>1. BInv => SuccessWasExecuted
  BY DEF BInv, Earned, SuccessWasExecuted
<1> QED BY <1>1, AlwaysBInv, PTL

\* No client executes the command more often than it was sent to it.
THEOREM ExecutionsBounded == BatchSpec => []RunsBounded
<1>1. BInv => RunsBounded
  <2> SUFFICES ASSUME BInv, NEW i \in BatchClients
               PROVE  runs[i] <= retry[i] + 1 /\ runs[i] <= MaxRetries + 1
    BY DEF RunsBounded
  <2>1. /\ retry[i] \in 0 .. MaxRetries /\ old[i] \in Nat /\ runs[i] \in Nat
        /\ runs[i] + old[i] <= retry[i] + 1
    BY BatchAssumption DEF BInv, BatchTyped, Attempted
  <2> QED BY <2>1, BatchAssumption
<1> QED BY <1>1, AlwaysBInv, PTL

\* Both together: what the job reports and what the clients did.
THEOREM RunsAlwaysEarned == BatchSpec => []RunsAreEarned
<1>1. SuccessWasExecuted /\ RunsBounded => RunsAreEarned
  BY DEF RunsAreEarned
<1> QED BY <1>1, SuccessIsReal, ExecutionsBounded, PTL
=============================================================================
