-------------------------- MODULE ConnectionProofs --------------------------
(***************************************************************************)
(* The two ends of a connection: the sessions of the server, for any       *)
(* number of clients and connections, any silence limit and any maximum of *)
(* timeouts, and the client that keeps itself connected, for any number of *)
(* connections, any backoff and any bounds.                                *)
(***************************************************************************)
EXTENDS SessionManager, ReconnectClient, TLAPS

-----------------------------------------------------------------------------
(* SessionManager.                                                         *)

Marking == {"expired", "close", "remove"}  \* steps that hold a session

\* The map holds sessions whose Add has stored them, each under its client.
MapSound ==
  \A m \in Clients :
    sessions[m] # NoConn => sessions[m] \in Served /\ ClientOf[sessions[m]] = m

\* The session the checker holds was read from the map under the key it holds.
Held ==
  checker.step \in Marking =>
    /\ checker.m \in Clients
    /\ checker.c \in Served
    /\ ClientOf[checker.c] = checker.m
    /\ checker.step \in {"expired", "close"} => checker.c \in late
    /\ checker.step = "remove" => link[checker.c] = "closed"

\* A count at the maximum belongs to the session that is being removed or to
\* one that has been.
Counted ==
  /\ \A c \in Conns : c \notin Served => timeouts[c] = 0
  /\ \A m \in Clients :
       sessions[m] # NoConn /\ timeouts[sessions[m]] = MaxTimeouts
         => checker.step \in {"close", "remove"} /\ checker.c = sessions[m]
  /\ checker.step = "expired" => timeouts[checker.c] < MaxTimeouts

\* Pings go to sessions that were in the map.
Pinged == \A c \in Conns : pinger[c].step # "idle" => pinger[c].c \in Served

\* Who has been silent for more than 15 s is late for ever.
LateMarked == \A c \in Conns : age[c] > Gap => c \in late

SInv == /\ TypeOK /\ MapSound /\ Held /\ Counted /\ Pinged /\ LateMarked
        /\ NoGhostSession /\ LostOnlyToSibling /\ TimedOutWasLate

-----------------------------------------------------------------------------
(* Every conjunct of SInv is preserved by every step.                      *)

\* A server that starts satisfies the invariant.
LEMMA InitSInv == Init => SInv
<1> SUFFICES ASSUME Init PROVE SInv
  OBVIOUS
<1> USE SessionAssumption DEF Init
<1>1. TypeOK
  BY DEF TypeOK, Handlers, Resting, NoPing
<1>2. MapSound /\ Pinged /\ LateMarked
  BY DEF MapSound, Pinged, LateMarked, NoPing
<1>3. Held /\ Counted
  BY DEF Held, Counted, Marking, Resting
<1>4. NoGhostSession /\ LostOnlyToSibling /\ TimedOutWasLate
  BY DEF NoGhostSession, LostOnlyToSibling, TimedOutWasLate, Registered
<1> QED BY <1>1, <1>2, <1>3, <1>4 DEF SInv

\* No handler goes back before its Add.
LEMMA ServedStays == TypeOK /\ [Next]_vars => Served \subseteq Served'
<1> SUFFICES ASSUME TypeOK, [Next]_vars, NEW c \in Served PROVE c \in Served'
  OBVIOUS
<1> USE DEF TypeOK, Served
<1>1. ASSUME NEW d \in Conns, Dial(d) PROVE c \in Served'
  BY <1>1 DEF Dial
<1>2. ASSUME NEW d \in Conns, HandlerStep(d) PROVE c \in Served'
  BY <1>2 DEF HandlerStep, HelloFails, AddChecks, AddStores, AddCounts, Leaves,
              DisconnectRemoves, DisconnectCounts
<1>3. CASE UNCHANGED handler
  BY <1>3
<1>4. ASSUME NEW d \in Conns, ConnectionLost(d) \/ PingStep(d) PROVE UNCHANGED handler
  BY <1>4 DEF ConnectionLost, PingStep, PingGets, PingStamps, PingResets
<1>5. Tick \/ CheckerStep => UNCHANGED handler
  BY DEF Tick, CheckerStep, Visit, Counts, Closes, Removes, PassEnds
<1>6. StopStep => UNCHANGED handler
  BY DEF StopStep, StopCancels, StopCloses, StopClears, StopEnds
<1> QED BY <1>1, <1>2, <1>3, <1>4, <1>5, <1>6 DEF Next, vars

\* The types: connections and handlers,
LEMMA ConnTyped ==
  ASSUME SInv, NEW c \in Conns, Dial(c) \/ ConnectionLost(c) \/ HandlerStep(c)
  PROVE  TypeOK'
<1> USE SessionAssumption DEF SInv, TypeOK, Handlers, Close
<1>1. CASE Dial(c) BY <1>1 DEF Dial
<1>2. CASE ConnectionLost(c) BY <1>2 DEF ConnectionLost
<1>3. CASE HelloFails(c) BY <1>3 DEF HelloFails
<1>4. CASE AddChecks(c) BY <1>4 DEF AddChecks
<1>5. CASE AddStores(c) BY <1>5 DEF AddStores
<1>6. CASE AddCounts(c) BY <1>6 DEF AddCounts
<1>7. CASE Leaves(c) BY <1>7 DEF Leaves
<1>8. CASE DisconnectRemoves(c) BY <1>8 DEF DisconnectRemoves, LoadAndDelete
<1>9. CASE DisconnectCounts(c) BY <1>9 DEF DisconnectCounts
<1> QED BY <1>1, <1>2, <1>3, <1>4, <1>5, <1>6, <1>7, <1>8, <1>9 DEF HandlerStep

\* handlePing,
LEMMA PingTyped == ASSUME SInv, NEW c \in Conns, PingStep(c) PROVE TypeOK'
<1> USE SessionAssumption DEF SInv, TypeOK
<1>1. CASE PingGets(c) BY <1>1 DEF PingGets
<1>2. CASE PingStamps(c)
  <2>1. pinger[c].c \in Conns
    BY <1>2 DEF PingStamps, Pinged, Served
  <2> QED BY <1>2, <2>1 DEF PingStamps
<1>3. CASE PingResets(c)
  <2>1. pinger[c].c \in Conns
    BY <1>3 DEF PingResets, Pinged, Served
  <2> QED BY <1>3, <2>1 DEF PingResets, NoPing
<1> QED BY <1>1, <1>2, <1>3 DEF PingStep

\* the checker,
LEMMA CheckerTyped == ASSUME SInv, Tick \/ CheckerStep PROVE TypeOK'
<1> USE SessionAssumption DEF SInv, TypeOK, Resting
<1>1. CASE Tick
  <2>1. Alive \subseteq Conns
    BY DEF Alive, Registered
  <2>2. age' \in [Conns -> 0 .. AgeBound] /\ late' \subseteq Conns
    BY <1>1, <2>1 DEF Tick
  <2> QED BY <1>1, <2>2 DEF Tick, Registered
<1>2. ASSUME NEW m \in Clients, Visit(m) PROVE TypeOK'
  BY <1>2 DEF Visit
<1>3. CASE Counts
  <2>1. checker.c \in Conns /\ timeouts[checker.c] < MaxTimeouts
    BY <1>3 DEF Counts, Held, Marking, Served, Counted
  <2>2. timeouts[checker.c] + 1 \in 0 .. MaxTimeouts
    BY <2>1
  <2>3. timeouts' \in [Conns -> 0 .. MaxTimeouts]
    BY <1>3, <2>2 DEF Counts
  <2>4. \/ checker' = [checker EXCEPT !.step = "close"]
        \/ checker' = [checker EXCEPT !.step = "pass"]
    BY <1>3 DEF Counts
  <2> QED BY <1>3, <2>3, <2>4 DEF Counts
<1>4. CASE Closes BY <1>4 DEF Closes, Close
<1>5. CASE Removes
  <2>1. count' \in Int
    BY <1>5 DEF Removes
  <2>2. sessions' \in [Clients -> Conns \cup {NoConn}]
    BY <1>5 DEF Removes, LoadAndDelete
  <2>3. checker' = [step |-> "pass", c |-> NoConn, m |-> NoConn, todo |-> checker.todo]
    BY <1>5 DEF Removes
  <2> QED BY <1>5, <2>1, <2>2, <2>3 DEF Removes
<1>6. CASE PassEnds BY <1>6 DEF PassEnds
<1> QED BY <1>1, <1>2, <1>3, <1>4, <1>5, <1>6 DEF CheckerStep

\* Server.Stop.
LEMMA StopTyped == SInv /\ StopStep => TypeOK'
<1> SUFFICES ASSUME SInv, StopStep PROVE TypeOK'
  OBVIOUS
<1> USE SessionAssumption DEF SInv, TypeOK
<1>1. CASE StopCancels BY <1>1 DEF StopCancels
<1>2. CASE StopCloses BY <1>2 DEF StopCloses
<1>3. CASE StopClears BY <1>3 DEF StopClears
<1>4. CASE StopEnds BY <1>4 DEF StopEnds
<1> QED BY <1>1, <1>2, <1>3, <1>4 DEF StopStep

\* The types are kept.
LEMMA TypesKept == SInv /\ [Next]_vars => TypeOK'
<1> SUFFICES ASSUME SInv, [Next]_vars PROVE TypeOK'
  OBVIOUS
<1>1. CASE UNCHANGED vars BY <1>1 DEF SInv, TypeOK, vars
<1>2. ASSUME NEW c \in Conns, Dial(c) \/ ConnectionLost(c) \/ HandlerStep(c) PROVE TypeOK'
  BY <1>2, ConnTyped
<1>3. ASSUME NEW c \in Conns, PingStep(c) PROVE TypeOK'
  BY <1>3, PingTyped
<1> QED BY <1>1, <1>2, <1>3, CheckerTyped, StopTyped DEF Next

\* Who changes the map: Add, a disconnect, the checker, Stop.
LEMMA MapSteps ==
  ASSUME [Next]_vars, sessions' # sessions
  PROVE  \/ \E c \in Conns : AddStores(c) \/ DisconnectRemoves(c)
         \/ Removes \/ StopClears
<1>1. ASSUME NEW c \in Conns, Dial(c) \/ ConnectionLost(c) \/ PingStep(c) PROVE FALSE
  BY <1>1 DEF Dial, ConnectionLost, PingStep, PingGets, PingStamps, PingResets
<1>2. ASSUME NEW c \in Conns, HandlerStep(c) PROVE AddStores(c) \/ DisconnectRemoves(c)
  BY <1>2 DEF HandlerStep, HelloFails, AddChecks, AddCounts, Leaves, DisconnectCounts
<1>3. ~Tick /\ (CheckerStep => Removes)
  BY DEF Tick, CheckerStep, Visit, Counts, Closes, PassEnds
<1>4. StopStep => StopClears
  BY DEF StopStep, StopCancels, StopCloses, StopEnds
<1> QED BY <1>1, <1>2, <1>3, <1>4 DEF Next, vars

\* The map is kept sound.
LEMMA MapKept == SInv /\ [Next]_vars => MapSound'
<1> SUFFICES ASSUME SInv, [Next]_vars, NEW m \in Clients, sessions'[m] # NoConn
             PROVE  sessions'[m] \in Served' /\ ClientOf[sessions'[m]] = m
  BY DEF MapSound
<1>1. Served \subseteq Served'
  BY ServedStays DEF SInv
<1>2. CASE sessions'[m] = sessions[m]
  BY <1>1, <1>2 DEF SInv, MapSound
<1>3. ASSUME NEW c \in Conns, AddStores(c) PROVE sessions'[m] = sessions[m] \/ (sessions'[m] = c /\ c \in Served' /\ ClientOf[c] = m)
  BY <1>3, SessionAssumption DEF AddStores, SInv, TypeOK, Served
<1>4. ASSUME NEW c \in Conns, DisconnectRemoves(c) PROVE sessions'[m] = sessions[m]
  BY <1>4 DEF DisconnectRemoves, LoadAndDelete, SInv, TypeOK
<1>5. Removes => sessions'[m] = sessions[m]
  BY DEF Removes, LoadAndDelete, SInv, TypeOK
<1>6. ~StopClears
  BY DEF StopClears
<1>7. CASE sessions' = sessions
  BY <1>7, <1>2
<1> QED BY <1>2, <1>3, <1>4, <1>5, <1>6, <1>7, MapSteps

\* A connection that was served and is closed stays closed.
LEMMA ClosedStays ==
  ASSUME TypeOK, [Next]_vars, NEW c \in Served, link[c] = "closed"
  PROVE  link'[c] = "closed"
<1> USE DEF TypeOK, Served, Close
<1>1. ASSUME NEW d \in Conns, Dial(d) PROVE link'[c] = "closed"
  BY <1>1 DEF Dial
<1>2. ASSUME NEW d \in Conns, ConnectionLost(d) PROVE link'[c] = "closed"
  BY <1>2 DEF ConnectionLost
<1>3. ASSUME NEW d \in Conns, HandlerStep(d) PROVE link'[c] = "closed"
  BY <1>3 DEF HandlerStep, HelloFails, AddChecks, AddStores, AddCounts, Leaves,
              DisconnectRemoves, DisconnectCounts
<1>4. ASSUME NEW d \in Conns, PingStep(d) PROVE link'[c] = "closed"
  BY <1>4 DEF PingStep, PingGets, PingStamps, PingResets
<1>5. CASE Tick \/ CheckerStep
  BY <1>5 DEF Tick, CheckerStep, Visit, Counts, Closes, Removes, PassEnds
<1>6. CASE StopStep
  BY <1>6 DEF StopStep, StopCancels, StopCloses, StopClears, StopEnds
<1> QED BY <1>1, <1>2, <1>3, <1>4, <1>5, <1>6 DEF Next, vars

\* Who moves the checker.
LEMMA CheckerSteps ==
  ASSUME [Next]_vars, checker' # checker PROVE Tick \/ CheckerStep
<1>1. ASSUME NEW c \in Conns, Dial(c) \/ ConnectionLost(c) \/ PingStep(c) PROVE FALSE
  BY <1>1 DEF Dial, ConnectionLost, PingStep, PingGets, PingStamps, PingResets
<1>2. ASSUME NEW c \in Conns, HandlerStep(c) PROVE FALSE
  BY <1>2 DEF HandlerStep, HelloFails, AddChecks, AddStores, AddCounts, Leaves,
              DisconnectRemoves, DisconnectCounts
<1>3. ~StopStep
  BY DEF StopStep, StopCancels, StopCloses, StopClears, StopEnds
<1> QED BY <1>1, <1>2, <1>3 DEF Next, vars

\* Only a tick makes time pass and sessions late.
LEMMA LateGrows == TypeOK /\ [Next]_vars => late \subseteq late'
<1>1. ASSUME NEW c \in Conns, Dial(c) \/ ConnectionLost(c) \/ PingStep(c) PROVE late' = late
  BY <1>1 DEF Dial, ConnectionLost, PingStep, PingGets, PingStamps, PingResets
<1>2. ASSUME NEW c \in Conns, HandlerStep(c) PROVE late' = late
  BY <1>2 DEF HandlerStep, HelloFails, AddChecks, AddStores, AddCounts, Leaves,
              DisconnectRemoves, DisconnectCounts
<1>3. CheckerStep \/ StopStep => late' = late
  BY DEF CheckerStep, Visit, Counts, Closes, Removes, PassEnds,
         StopStep, StopCancels, StopCloses, StopClears, StopEnds
<1>4. Tick => late \subseteq late'
  BY DEF Tick
<1> QED BY <1>1, <1>2, <1>3, <1>4 DEF Next, vars

\* What the checker holds stays what it read.
LEMMA HeldKept == SInv /\ [Next]_vars => Held'
<1> SUFFICES ASSUME SInv, [Next]_vars PROVE Held'
  OBVIOUS
<1>1. Served \subseteq Served' /\ late \subseteq late'
  BY ServedStays, LateGrows DEF SInv
<1>2. CASE checker' = checker
  BY <1>1, <1>2, ClosedStays DEF SInv, Held, Marking
<1>3. CASE Tick
  BY <1>3 DEF Tick, Held, Marking, Resting
<1>4. ASSUME NEW m \in Clients, Visit(m) PROVE Held'
  <2>1. CASE checker'.step \notin Marking
    BY <2>1 DEF Held
  <2>2. CASE checker'.step \in Marking
    <3>1. /\ sessions[m] # NoConn /\ age[sessions[m]] > Gap
          /\ checker'.step = "expired" /\ checker'.c = sessions[m] /\ checker'.m = m
      BY <1>4, <2>2 DEF Visit, Marking, SInv, TypeOK
    <3>2. sessions[m] \in Served /\ ClientOf[sessions[m]] = m
      BY <3>1 DEF SInv, MapSound
    <3>3. sessions[m] \in late
      BY <3>1, <3>2 DEF SInv, LateMarked, Served
    <3> QED BY <1>1, <3>1, <3>2, <3>3 DEF Held
  <2> QED BY <2>1, <2>2
<1>5. CASE Counts
  <2>1. \/ checker' = [checker EXCEPT !.step = "close"]
        \/ checker' = [checker EXCEPT !.step = "pass"]
    BY <1>5 DEF Counts
  <2> QED BY <1>1, <1>5, <2>1 DEF Counts, SInv, TypeOK, Held, Marking
<1>6. CASE Closes
  <2>1. checker' = [checker EXCEPT !.step = "remove"] /\ checker.step = "close"
    BY <1>6 DEF Closes
  <2>2. checker.c \in Conns
    BY <2>1 DEF SInv, Held, Marking, Served
  <2>3. link'[checker.c] = "closed"
    BY <1>6, <2>2 DEF Closes, Close, SInv, TypeOK
  <2> QED BY <1>1, <2>1, <2>3 DEF SInv, TypeOK, Held, Marking
<1>7. CASE Removes
  BY <1>7 DEF Removes, Held, Marking, Resting
<1>8. CASE PassEnds
  BY <1>8 DEF PassEnds, Held, Marking, Resting
<1> QED BY <1>2, <1>3, <1>4, <1>5, <1>6, <1>7, <1>8, CheckerSteps DEF CheckerStep

\* Counts: who counts is Counts, who forgets is PingResets or Visit.
LEMMA TimeoutSteps ==
  ASSUME SInv, [Next]_vars, NEW c \in Conns
  PROVE  \/ timeouts'[c] = timeouts[c]
         \/ timeouts'[c] = 0
         \/ Counts /\ c = checker.c
<1>1. ASSUME NEW d \in Conns, Dial(d) \/ ConnectionLost(d) \/ HandlerStep(d)
      PROVE timeouts' = timeouts
  BY <1>1 DEF Dial, ConnectionLost, HandlerStep, HelloFails, AddChecks, AddStores,
              AddCounts, Leaves, DisconnectRemoves, DisconnectCounts
<1>2. ASSUME NEW d \in Conns, PingStep(d) PROVE timeouts'[c] = timeouts[c] \/ timeouts'[c] = 0
  BY <1>2 DEF PingStep, PingGets, PingStamps, PingResets, SInv, TypeOK
<1>3. ASSUME NEW m \in Clients, Visit(m) PROVE timeouts'[c] = timeouts[c] \/ timeouts'[c] = 0
  BY <1>3 DEF Visit, SInv, TypeOK
<1>4. CASE Counts
  BY <1>4 DEF Counts, SInv, TypeOK
<1>5. Tick \/ Closes \/ Removes \/ PassEnds \/ StopStep => timeouts' = timeouts
  BY DEF Tick, Closes, Removes, PassEnds, StopStep, StopCancels, StopCloses, StopClears,
         StopEnds
<1> QED BY <1>1, <1>2, <1>3, <1>4, <1>5 DEF Next, CheckerStep, vars

\* A session that has reached the maximum is the one being removed.
LEMMA CountedKept == SInv /\ [Next]_vars => Counted'
<1> SUFFICES ASSUME SInv, [Next]_vars PROVE Counted'
  OBVIOUS
<1>1. Served \subseteq Served' /\ MapSound' /\ Held'
  BY ServedStays, MapKept, HeldKept DEF SInv
<1>2. ASSUME NEW c \in Conns, c \notin Served' PROVE timeouts'[c] = 0
  <2>1. c \notin Served /\ timeouts[c] = 0
    BY <1>1, <1>2 DEF SInv, Counted
  <2>2. Counts => c # checker.c
    BY <2>1 DEF Counts, SInv, Held, Marking
  <2> QED BY <2>1, <2>2, TimeoutSteps
<1>3. ASSUME NEW m \in Clients, sessions'[m] # NoConn,
             timeouts'[sessions'[m]] = MaxTimeouts
      PROVE  checker'.step \in {"close", "remove"} /\ checker'.c = sessions'[m]
  <2> DEFINE c == sessions'[m]
  <2>1. c \in Conns /\ ClientOf[c] = m /\ c \in Served'
    BY <1>1, <1>3 DEF MapSound, Served
  <2>2. MaxTimeouts \in Nat \ {0}
    BY SessionAssumption
  <2>3. CASE Counts
    <3>1. checker' = [checker EXCEPT !.step = IF timeouts[checker.c] + 1 >= MaxTimeouts
                                              THEN "close" ELSE "pass"]
      BY <2>3 DEF Counts
    <3>2. sessions' = sessions /\ checker.step = "expired"
      BY <2>3 DEF Counts
    <3>3. timeouts[c] # MaxTimeouts
      BY <1>3, <3>2 DEF SInv, Counted
    <3>4. c = checker.c
      BY <1>3, <2>1, <2>2, <3>3, TimeoutSteps
    <3>5. timeouts'[c] = timeouts[c] + 1
      BY <2>1, <2>3, <3>4 DEF Counts, SInv, TypeOK
    <3> QED BY <1>3, <2>2, <3>1, <3>4, <3>5 DEF SInv, TypeOK
  <2>4. CASE ~Counts
    <3>1. timeouts[c] = MaxTimeouts
      BY <1>3, <2>1, <2>2, <2>4, TimeoutSteps
    <3>2. c \in Served
      BY <2>1, <2>2, <3>1 DEF SInv, Counted
    <3>3. sessions[m] = c
      <4>1. ASSUME NEW d \in Conns, AddStores(d) PROVE d # c
        BY <3>2, <4>1 DEF AddStores, Served
      <4>2. ASSUME NEW d \in Conns, AddStores(d) \/ DisconnectRemoves(d)
            PROVE sessions[m] = c \/ sessions'[m] = NoConn
        BY <1>3, <4>1, <4>2 DEF AddStores, DisconnectRemoves, LoadAndDelete, SInv, TypeOK
      <4>3. Removes \/ StopClears => sessions[m] = c \/ sessions'[m] = NoConn
        BY <1>3 DEF Removes, StopClears, LoadAndDelete, SInv, TypeOK
      <4> QED BY <1>3, <4>2, <4>3, MapSteps
    <3>4. checker.step \in {"close", "remove"} /\ checker.c = c
      BY <1>3, <3>1, <3>3 DEF SInv, Counted
    <3>5. ~Removes
      BY <1>3, <2>1, <3>4 DEF Removes, LoadAndDelete, SInv, TypeOK, Held, Marking
    <3>6. Closes => checker'.step = "remove" /\ checker'.c = c
      BY <3>4 DEF Closes, SInv, TypeOK
    <3>7. ~Tick /\ (CheckerStep => Closes)
      BY <2>4, <3>4, <3>5 DEF Tick, CheckerStep, Visit, PassEnds
    <3> QED BY <3>4, <3>6, <3>7, CheckerSteps
  <2> QED BY <2>3, <2>4
<1>4. ASSUME checker'.step = "expired" PROVE timeouts'[checker'.c] < MaxTimeouts
  <2>1. checker'.c \in Conns /\ MaxTimeouts \in Nat \ {0}
    BY <1>1, <1>4, SessionAssumption DEF Held, Marking, Served
  <2>2. ~Counts
    BY <1>4 DEF Counts, SInv, TypeOK
  <2>3. timeouts[checker'.c] < MaxTimeouts
    <3>1. CASE checker' = checker
      BY <1>4, <3>1 DEF SInv, Counted
    <3>2. ASSUME NEW m \in Clients, Visit(m) PROVE timeouts[checker'.c] < MaxTimeouts
      <4>1. sessions[m] # NoConn /\ checker'.c = sessions[m] /\ checker.step = "pass"
        BY <1>4, <3>2 DEF Visit, SInv, TypeOK
      <4>2. timeouts[checker'.c] # MaxTimeouts
        BY <4>1 DEF SInv, Counted
      <4>3. timeouts[checker'.c] \in 0 .. MaxTimeouts
        BY <2>1 DEF SInv, TypeOK
      <4> QED BY <2>1, <4>2, <4>3
    <3>3. Tick \/ Removes \/ PassEnds =>
            \E k \in {"rest", "pass"}, T \in {{}, checker.todo, Registered} :
              checker' = [step |-> k, c |-> NoConn, m |-> NoConn, todo |-> T]
      <4>1. Tick => checker' = [step |-> "pass", c |-> NoConn, m |-> NoConn, todo |-> Registered]
        BY DEF Tick, Resting
      <4>2. Removes => checker' = [step |-> "pass", c |-> NoConn, m |-> NoConn, todo |-> checker.todo]
        BY DEF Removes, Resting
      <4>3. PassEnds => checker' = [step |-> "rest", c |-> NoConn, m |-> NoConn, todo |-> {}]
        BY DEF PassEnds, Resting
      <4> QED BY <4>1, <4>2, <4>3
    <3>5. ~(Tick \/ Removes \/ PassEnds)
      BY <1>4, <3>3
    <3>4. ~Closes
      BY <1>4 DEF Closes, SInv, TypeOK
    <3> QED BY <2>2, <3>1, <3>2, <3>4, <3>5, CheckerSteps DEF CheckerStep
  <2> QED BY <2>1, <2>2, <2>3, TimeoutSteps
<1> QED BY <1>2, <1>3, <1>4 DEF Counted

\* A ping answers to a session that was in the map when it was looked up.
LEMMA PingedKept == SInv /\ [Next]_vars => Pinged'
<1> SUFFICES ASSUME SInv, [Next]_vars, NEW c \in Conns, pinger'[c].step # "idle"
             PROVE  pinger'[c].c \in Served'
  BY DEF Pinged
<1>1. Served \subseteq Served'
  BY ServedStays DEF SInv
<1>2. CASE pinger'[c] = pinger[c]
  BY <1>1, <1>2 DEF SInv, Pinged
<1>3. ASSUME NEW d \in Conns, PingStep(d)
      PROVE pinger'[c] = pinger[c] \/ pinger'[c].c \in Served'
  <2>1. CASE PingGets(d)
    <3>1. sessions[ClientOf[d]] \in Served
      BY <2>1, SessionAssumption DEF PingGets, SInv, MapSound
    <3>2. pinger'[c] = pinger[c] \/ pinger'[c] = [step |-> "got", c |-> sessions[ClientOf[d]]]
      BY <2>1 DEF PingGets, SInv, TypeOK
    <3> QED BY <1>1, <3>1, <3>2
  <2>2. CASE PingStamps(d)
    <3>1. pinger[d].c \in Served
      BY <2>2 DEF PingStamps, SInv, Pinged
    <3>2. pinger'[c] = pinger[c] \/ pinger'[c] = [step |-> "stamped", c |-> pinger[d].c]
      BY <2>2 DEF PingStamps, SInv, TypeOK
    <3> QED BY <1>1, <3>1, <3>2
  <2>3. CASE PingResets(d)
    BY <2>3 DEF PingResets, NoPing, SInv, TypeOK
  <2> QED BY <1>3, <2>1, <2>2, <2>3 DEF PingStep
<1>4. ASSUME NEW d \in Conns, Dial(d) \/ ConnectionLost(d) \/ HandlerStep(d)
      PROVE pinger' = pinger
  BY <1>4 DEF Dial, ConnectionLost, HandlerStep, HelloFails, AddChecks, AddStores,
              AddCounts, Leaves, DisconnectRemoves, DisconnectCounts
<1>5. Tick \/ CheckerStep \/ StopStep => pinger' = pinger
  BY DEF Tick, CheckerStep, Visit, Counts, Closes, Removes, PassEnds, StopStep, StopCancels,
         StopCloses, StopClears, StopEnds
<1> QED BY <1>2, <1>3, <1>4, <1>5 DEF Next, vars

\* Whose age passes the limit is marked late by the same tick.
LEMMA LateKept == SInv /\ [Next]_vars => LateMarked'
<1> SUFFICES ASSUME SInv, [Next]_vars, NEW c \in Conns, age'[c] > Gap PROVE c \in late'
  BY DEF LateMarked
<1>1. late \subseteq late' /\ (age[c] > Gap => c \in late) /\ Gap \in Nat
  BY LateGrows, SessionAssumption DEF SInv, LateMarked
<1>2. CASE age'[c] = age[c]
  BY <1>1, <1>2
<1>3. ASSUME NEW d \in Conns, PingStep(d) \/ AddChecks(d) PROVE age'[c] = age[c] \/ age'[c] = 0
  BY <1>3 DEF PingStep, PingGets, PingStamps, PingResets, AddChecks, SInv, TypeOK
<1>4. CASE Tick
  BY <1>1, <1>2, <1>4 DEF Tick
<1>5. ASSUME NEW d \in Conns, Dial(d) \/ ConnectionLost(d) \/ HandlerStep(d), ~AddChecks(d)
      PROVE age' = age
  BY <1>5 DEF Dial, ConnectionLost, HandlerStep, HelloFails, AddStores, AddCounts, Leaves,
              DisconnectRemoves, DisconnectCounts
<1>6. CheckerStep \/ StopStep => age' = age
  BY DEF CheckerStep, Visit, Counts, Closes, Removes, PassEnds, StopStep, StopCancels,
         StopCloses, StopClears, StopEnds
<1> QED BY <1>1, <1>2, <1>3, <1>4, <1>5, <1>6 DEF Next, vars

\* The server does not start running again.
LEMMA RunningBefore == [Next]_vars /\ srv' = "running" => srv = "running"
<1>1. ASSUME NEW c \in Conns, Dial(c) \/ ConnectionLost(c) \/ PingStep(c) PROVE srv' = srv
  BY <1>1 DEF Dial, ConnectionLost, PingStep, PingGets, PingStamps, PingResets
<1>2. ASSUME NEW c \in Conns, HandlerStep(c) PROVE srv' = srv
  BY <1>2 DEF HandlerStep, HelloFails, AddChecks, AddStores, AddCounts, Leaves,
              DisconnectRemoves, DisconnectCounts
<1>3. Tick \/ CheckerStep => srv' = srv
  BY DEF Tick, CheckerStep, Visit, Counts, Closes, Removes, PassEnds
<1>4. StopStep => srv' # "running"
  BY DEF StopStep, StopCancels, StopCloses, StopClears, StopEnds
<1> QED BY <1>1, <1>2, <1>3, <1>4 DEF Next, vars

\* How a handler moves on.
LEMMA HandlerSteps ==
  ASSUME TypeOK, [Next]_vars, NEW c \in Conns, handler'[c] # handler[c]
  PROVE  Dial(c) \/ HandlerStep(c)
<1> USE DEF TypeOK
<1>1. ASSUME NEW d \in Conns, Dial(d) PROVE c = d
  BY <1>1 DEF Dial
<1>2. ASSUME NEW d \in Conns, HandlerStep(d) PROVE c = d
  BY <1>2 DEF HandlerStep, HelloFails, AddChecks, AddStores, AddCounts, Leaves,
              DisconnectRemoves, DisconnectCounts
<1>3. ASSUME NEW d \in Conns, ConnectionLost(d) \/ PingStep(d) PROVE FALSE
  BY <1>3 DEF ConnectionLost, PingStep, PingGets, PingStamps, PingResets
<1>4. ~(Tick \/ CheckerStep \/ StopStep)
  BY DEF Tick, CheckerStep, Visit, Counts, Closes, Removes, PassEnds, StopStep, StopCancels,
         StopCloses, StopClears, StopEnds
<1> QED BY <1>1, <1>2, <1>3, <1>4 DEF Next, vars

\* A handler that still has its disconnect to do takes its session along.
LEMMA GhostKept == SInv /\ [Next]_vars => NoGhostSession'
<1> SUFFICES ASSUME SInv, [Next]_vars, srv' = "running",
                    NEW m \in Clients, sessions'[m] # NoConn
             PROVE  /\ ClientOf[sessions'[m]] = m
                    /\ handler'[sessions'[m]] \in {"stored", "serving", "dropped"}
  BY DEF NoGhostSession, Registered
<1> DEFINE c == sessions'[m]
<1>1. c \in Served' /\ ClientOf[c] = m /\ c \in Conns /\ srv = "running"
  BY MapKept, RunningBefore DEF MapSound, Served
<1>2. c \in Served => handler[c] \in {"stored", "serving", "dropped"}
  <2> HAVE c \in Served
  <2>1. ASSUME NEW d \in Conns, AddStores(d) PROVE d # c
    BY <2>1 DEF AddStores, Served
  <2>2. ASSUME NEW d \in Conns, AddStores(d) \/ DisconnectRemoves(d)
        PROVE sessions[m] = c \/ sessions'[m] = NoConn
    BY <2>1, <2>2 DEF AddStores, DisconnectRemoves, LoadAndDelete, SInv, TypeOK
  <2>3. Removes \/ StopClears => sessions[m] = c \/ sessions'[m] = NoConn
    BY DEF Removes, StopClears, LoadAndDelete, SInv, TypeOK
  <2>4. sessions[m] = c
    BY <2>2, <2>3, MapSteps
  <2> QED BY <1>1, <2>4 DEF SInv, NoGhostSession, Registered
<1>3. CASE handler'[c] = handler[c]
  BY <1>1, <1>2, <1>3 DEF Served
<1>4. ~DisconnectRemoves(c)
  BY <1>1 DEF DisconnectRemoves, LoadAndDelete, SInv, TypeOK
<1>5. AddStores(c) \/ AddCounts(c) \/ Leaves(c)
        => handler'[c] \in {"stored", "serving", "dropped"}
  BY <1>1 DEF AddStores, AddCounts, Leaves, SInv, TypeOK
<1>6. ~(Dial(c) \/ HelloFails(c) \/ AddChecks(c))
  BY <1>1 DEF Dial, HelloFails, AddChecks, SInv, TypeOK, Served
<1>7. ~DisconnectCounts(c)
  BY <1>1, <1>2 DEF DisconnectCounts, Served
<1> QED BY <1>1, <1>3, <1>4, <1>5, <1>6, <1>7, HandlerSteps DEF HandlerStep, SInv

\* Only a sibling's Add or Remove displaces a connection that is open.
LEMMA SiblingKept == SInv /\ [Next]_vars => LostOnlyToSibling'
<1> SUFFICES ASSUME SInv, [Next]_vars, srv' = "running", NEW c \in Conns,
                    handler'[c] \in {"stored", "serving"}, link'[c] = "open",
                    sessions'[ClientOf[c]] # c
             PROVE  \E d \in Served' \ {c} : ClientOf[d] = ClientOf[c]
  BY DEF LostOnlyToSibling
<1> DEFINE m == ClientOf[c]
<1>1. Served \subseteq Served' /\ srv = "running" /\ m \in Clients
  BY ServedStays, RunningBefore, SessionAssumption DEF SInv
<1>2. c \in Served
  <2>1. AddStores(c) => sessions'[m] = c
    BY <1>1 DEF AddStores, SInv, TypeOK
  <2>2. CASE handler'[c] # handler[c]
    <3>1. ~(Dial(c) \/ HelloFails(c) \/ AddChecks(c))
      BY DEF Dial, HelloFails, AddChecks, SInv, TypeOK
    <3> QED BY <2>1, <2>2, <3>1, HandlerSteps
            DEF HandlerStep, AddCounts, Leaves, DisconnectRemoves, DisconnectCounts, SInv, Served
  <2>3. CASE handler'[c] = handler[c]
    BY <2>3 DEF Served
  <2> QED BY <2>2, <2>3
<1>3. handler[c] \in {"stored", "serving"}
  <2>1. CASE handler'[c] # handler[c]
    <3>1. ~(Dial(c) \/ HelloFails(c) \/ AddChecks(c) \/ AddStores(c))
      BY <1>2 DEF Dial, HelloFails, AddChecks, AddStores, Served
    <3>2. ~(Leaves(c) \/ DisconnectRemoves(c) \/ DisconnectCounts(c))
      BY DEF Leaves, DisconnectRemoves, DisconnectCounts, SInv, TypeOK
    <3> QED BY <2>1, <3>1, <3>2, HandlerSteps DEF HandlerStep, AddCounts, SInv
  <2> QED BY <2>1
<1>4. link[c] = "open"
  <2>1. link[c] # "closed"
    BY <1>2, ClosedStays DEF SInv
  <2>2. ASSUME link[c] = "none" PROVE FALSE
    <3>1. ASSUME NEW d \in Conns, Dial(d) PROVE c # d
      BY <1>3, <3>1 DEF Dial
    <3>2. ASSUME NEW d \in Conns, Dial(d) PROVE FALSE
      BY <2>2, <3>1, <3>2 DEF Dial, SInv, TypeOK
    <3>3. ASSUME NEW d \in Conns, ConnectionLost(d) \/ HandlerStep(d) \/ PingStep(d) PROVE FALSE
      BY <2>2, <3>3 DEF ConnectionLost, HandlerStep, HelloFails, AddChecks, AddStores, AddCounts,
                 Leaves, DisconnectRemoves, DisconnectCounts, PingStep, PingGets,
                 PingStamps, PingResets, Close, SInv, TypeOK
    <3>4. ~(Tick \/ CheckerStep)
      BY <2>2 DEF Tick, CheckerStep, Visit, Counts, Closes, Removes, PassEnds, Close, SInv, TypeOK
    <3>5. ~StopStep
      BY <2>2 DEF StopStep, StopCancels, StopCloses, StopClears, StopEnds
    <3> QED BY <2>2, <3>2, <3>3, <3>4, <3>5 DEF Next, vars
  <2> QED BY <2>1, <2>2 DEF SInv, TypeOK
<1>5. CASE sessions[m] # c
  BY <1>1, <1>3, <1>4, <1>5 DEF SInv, LostOnlyToSibling
<1>6. CASE sessions[m] = c
  <2>1. ASSUME NEW d \in Conns, AddStores(d)
        PROVE  d \in Served' /\ d # c /\ ClientOf[d] = m
    BY <1>1, <1>6, <2>1 DEF AddStores, SInv, TypeOK, Served
  <2>2. ASSUME NEW d \in Conns, DisconnectRemoves(d)
        PROVE  d \in Served' /\ d # c /\ ClientOf[d] = m
    BY <1>1, <1>3, <1>6, <2>2, SessionAssumption
       DEF DisconnectRemoves, LoadAndDelete, SInv, TypeOK, Served
  <2>3. CASE Removes
    <3>1. checker.m = m
      BY <1>1, <1>6, <2>3 DEF Removes, LoadAndDelete, SInv, TypeOK
    <3>2. /\ checker.c \in Served /\ ClientOf[checker.c] = m
          /\ link[checker.c] = "closed"
      BY <2>3, <3>1 DEF Removes, SInv, Held, Marking
    <3>3. checker.c # c
      BY <1>4, <3>2
    <3> QED BY <1>1, <3>2, <3>3
  <2>4. ~StopClears
    BY <1>1 DEF StopClears
  <2> QED BY <1>6, <2>1, <2>2, <2>3, <2>4, MapSteps
<1> QED BY <1>5, <1>6

\* Only the checker closes for silence, and only the session it holds.
LEMMA TimedOutKept == SInv /\ [Next]_vars => TimedOutWasLate'
<1> SUFFICES ASSUME SInv, [Next]_vars, NEW c \in Conns, cause'[c] = "timeout" PROVE c \in late'
  BY DEF TimedOutWasLate
<1>1. late \subseteq late' /\ (cause[c] = "timeout" => c \in late)
  BY LateGrows DEF SInv, TimedOutWasLate
<1>2. CASE cause[c] = "timeout"
  BY <1>1, <1>2
<1>3. ASSUME NEW d \in Conns, Dial(d) \/ ConnectionLost(d) \/ HandlerStep(d) \/ PingStep(d)
      PROVE cause[c] = "timeout"
  BY <1>3 DEF Dial, ConnectionLost, HandlerStep, HelloFails, AddChecks, AddStores, AddCounts,
              Leaves, DisconnectRemoves, DisconnectCounts, PingStep, PingGets, PingStamps,
              PingResets, Close, SInv, TypeOK
<1>4. Closes => cause[c] = "timeout" \/ c = checker.c
  BY DEF Closes, Close, SInv, TypeOK
<1>5. Closes => checker.c \in late
  BY DEF Closes, SInv, Held, Marking
<1>6. CheckerStep \/ Tick => Closes \/ cause' = cause
  BY DEF Tick, CheckerStep, Visit, Counts, Removes, PassEnds
<1>7. StopStep => cause[c] = "timeout"
  BY DEF StopStep, StopCancels, StopCloses, StopClears, StopEnds
<1> QED BY <1>1, <1>2, <1>3, <1>4, <1>5, <1>6, <1>7 DEF Next, vars

-----------------------------------------------------------------------------
(* The theorems.                                                           *)

\* SInv is inductive.
THEOREM SessionInvariant == Spec => []SInv
<1>1. Init => SInv
  BY InitSInv
<1>2. SInv /\ [Next]_vars => SInv'
  BY TypesKept, MapKept, HeldKept, CountedKept, PingedKept, LateKept, GhostKept,
     SiblingKept, TimedOutKept DEF SInv
<1> QED BY <1>1, <1>2, PTL DEF Spec

\* Every variable keeps its type; in particular a session is never counted
\* past the maximum.
THEOREM SessionTypeCorrect == Spec => []TypeOK
<1>1. SInv => TypeOK
  BY DEF SInv
<1> QED BY <1>1, SessionInvariant, PTL

\* Add, the checker, LoadAndDelete and the handlers' defers overlap, and yet
\* the map holds no ghost, no connection loses its place but to a sibling, and
\* none is closed for a silence it did not keep.
THEOREM SessionsAlwaysSound == Spec => []SessionsAreSound
<1>1. SInv => SessionsAreSound
  BY DEF SInv, SessionsAreSound
<1> QED BY <1>1, SessionInvariant, PTL

-----------------------------------------------------------------------------
(* ReconnectClient.                                                        *)

\* Who dials, and where the loop is meanwhile; a dial that has a connection
\* has set it.
Dialing ==
  /\ dialer.by = "nobody" <=> dialer.step = "none"
  /\ dialer.by = "loop" <=> loop = "dialing"
  /\ dialer.by = "connect" => loop \in {"await", "ended"}
  /\ dialer.step = "ping" => conn \in ClientConns
  /\ loop = "off" => dialer = Nobody

\* Until the first connection there is nothing that could notice its loss.
Quiet ==
  loop = "off" \/ dialer.by = "connect" =>
    /\ ~signal /\ owed = 0 /\ beats = {}
    /\ \A k \in ClientConns : receivers[k] = 0
    /\ \A i \in Beats : beating[i] = NoClientConn
    /\ dialer.step = "ping" /\ ctx = "live" => state = "CONNECTED"

\* A connection that is lost while the loop is still greeting it is owed for.
PingOwed ==
  ctx = "live" /\ dialer.step = "ping" /\ state # "CONNECTED" => signal \/ owed > 0

\* The loop waits with a backoff within the limits.
Waits == loop \in {"off", "await", "backoff"} => backoff <= MaxBackoff

RInv == ClientTypeOK /\ Dialing /\ Quiet /\ PingOwed /\ Waits /\ NeverForgotten

-----------------------------------------------------------------------------
(* Times.                                                                  *)

\* The numbers a wait is made of.
LEMMA Times ==
  ASSUME NEW b \in Nat, b <= MaxBackoff, NEW j \in Jitter
  PROVE  b + j * (b \div 4) \in 0 .. MaxWait
<1>1. MaxBackoff \in Nat /\ (j = -1 \/ j = 0 \/ j = 1)
  BY ClientAssumption
<1>2. /\ b \div 4 \in Nat /\ b \div 4 <= b
      /\ MaxBackoff \div 4 \in Nat /\ b \div 4 <= MaxBackoff \div 4
  BY <1>1
<1>3. j * (b \div 4) \in {-(b \div 4), 0, b \div 4}
  BY <1>1, <1>2
<1> QED BY <1>1, <1>2, <1>3 DEF MaxWait

\* A backoff that is adjusted, and one that is doubled.
LEMMA Backoffs ==
  ASSUME NEW b \in InitialBackoff .. MaxBackoff
  PROVE  /\ Adjusted(b) \in InitialBackoff .. 2 * MaxBackoff /\ b <= Adjusted(b)
         /\ \A c \in InitialBackoff .. 2 * MaxBackoff :
              /\ Least(2 * c, MaxBackoff) \in InitialBackoff .. MaxBackoff
              /\ Least(2 * c, MaxBackoff) >= Least(c, MaxBackoff)
         /\ MaxBackoff <= 2 * MaxBackoff /\ InitialBackoff \in InitialBackoff .. MaxBackoff
<1>1. InitialBackoff \in Nat \ {0} /\ MaxBackoff \in Nat /\ MaxBackoff >= InitialBackoff
  BY ClientAssumption
<1>2. (3 * b) \div 2 \in b .. 2 * b
  BY <1>1
<1>3. Adjusted(b) \in {(3 * b) \div 2, 2 * b, b}
  BY DEF Adjusted
<1> QED BY <1>1, <1>2, <1>3 DEF Least

-----------------------------------------------------------------------------
(* Every conjunct of RInv is preserved by every step.                      *)

\* A new client satisfies the invariant.
LEMMA InitRInv == ClientInit => RInv
<1> SUFFICES ASSUME ClientInit PROVE RInv
  OBVIOUS
<1> USE ClientAssumption DEF ClientInit
<1>1. ClientTypeOK
  <2>1. wait \in 0 .. MaxWait
    BY DEF MaxWait
  <2>2. /\ backoff \in InitialBackoff .. 2 * MaxBackoff /\ failures \in 0 .. MaxFailures - 1
        /\ owed \in 0 .. MaxOwed /\ faults \in 0 .. MaxFaults
        /\ receivers \in [ClientConns -> 0 .. MaxReceivers]
    OBVIOUS
  <2>3. /\ quicConn \in [ClientConns -> {"free", "up", "down"}]
        /\ beating \in [Beats -> ClientConns \cup {NoClientConn}]
        /\ dialer \in [by : {"nobody", "connect", "loop"}, step : {"none", "dial", "ping"}]
    BY DEF Nobody
  <2> QED BY <2>1, <2>2, <2>3 DEF ClientTypeOK
<1>2. Dialing /\ Quiet /\ PingOwed /\ Waits /\ NeverForgotten
  BY DEF Dialing, Quiet, PingOwed, Waits, NeverForgotten, Nobody
<1> QED BY <1>1, <1>2 DEF RInv

\* What a dial that failed leaves is of the right type,
LEMMA FailedTyped ==
  ASSUME RInv, NEW kind \in ErrorKinds, Failed(kind)
  PROVE  /\ state' \in {"IDLE", "CONNECTING", "CONNECTED"}
         /\ dialer' \in [by : {"nobody", "connect", "loop"}, step : {"none", "dial", "ping"}]
         /\ loop' \in {"off", "await", "backoff", "dialing", "ended"}
         /\ signal' \in BOOLEAN
         /\ backoff' \in InitialBackoff .. 2 * MaxBackoff
         /\ lastErrorType' \in {"Transient", "Timeout", "Refused", "Unknown"}
         /\ loop' \in {"off", "await", "backoff"} => backoff' <= MaxBackoff
<1> USE ClientAssumption DEF RInv, ClientTypeOK, Failed
<1>1. /\ backoff \in InitialBackoff .. 2 * MaxBackoff
      /\ Least(2 * backoff, MaxBackoff) \in InitialBackoff .. MaxBackoff
      /\ MaxBackoff <= 2 * MaxBackoff /\ MaxBackoff \in Nat /\ InitialBackoff \in Nat
  BY Backoffs
<1>2. signal' \in BOOLEAN
  OBVIOUS
<1>3. loop' \in {"off", "await", "backoff"} => backoff' <= MaxBackoff
  BY <1>1 DEF Dialing, Waits
<1> QED BY <1>1, <1>2, <1>3 DEF Nobody

\* and every other step's.
LEMMA ClientTypesKept == RInv /\ [ClientNext]_clientVars => ClientTypeOK'
<1> SUFFICES ASSUME RInv, [ClientNext]_clientVars PROVE ClientTypeOK'
  OBVIOUS
<1> USE ClientAssumption DEF RInv, ClientTypeOK, Forget, Fault, Least

<1>1. CASE Connect BY <1>1 DEF Connect
<1>2. CASE DialFails
  <2>1. PICK kind \in ErrorKinds : Failed(kind)
    BY <1>2 DEF DialFails
  <2>2. faults' \in 0 .. MaxFaults
    BY <1>2 DEF DialFails
  <2> QED BY <1>2, <2>1, <2>2, FailedTyped DEF DialFails
<1>3. CASE PingFails
  <2>1. PICK kind \in ErrorKinds : Failed(kind)
    BY <1>3 DEF PingFails
  <2>2. faults' \in 0 .. MaxFaults
    BY <1>3 DEF PingFails
  <2>3. quicConn' \in [ClientConns -> {"free", "up", "down"}]
    BY <1>3 DEF PingFails
  <2> QED BY <1>3, <2>1, <2>2, <2>3, FailedTyped DEF PingFails
<1>4. CASE PingAnswered
  <2>1. conn \in ClientConns
    BY <1>4 DEF PingAnswered, Dialing
  <2>2. receivers' \in [ClientConns -> 0 .. MaxReceivers]
    <3>1. receivers[conn] \in 0 .. MaxReceivers /\ Least(receivers[conn] + 1, MaxReceivers) \in 0 .. MaxReceivers
      BY <2>1
    <3> QED BY <1>4, <3>1 DEF PingAnswered
  <2>3. backoff' \in InitialBackoff .. 2 * MaxBackoff
    BY <1>4 DEF PingAnswered
  <2>4. beats' \subseteq Beats
    BY <1>4 DEF PingAnswered
  <2> QED BY <1>4, <2>1, <2>2, <2>3, <2>4 DEF PingAnswered, Nobody
<1>5. CASE TakeSignal
  <2>1. PICK j \in Jitter : wait' = backoff + j * (backoff \div 4)
    BY <1>5 DEF TakeSignal
  <2>2. backoff \in Nat /\ backoff <= MaxBackoff
    BY <1>5 DEF TakeSignal, Waits
  <2>3. wait' \in 0 .. MaxWait
    BY <2>1, <2>2, Times
  <2> QED BY <1>5, <2>3 DEF TakeSignal
<1>6. CASE Redial
  <2>1. backoff \in InitialBackoff .. MaxBackoff
    BY <1>6 DEF Redial, Waits
  <2>2. backoff' \in InitialBackoff .. 2 * MaxBackoff
    BY <1>6, <2>1, Backoffs DEF Redial
  <2>3. wait' \in 0 .. MaxWait
    BY <1>6 DEF Redial, MaxWait
  <2> QED BY <1>6, <2>2, <2>3 DEF Redial
<1>7. CASE LoopEnds
  <2>1. wait' \in 0 .. MaxWait
    BY <1>7 DEF LoopEnds, MaxWait
  <2> QED BY <1>7, <2>1 DEF LoopEnds
<1>8. CASE Notify BY <1>8 DEF Notify
<1>9. CASE Cancel BY <1>9 DEF Cancel
<1>10. CASE CloseConn BY <1>10 DEF CloseConn
<1>11. CASE Disconnected BY <1>11 DEF Disconnected
<1>12. ASSUME NEW k \in ClientConns, DialConnects(k) PROVE ClientTypeOK'
  BY <1>12 DEF DialConnects
<1>13. ASSUME NEW k \in ClientConns, ReceiverEnds(k) PROVE ClientTypeOK'
  BY <1>13 DEF ReceiverEnds
<1>14. ASSUME NEW k \in ClientConns, Receive(k) PROVE ClientTypeOK'
  <2> DEFINE r == [receivers EXCEPT ![k] = @ - 1]
  <2>1. r \in [ClientConns -> 0 .. MaxReceivers]
    BY <1>14 DEF Receive
  <2>2. receivers' = [r EXCEPT ![conn] = Least(@ + 1, MaxReceivers)]
    BY <1>14 DEF Receive
  <2>3. receivers' \in [ClientConns -> 0 .. MaxReceivers]
    <3> HIDE DEF r
    <3>1. CASE conn \in ClientConns
      <4>1. Least(r[conn] + 1, MaxReceivers) \in 0 .. MaxReceivers
        BY <2>1, <3>1
      <4> QED BY <2>1, <2>2, <4>1
    <3>2. CASE conn \notin ClientConns
      BY <2>1, <2>2, <3>2
    <3> QED BY <3>1, <3>2
  <2> QED BY <1>14, <2>3 DEF Receive
<1>15. ASSUME NEW k \in ClientConns, LinkLost(k) PROVE ClientTypeOK'
  BY <1>15 DEF LinkLost
<1>16. ASSUME NEW k \in ClientConns, ServerExpires(k) PROVE ClientTypeOK'
  BY <1>16 DEF ServerExpires
<1>17. ASSUME NEW i \in Beats, BeatStarts(i) PROVE ClientTypeOK'
  BY <1>17 DEF BeatStarts
<1>18. ASSUME NEW i \in Beats, BeatAnswered(i) PROVE ClientTypeOK'
  BY <1>18 DEF BeatAnswered
<1>19. ASSUME NEW i \in Beats, BeatFails(i) PROVE ClientTypeOK'
  BY <1>19 DEF BeatFails
<1>20. ASSUME NEW i \in Beats, BeatEnds(i) PROVE ClientTypeOK'
  BY <1>20 DEF BeatEnds
<1>21. CASE UNCHANGED clientVars BY <1>21 DEF clientVars
<1> QED BY <1>1, <1>2, <1>3, <1>4, <1>5, <1>6, <1>7, <1>8, <1>9, <1>10, <1>11, <1>12,
        <1>13, <1>14, <1>15, <1>16, <1>17, <1>18, <1>19, <1>20, <1>21 DEF ClientNext,
        DialStep, LoopStep, BeatStep, Environment

\* Dialer and loop go together.
LEMMA DialingKept == RInv /\ [ClientNext]_clientVars => Dialing'
<1> SUFFICES ASSUME RInv, [ClientNext]_clientVars PROVE Dialing'
  OBVIOUS
<1> USE ClientAssumption DEF RInv, ClientTypeOK, Dialing, Failed, Nobody

<1>1. CASE Connect BY <1>1 DEF Connect
<1>2. CASE DialFails BY <1>2 DEF DialFails
<1>3. CASE PingFails BY <1>3 DEF PingFails
<1>4. CASE PingAnswered BY <1>4 DEF PingAnswered
<1>5. CASE TakeSignal BY <1>5 DEF TakeSignal, Quiet
<1>6. CASE Redial BY <1>6 DEF Redial
<1>7. CASE LoopEnds BY <1>7 DEF LoopEnds
<1>8. CASE Notify BY <1>8 DEF Notify
<1>9. CASE Cancel BY <1>9 DEF Cancel
<1>10. CASE CloseConn BY <1>10 DEF CloseConn
<1>11. CASE Disconnected BY <1>11 DEF Disconnected
<1>12. ASSUME NEW k \in ClientConns, DialConnects(k) PROVE Dialing'
  BY <1>12 DEF DialConnects
<1>13. ASSUME NEW k \in ClientConns, ReceiverEnds(k) PROVE Dialing'
  BY <1>13 DEF ReceiverEnds
<1>14. ASSUME NEW k \in ClientConns, Receive(k) PROVE Dialing'
  BY <1>14 DEF Receive
<1>15. ASSUME NEW k \in ClientConns, LinkLost(k) PROVE Dialing'
  BY <1>15 DEF LinkLost
<1>16. ASSUME NEW k \in ClientConns, ServerExpires(k) PROVE Dialing'
  BY <1>16 DEF ServerExpires
<1>17. ASSUME NEW i \in Beats, BeatStarts(i) PROVE Dialing'
  BY <1>17 DEF BeatStarts
<1>18. ASSUME NEW i \in Beats, BeatAnswered(i) PROVE Dialing'
  BY <1>18 DEF BeatAnswered
<1>19. ASSUME NEW i \in Beats, BeatFails(i) PROVE Dialing'
  BY <1>19 DEF BeatFails
<1>20. ASSUME NEW i \in Beats, BeatEnds(i) PROVE Dialing'
  BY <1>20 DEF BeatEnds
<1>21. CASE UNCHANGED clientVars BY <1>21 DEF clientVars
<1> QED BY <1>1, <1>2, <1>3, <1>4, <1>5, <1>6, <1>7, <1>8, <1>9, <1>10, <1>11, <1>12,
        <1>13, <1>14, <1>15, <1>16, <1>17, <1>18, <1>19, <1>20, <1>21 DEF ClientNext,
        DialStep, LoopStep, BeatStep, Environment

\* Nothing stirs before the first connection.
LEMMA QuietKept == RInv /\ [ClientNext]_clientVars => Quiet'
<1> SUFFICES ASSUME RInv, [ClientNext]_clientVars PROVE Quiet'
  OBVIOUS
<1> USE ClientAssumption DEF RInv, ClientTypeOK, Dialing, Quiet, Failed, Nobody

<1>1. CASE Connect BY <1>1 DEF Connect
<1>2. CASE DialFails BY <1>2 DEF DialFails
<1>3. CASE PingFails BY <1>3 DEF PingFails
<1>4. CASE PingAnswered BY <1>4 DEF PingAnswered
<1>5. CASE TakeSignal BY <1>5 DEF TakeSignal
<1>6. CASE Redial BY <1>6 DEF Redial
<1>7. CASE LoopEnds BY <1>7 DEF LoopEnds
<1>8. CASE Notify BY <1>8 DEF Notify
<1>9. CASE Cancel BY <1>9 DEF Cancel
<1>10. CASE CloseConn BY <1>10 DEF CloseConn
<1>11. CASE Disconnected BY <1>11 DEF Disconnected
<1>12. ASSUME NEW k \in ClientConns, DialConnects(k) PROVE Quiet'
  BY <1>12 DEF DialConnects
<1>13. ASSUME NEW k \in ClientConns, ReceiverEnds(k) PROVE Quiet'
  BY <1>13 DEF ReceiverEnds
<1>14. ASSUME NEW k \in ClientConns, Receive(k) PROVE Quiet'
  BY <1>14 DEF Receive
<1>15. ASSUME NEW k \in ClientConns, LinkLost(k) PROVE Quiet'
  BY <1>15 DEF LinkLost
<1>16. ASSUME NEW k \in ClientConns, ServerExpires(k) PROVE Quiet'
  BY <1>16 DEF ServerExpires
<1>17. ASSUME NEW i \in Beats, BeatStarts(i) PROVE Quiet'
  BY <1>17 DEF BeatStarts
<1>18. ASSUME NEW i \in Beats, BeatAnswered(i) PROVE Quiet'
  BY <1>18 DEF BeatAnswered
<1>19. ASSUME NEW i \in Beats, BeatFails(i) PROVE Quiet'
  BY <1>19 DEF BeatFails
<1>20. ASSUME NEW i \in Beats, BeatEnds(i) PROVE Quiet'
  BY <1>20 DEF BeatEnds
<1>21. CASE UNCHANGED clientVars BY <1>21 DEF clientVars
<1> QED BY <1>1, <1>2, <1>3, <1>4, <1>5, <1>6, <1>7, <1>8, <1>9, <1>10, <1>11, <1>12,
        <1>13, <1>14, <1>15, <1>16, <1>17, <1>18, <1>19, <1>20, <1>21 DEF ClientNext,
        DialStep, LoopStep, BeatStep, Environment

\* The loss of a connection that is being greeted stays owed.
LEMMA PingOwedKept == RInv /\ [ClientNext]_clientVars => PingOwed'
<1> SUFFICES ASSUME RInv, [ClientNext]_clientVars PROVE PingOwed'
  OBVIOUS
<1> USE ClientAssumption DEF RInv, ClientTypeOK, Dialing, Quiet, PingOwed, Failed, Nobody

<1>1. CASE Connect BY <1>1 DEF Connect
<1>2. CASE DialFails BY <1>2 DEF DialFails
<1>3. CASE PingFails BY <1>3 DEF PingFails
<1>4. CASE PingAnswered BY <1>4 DEF PingAnswered
<1>5. CASE TakeSignal BY <1>5 DEF TakeSignal
<1>6. CASE Redial BY <1>6 DEF Redial
<1>7. CASE LoopEnds BY <1>7 DEF LoopEnds
<1>8. CASE Notify BY <1>8 DEF Notify
<1>9. CASE Cancel BY <1>9 DEF Cancel
<1>10. CASE CloseConn BY <1>10 DEF CloseConn
<1>11. CASE Disconnected BY <1>11 DEF Disconnected
<1>12. ASSUME NEW k \in ClientConns, DialConnects(k) PROVE PingOwed'
  BY <1>12 DEF DialConnects
<1>13. ASSUME NEW k \in ClientConns, ReceiverEnds(k) PROVE PingOwed'
  BY <1>13 DEF ReceiverEnds
<1>14. ASSUME NEW k \in ClientConns, Receive(k) PROVE PingOwed'
  BY <1>14 DEF Receive
<1>15. ASSUME NEW k \in ClientConns, LinkLost(k) PROVE PingOwed'
  BY <1>15 DEF LinkLost
<1>16. ASSUME NEW k \in ClientConns, ServerExpires(k) PROVE PingOwed'
  BY <1>16 DEF ServerExpires
<1>17. ASSUME NEW i \in Beats, BeatStarts(i) PROVE PingOwed'
  BY <1>17 DEF BeatStarts
<1>18. ASSUME NEW i \in Beats, BeatAnswered(i) PROVE PingOwed'
  BY <1>18 DEF BeatAnswered
<1>19. ASSUME NEW i \in Beats, BeatFails(i) PROVE PingOwed'
  BY <1>19 DEF BeatFails
<1>20. ASSUME NEW i \in Beats, BeatEnds(i) PROVE PingOwed'
  BY <1>20 DEF BeatEnds
<1>21. CASE UNCHANGED clientVars BY <1>21 DEF clientVars
<1> QED BY <1>1, <1>2, <1>3, <1>4, <1>5, <1>6, <1>7, <1>8, <1>9, <1>10, <1>11, <1>12,
        <1>13, <1>14, <1>15, <1>16, <1>17, <1>18, <1>19, <1>20, <1>21 DEF ClientNext,
        DialStep, LoopStep, BeatStep, Environment

\* So does every reconnect.
LEMMA NeverForgottenKept == RInv /\ [ClientNext]_clientVars => NeverForgotten'
<1> SUFFICES ASSUME RInv, [ClientNext]_clientVars PROVE NeverForgotten'
  OBVIOUS
<1> USE ClientAssumption DEF RInv, ClientTypeOK, Dialing, Quiet, PingOwed, NeverForgotten, Failed,
        Nobody

<1>1. CASE Connect BY <1>1 DEF Connect
<1>2. CASE DialFails BY <1>2 DEF DialFails
<1>3. CASE PingFails BY <1>3 DEF PingFails
<1>4. CASE PingAnswered BY <1>4 DEF PingAnswered
<1>5. CASE TakeSignal BY <1>5 DEF TakeSignal
<1>6. CASE Redial BY <1>6 DEF Redial
<1>7. CASE LoopEnds BY <1>7 DEF LoopEnds
<1>8. CASE Notify BY <1>8 DEF Notify
<1>9. CASE Cancel BY <1>9 DEF Cancel
<1>10. CASE CloseConn BY <1>10 DEF CloseConn
<1>11. CASE Disconnected BY <1>11 DEF Disconnected
<1>12. ASSUME NEW k \in ClientConns, DialConnects(k) PROVE NeverForgotten'
  BY <1>12 DEF DialConnects
<1>13. ASSUME NEW k \in ClientConns, ReceiverEnds(k) PROVE NeverForgotten'
  BY <1>13 DEF ReceiverEnds
<1>14. ASSUME NEW k \in ClientConns, Receive(k) PROVE NeverForgotten'
  BY <1>14 DEF Receive
<1>15. ASSUME NEW k \in ClientConns, LinkLost(k) PROVE NeverForgotten'
  BY <1>15 DEF LinkLost
<1>16. ASSUME NEW k \in ClientConns, ServerExpires(k) PROVE NeverForgotten'
  BY <1>16 DEF ServerExpires
<1>17. ASSUME NEW i \in Beats, BeatStarts(i) PROVE NeverForgotten'
  BY <1>17 DEF BeatStarts
<1>18. ASSUME NEW i \in Beats, BeatAnswered(i) PROVE NeverForgotten'
  BY <1>18 DEF BeatAnswered
<1>19. ASSUME NEW i \in Beats, BeatFails(i) PROVE NeverForgotten'
  BY <1>19 DEF BeatFails
<1>20. ASSUME NEW i \in Beats, BeatEnds(i) PROVE NeverForgotten'
  BY <1>20 DEF BeatEnds
<1>21. CASE UNCHANGED clientVars BY <1>21 DEF clientVars
<1> QED BY <1>1, <1>2, <1>3, <1>4, <1>5, <1>6, <1>7, <1>8, <1>9, <1>10, <1>11, <1>12,
        <1>13, <1>14, <1>15, <1>16, <1>17, <1>18, <1>19, <1>20, <1>21 DEF ClientNext,
        DialStep, LoopStep, BeatStep, Environment

\* The loop waits within the limits.
LEMMA WaitsKept == RInv /\ [ClientNext]_clientVars => Waits'
<1> SUFFICES ASSUME RInv, [ClientNext]_clientVars, loop' \in {"off", "await", "backoff"}
             PROVE  backoff' <= MaxBackoff
  BY DEF Waits
<1> USE ClientAssumption
<1>1. ASSUME NEW kind \in ErrorKinds, Failed(kind) PROVE backoff' <= MaxBackoff
  BY <1>1, FailedTyped
<1>2. DialFails \/ PingFails => \E kind \in ErrorKinds : Failed(kind)
  BY DEF DialFails, PingFails
<1>3. CASE backoff' = backoff /\ (loop' = loop \/ loop \in {"off", "await"})
  BY <1>3 DEF RInv, Waits
<1>4. Connect \/ TakeSignal => backoff' = backoff /\ loop \in {"off", "await"}
  BY DEF Connect, TakeSignal
<1>5. ~Redial /\ ~LoopEnds
  BY DEF Redial, LoopEnds
<1>6. PingAnswered => backoff' = InitialBackoff \/ (backoff' = backoff /\ loop' = loop)
  BY DEF PingAnswered
<1>7. ASSUME NEW k \in ClientConns, DialConnects(k) \/ ReceiverEnds(k) \/ Receive(k) \/ Environment(k)
      PROVE  backoff' = backoff /\ loop' = loop
  BY <1>7 DEF DialConnects, ReceiverEnds, Receive, Environment, LinkLost, ServerExpires
<1>8. ASSUME NEW i \in Beats, BeatStep(i) PROVE backoff' = backoff /\ loop' = loop
  BY <1>8 DEF BeatStep, BeatStarts, BeatAnswered, BeatFails, BeatEnds
<1>9. Notify \/ Cancel \/ CloseConn \/ Disconnected \/ UNCHANGED clientVars
        => backoff' = backoff /\ loop' = loop
  BY DEF Notify, Cancel, CloseConn, Disconnected, clientVars
<1>10. InitialBackoff <= MaxBackoff
  OBVIOUS
<1> QED BY <1>1, <1>2, <1>3, <1>4, <1>5, <1>6, <1>7, <1>8, <1>9, <1>10 DEF ClientNext, DialStep, LoopStep

-----------------------------------------------------------------------------
(* The theorems.                                                           *)

\* RInv is inductive.
THEOREM ReconnectInvariant == ClientSpec => []RInv
<1>1. ClientInit => RInv
  BY InitRInv
<1>2. RInv /\ [ClientNext]_clientVars => RInv'
  BY ClientTypesKept, DialingKept, QuietKept, PingOwedKept, WaitsKept, NeverForgottenKept DEF RInv
<1> QED BY <1>1, <1>2, PTL DEF ClientSpec

\* Every variable keeps its type: backoff and wait stay within what
\* MaxBackoff, the multipliers and the jitter allow.
THEOREM ReconnectTypeCorrect == ClientSpec => []ClientTypeOK
<1>1. RInv => ClientTypeOK
  BY DEF RInv
<1> QED BY <1>1, ReconnectInvariant, PTL

\* A client that is not connected and not dialling has a reconnect coming,
\* whichever goroutine notices the loss and whatever notifyDisconnect drops.
THEOREM ReconnectAlwaysOwed == ClientSpec => []ReconnectIsOwed
<1>1. RInv => ReconnectIsOwed
  BY DEF RInv, ReconnectIsOwed
<1> QED BY <1>1, ReconnectInvariant, PTL

\* While attempts fail the loop waits no shorter than before.
THEOREM BackoffMonotone == ClientSpec => BackoffNeverShrinks
<1> DEFINE Step == loop = "dialing" /\ loop' = "await" /\ session' = session
                     => backoff' >= Least(backoff, MaxBackoff)
<1>1. ASSUME RInv, [ClientNext]_clientVars, loop = "dialing", loop' = "await", session' = session
      PROVE  backoff' >= Least(backoff, MaxBackoff)
  <2> USE <1>1, ClientAssumption
  <2>1. /\ backoff \in InitialBackoff .. 2 * MaxBackoff /\ dialer.by = "loop" /\ NoClientConn \notin ClientConns
        /\ dialer.step = "ping" => conn \in ClientConns
    BY DEF RInv, ClientTypeOK, Dialing
  <2>2. Least(2 * backoff, MaxBackoff) >= Least(backoff, MaxBackoff)
    BY <2>1, Backoffs DEF Least
  <2>3. ASSUME NEW kind \in ErrorKinds, Failed(kind) PROVE backoff' >= Least(backoff, MaxBackoff)
    BY <2>1, <2>2, <2>3 DEF Failed
  <2>4. ~PingAnswered
    BY <2>1 DEF PingAnswered
  <2>5. DialFails \/ PingFails => \E kind \in ErrorKinds : Failed(kind)
    BY DEF DialFails, PingFails
  <2>6. ~(Connect \/ LoopStep \/ Notify \/ Cancel \/ CloseConn \/ Disconnected \/ UNCHANGED clientVars)
    BY DEF Connect, LoopStep, TakeSignal, Redial, LoopEnds, Notify, Cancel, CloseConn,
           Disconnected, clientVars
  <2>7. ASSUME NEW k \in ClientConns, DialConnects(k) \/ ReceiverEnds(k) \/ Receive(k) \/ Environment(k)
        PROVE  FALSE
    BY <2>7 DEF DialConnects, ReceiverEnds, Receive, Environment, LinkLost, ServerExpires
  <2>8. ASSUME NEW i \in Beats, BeatStep(i) PROVE FALSE
    BY <2>8 DEF BeatStep, BeatStarts, BeatAnswered, BeatFails, BeatEnds
  <2> QED BY <2>3, <2>4, <2>5, <2>6, <2>7, <2>8 DEF ClientNext, DialStep
<1>2. RInv /\ [ClientNext]_clientVars => [Step]_clientVars
  BY <1>1
<1> QED BY <1>2, ReconnectInvariant, PTL DEF ClientSpec, BackoffNeverShrinks
=============================================================================
