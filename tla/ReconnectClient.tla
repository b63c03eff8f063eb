--------------------------- MODULE ReconnectClient ---------------------------
(***************************************************************************)
(* pkg/transport/client (client.go, heartbeat.go, receiveLoop): one client *)
(* that keeps itself connected, and as much of the server as it meets: the *)
(* server has one session for a client ID, refuses a second connection     *)
(* while the first one is registered (SessionManager.Add) and closes a     *)
(* connection that sends no heartbeats.                                    *)
(*                                                                         *)
(* The goroutines are Connect, reconnectLoop, the heartbeatLoops and the   *)
(* receiveLoops.  A connection number is used again when its connection is *)
(* gone and nothing refers to it.                                          *)
(***************************************************************************)
EXTENDS Integers, FiniteSets

CONSTANTS
  ClientConns,    \* connection numbers (a bound on those alive together)
  NoClientConn,   \* a nil c.conn, a client without a session
  Beats,          \* heartbeatLoop goroutines (bound: later ones are not kept)
  MaxFailures,    \* ClientConfig.MaxHeartbeatFailures
  InitialBackoff, MaxBackoff, \* ClientConfig, in milliseconds
  Jitter,         \* jitter in quarters of the backoff (JitterRatio 0.25)
  ErrorKinds,     \* what ClassifyNetworkError makes of a failed dial
  MaxFaults,      \* bound: how often the network misbehaves
  MaxReceivers,   \* bound: receiveLoops on a connection (later ones are not kept)
  MaxOwed         \* bound: goroutines on their way to notifyDisconnect

ASSUME ClientAssumption ==
  /\ NoClientConn \notin ClientConns
  /\ IsFiniteSet(ClientConns)
  /\ MaxFailures \in Nat \ {0}
  /\ InitialBackoff \in Nat \ {0}
  /\ MaxBackoff \in Nat /\ MaxBackoff >= InitialBackoff
  /\ Jitter \subseteq {-1, 0, 1}
  /\ ErrorKinds \subseteq {"Transient", "Timeout", "Refused", "Unknown"}
  /\ MaxFaults \in Nat
  /\ MaxReceivers \in Nat \ {0}
  /\ MaxOwed \in Nat \ {0}

VARIABLES
  state,          \* Client.state
  conn,           \* Client.conn
  quicConn,       \* QUIC connections as the client sees them
  session,        \* the connection the server has a session for
  dialer,         \* who is inside dial, and where
  loop,           \* reconnectLoop
  receivers,      \* number of receiveLoops blocked on a connection
  beats,          \* heartbeatLoops that run
  beating,        \* the connection a heartbeat is under way on
  failures,       \* Client.heartbeatFailures
  signal,         \* disconnectCh (capacity 1)
  owed,           \* goroutines between setState(IDLE) and notifyDisconnect
  backoff,        \* the local variable of reconnectLoop
  wait,           \* the time reconnectLoop is waiting for
  lastErrorType,  \* Client.lastErrorType
  ctx,            \* progress of Disconnect
  faults          \* how often the network has misbehaved

clientVars == <<state, conn, quicConn, session, dialer, loop, receivers, beats, beating,
                failures, signal, owed, backoff, wait, lastErrorType, ctx, faults>>

Nobody == [by |-> "nobody", step |-> "none"]
MaxWait == MaxBackoff + MaxBackoff \div 4

ClientTypeOK ==
  /\ state \in {"IDLE", "CONNECTING", "CONNECTED"}
  /\ conn \in ClientConns \cup {NoClientConn}
  /\ quicConn \in [ClientConns -> {"free", "up", "down"}]
  /\ session \in ClientConns \cup {NoClientConn}
  /\ dialer \in [by : {"nobody", "connect", "loop"}, step : {"none", "dial", "ping"}]
  /\ loop \in {"off", "await", "backoff", "dialing", "ended"}
  /\ receivers \in [ClientConns -> 0 .. MaxReceivers]
  /\ beats \subseteq Beats
  /\ beating \in [Beats -> ClientConns \cup {NoClientConn}]
  /\ failures \in 0 .. MaxFailures - 1
  /\ signal \in BOOLEAN
  /\ owed \in 0 .. MaxOwed
  /\ backoff \in InitialBackoff .. 2 * MaxBackoff
  /\ wait \in 0 .. MaxWait
  /\ lastErrorType \in {"Transient", "Timeout", "Refused", "Unknown"}
  /\ ctx \in {"live", "cancelled", "closed", "done"}
  /\ faults \in 0 .. MaxFaults

ClientInit ==
  /\ state = "IDLE"
  /\ conn = NoClientConn
  /\ quicConn = [k \in ClientConns |-> "free"]
  /\ session = NoClientConn
  /\ dialer = Nobody
  /\ loop = "off"
  /\ receivers = [k \in ClientConns |-> 0]
  /\ beats = {}
  /\ beating = [i \in Beats |-> NoClientConn]
  /\ failures = 0
  /\ signal = FALSE
  /\ owed = 0
  /\ backoff = InitialBackoff
  /\ wait = 0
  /\ lastErrorType = "Transient"
  /\ ctx = "live"
  /\ faults = 0

-----------------------------------------------------------------------------
Least(a, b) == IF a < b THEN a ELSE b

\* GetBackoffMultiplier.
Adjusted(b) ==
  CASE lastErrorType = "Timeout" -> (3 * b) \div 2
    [] lastErrorType = "Refused" -> 2 * b
    [] OTHER -> b

\* A connection that is gone is forgotten when nothing points to it.
Forget(l, c, rx, bt) ==
  [k \in ClientConns |-> IF l[k] = "down" /\ k # c /\ rx[k] = 0 /\ \A i \in Beats : bt[i] # k
                   THEN "free" ELSE l[k]]

\* The network misbehaves once more.
Fault == faults < MaxFaults /\ faults' = faults + 1

-----------------------------------------------------------------------------
(* Connect, dial and reconnectLoop.                                        *)

\* Connect starts the loop and dials.
Connect ==
  /\ ctx = "live"
  /\ loop = "off"
  /\ loop' = "await"
  /\ state' = "CONNECTING"
  /\ dialer' = [by |-> "connect", step |-> "dial"]
  /\ UNCHANGED <<conn, quicConn, session, receivers, beats, beating, failures,
                 signal, owed, backoff, wait, lastErrorType, ctx, faults>>

\* The loop takes the signal and waits, with jitter.
TakeSignal ==
  /\ ctx = "live"
  /\ loop = "await"
  /\ signal
  /\ signal' = FALSE
  /\ loop' = "backoff"
  /\ \E j \in Jitter : wait' = backoff + j * (backoff \div 4)
  /\ UNCHANGED <<state, conn, quicConn, session, dialer, receivers, beats, beating,
                 failures, owed, backoff, lastErrorType, ctx, faults>>

\* The backoff is adjusted to the last error and the loop dials.
Redial ==
  /\ ctx = "live"
  /\ loop = "backoff"
  /\ loop' = "dialing"
  /\ wait' = 0
  /\ backoff' = Adjusted(backoff)
  /\ state' = "CONNECTING"
  /\ dialer' = [by |-> "loop", step |-> "dial"]
  /\ UNCHANGED <<conn, quicConn, session, receivers, beats, beating, failures,
                 signal, owed, lastErrorType, ctx, faults>>

\* Slip: after a failed attempt the loop waits for the next disconnect.
FailedQuietly(kind) ==
  /\ state' = "IDLE"
  /\ dialer' = Nobody
  /\ signal' = (IF dialer.by = "connect" THEN TRUE ELSE signal)
  /\ loop' = IF dialer.by = "loop" THEN "await" ELSE loop
  /\ backoff' = IF dialer.by = "loop" THEN Least(2 * backoff, MaxBackoff) ELSE backoff
  /\ lastErrorType' = IF dialer.by = "loop" THEN kind ELSE lastErrorType

\* Slip: the backoff starts over after a failure.
FailedForgets(kind) ==
  /\ state' = "IDLE"
  /\ dialer' = Nobody
  /\ signal' = (ctx = "live" \/ dialer.by = "connect" \/ signal)
  /\ loop' = IF dialer.by = "loop" THEN IF ctx = "live" THEN "await" ELSE "ended" ELSE loop
  /\ backoff' = InitialBackoff
  /\ lastErrorType' = IF dialer.by = "loop" THEN kind ELSE lastErrorType

\* Slip: the doubled backoff is not capped.
FailedUncapped(kind) ==
  /\ state' = "IDLE"
  /\ dialer' = Nobody
  /\ signal' = (ctx = "live" \/ dialer.by = "connect" \/ signal)
  /\ loop' = IF dialer.by = "loop" THEN IF ctx = "live" THEN "await" ELSE "ended" ELSE loop
  /\ backoff' = 2 * backoff
  /\ lastErrorType' = kind

\* What a failed dial leaves behind: IDLE and, unless the client is being
\* stopped, a signal for the next attempt.
Failed(kind) ==
  /\ state' = "IDLE"
  /\ dialer' = Nobody
  /\ signal' = (ctx = "live" \/ dialer.by = "connect" \/ signal)
  /\ loop' = IF dialer.by = "loop" THEN IF ctx = "live" THEN "await" ELSE "ended" ELSE loop
  /\ backoff' = IF dialer.by = "loop" /\ ctx = "live" THEN Least(2 * backoff, MaxBackoff)
                ELSE backoff
  /\ lastErrorType' = IF dialer.by = "loop" THEN kind ELSE lastErrorType

DialFails ==
  /\ dialer.step = "dial"
  /\ IF ctx = "live" THEN Fault ELSE UNCHANGED faults
  /\ \E kind \in ErrorKinds : Failed(kind)
  /\ UNCHANGED <<conn, quicConn, session, receivers, beats, beating, failures, owed,
                 wait, ctx>>

\* DialAddr returns a connection, which takes the place of the last one, open
\* or not; the state is CONNECTED before the first PING.
DialConnects(k) ==
  /\ dialer.step = "dial"
  /\ quicConn[k] = "free"
  /\ conn' = k
  /\ quicConn' = Forget([quicConn EXCEPT ![k] = "up"], k, receivers, beating)
  /\ state' = "CONNECTED"
  /\ dialer' = [dialer EXCEPT !.step = "ping"]
  /\ UNCHANGED <<session, loop, receivers, beats, beating, failures, signal,
                 owed, backoff, wait, lastErrorType, ctx, faults>>

\* sendInitialPing fails: the server has a session for the client already and
\* closes the connection, the connection is lost, or the client is stopping.
PingFails ==
  /\ dialer.step = "ping"
  /\ \/ session # NoClientConn /\ UNCHANGED faults
     \/ quicConn[conn] # "up" /\ UNCHANGED faults
     \/ ctx # "live" /\ UNCHANGED faults
     \/ ctx = "live" /\ Fault
  /\ quicConn' = [quicConn EXCEPT ![conn] = "down"]
  /\ \E kind \in ErrorKinds : Failed(kind)
  /\ UNCHANGED <<conn, session, receivers, beats, beating, failures, owed, wait, ctx>>

\* The first PONG: the server has registered the connection.  The counters
\* start over, another heartbeatLoop and another receiveLoop are started.
PingAnswered ==
  /\ dialer.step = "ping"
  /\ ctx = "live"
  /\ quicConn[conn] = "up"
  /\ session = NoClientConn
  /\ session' = conn
  /\ dialer' = Nobody
  /\ IF dialer.by = "loop"
     THEN loop' = "await" /\ backoff' = InitialBackoff /\ lastErrorType' = "Unknown"
     ELSE UNCHANGED <<loop, backoff, lastErrorType>>
  /\ receivers' = [receivers EXCEPT ![conn] = Least(@ + 1, MaxReceivers)]
  /\ IF beats = Beats THEN UNCHANGED beats
     ELSE \E i \in Beats \ beats : beats' = beats \cup {i}
  /\ UNCHANGED <<state, conn, quicConn, beating, failures, signal, owed, wait, ctx, faults>>

\* notifyDisconnect, after setState(IDLE): dropped when a signal is waiting.
Notify ==
  /\ owed > 0
  /\ owed' = owed - 1
  /\ signal' = TRUE
  /\ UNCHANGED <<state, conn, quicConn, session, dialer, loop, receivers, beats,
                 beating, failures, backoff, wait, lastErrorType, ctx, faults>>

-----------------------------------------------------------------------------
(* heartbeatLoop.                                                          *)

\* The ticker fires while the state is CONNECTED: a PING on c.conn.
BeatStarts(i) ==
  /\ ctx = "live"
  /\ i \in beats
  /\ beating[i] = NoClientConn
  /\ state = "CONNECTED"
  /\ beating' = [beating EXCEPT ![i] = conn]
  /\ UNCHANGED <<state, conn, quicConn, session, dialer, loop, receivers, beats,
                 failures, signal, owed, backoff, wait, lastErrorType, ctx, faults>>

BeatAnswered(i) ==
  /\ beating[i] # NoClientConn
  /\ quicConn[beating[i]] = "up"
  /\ session = beating[i]
  /\ failures' = 0
  /\ beating' = [beating EXCEPT ![i] = NoClientConn]
  /\ quicConn' = Forget(quicConn, conn, receivers, beating')
  /\ UNCHANGED <<state, conn, session, dialer, loop, receivers, beats, signal,
                 owed, backoff, wait, lastErrorType, ctx, faults>>

\* No PONG in time, or the stream fails.  At the limit the client goes IDLE
\* and owes a notification; the connection is not closed.
BeatFails(i) ==
  /\ beating[i] # NoClientConn
  /\ owed < MaxOwed
  /\ IF quicConn[beating[i]] = "up" /\ session \in {beating[i], NoClientConn}
     THEN Fault ELSE UNCHANGED faults
  /\ beating' = [beating EXCEPT ![i] = NoClientConn]
  /\ quicConn' = Forget(quicConn, conn, receivers, beating')
  /\ IF failures + 1 >= MaxFailures
     THEN failures' = 0 /\ state' = "IDLE" /\ owed' = owed + 1
     ELSE failures' = failures + 1 /\ UNCHANGED <<state, owed>>
  /\ UNCHANGED <<conn, session, dialer, loop, receivers, beats, signal,
                 backoff, wait, lastErrorType, ctx>>

-----------------------------------------------------------------------------
(* receiveLoop.                                                            *)

\* Slip: the loop that ends does not report it.
ReceiverEndsQuietly(k) ==
  /\ receivers[k] > 0
  /\ quicConn[k] # "up" \/ ctx # "live"
  /\ receivers' = [receivers EXCEPT ![k] = @ - 1]
  /\ quicConn' = Forget(quicConn, conn, receivers', beating)
  /\ IF ctx = "live" THEN state' = "IDLE" ELSE UNCHANGED state
  /\ UNCHANGED <<conn, session, dialer, loop, beats, beating, failures, signal,
                 owed, backoff, wait, lastErrorType, ctx, faults>>

\* AcceptStream fails: the loop ends; unless the client is stopping, it sets
\* IDLE whatever connection is current by now, and owes a notification.
ReceiverEnds(k) ==
  /\ receivers[k] > 0
  /\ owed < MaxOwed
  /\ quicConn[k] # "up" \/ ctx # "live"
  /\ receivers' = [receivers EXCEPT ![k] = @ - 1]
  /\ quicConn' = Forget(quicConn, conn, receivers', beating)
  /\ IF ctx = "live" THEN state' = "IDLE" /\ owed' = owed + 1 ELSE UNCHANGED <<state, owed>>
  /\ UNCHANGED <<conn, session, dialer, loop, beats, beating, failures, signal,
                 backoff, wait, lastErrorType, ctx, faults>>

\* A message arrives on k; the loop goes on with c.conn.
Receive(k) ==
  /\ receivers[k] > 0
  /\ quicConn[k] = "up"
  /\ session = k
  /\ conn # k
  /\ receivers' = [receivers EXCEPT ![k] = @ - 1,
                                      ![conn] = Least(@ + 1, MaxReceivers)]
  /\ UNCHANGED <<state, conn, quicConn, session, dialer, loop, beats, beating,
                 failures, signal, owed, backoff, wait, lastErrorType, ctx, faults>>

-----------------------------------------------------------------------------
(* The network and the server.                                             *)

\* A connection dies, for the server too.
LinkLost(k) ==
  /\ quicConn[k] = "up"
  /\ Fault
  /\ quicConn' = Forget([quicConn EXCEPT ![k] = "down"], conn, receivers, beating)
  /\ session' = IF session = k THEN NoClientConn ELSE session
  /\ UNCHANGED <<state, conn, dialer, loop, receivers, beats, beating, failures,
                 signal, owed, backoff, wait, lastErrorType, ctx>>

\* A session without heartbeats: the server closes its connection.
ServerExpires(k) ==
  /\ session = k
  /\ conn # k \/ state # "CONNECTED" \/ quicConn[k] # "up"
  /\ session' = NoClientConn
  /\ quicConn' = Forget([quicConn EXCEPT ![k] = "down"], conn, receivers, beating)
  /\ UNCHANGED <<state, conn, dialer, loop, receivers, beats, beating, failures,
                 signal, owed, backoff, wait, lastErrorType, ctx, faults>>

-----------------------------------------------------------------------------
(* Disconnect.                                                             *)

Cancel ==
  /\ ctx = "live"
  /\ ctx' = "cancelled"
  /\ UNCHANGED <<state, conn, quicConn, session, dialer, loop, receivers, beats,
                 beating, failures, signal, owed, backoff, wait, lastErrorType, faults>>

CloseConn ==
  /\ ctx = "cancelled"
  /\ ctx' = "closed"
  /\ quicConn' = IF conn = NoClientConn THEN quicConn ELSE [quicConn EXCEPT ![conn] = "down"]
  /\ session' = IF session = conn THEN NoClientConn ELSE session
  /\ UNCHANGED <<state, conn, dialer, loop, receivers, beats, beating, failures,
                 signal, owed, backoff, wait, lastErrorType, faults>>

\* Slip: the loop watches the context only while it waits.
LoopEndsWaiting ==
  /\ ctx # "live"
  /\ loop \in {"off", "backoff"}
  /\ loop' = "ended"
  /\ wait' = 0
  /\ UNCHANGED <<state, conn, quicConn, session, dialer, receivers, beats, beating,
                 failures, signal, owed, backoff, lastErrorType, ctx, faults>>

LoopEnds ==
  /\ ctx # "live"
  /\ loop \in {"off", "await", "backoff"}
  /\ loop' = "ended"
  /\ wait' = 0
  /\ UNCHANGED <<state, conn, quicConn, session, dialer, receivers, beats, beating,
                 failures, signal, owed, backoff, lastErrorType, ctx, faults>>

BeatEnds(i) ==
  /\ ctx # "live"
  /\ i \in beats
  /\ beating[i] = NoClientConn
  /\ beats' = beats \ {i}
  /\ UNCHANGED <<state, conn, quicConn, session, dialer, loop, receivers, beating,
                 failures, signal, owed, backoff, wait, lastErrorType, ctx, faults>>

\* Every goroutine has returned: the state is IDLE.
Disconnected ==
  /\ ctx = "closed"
  /\ loop = "ended" /\ dialer = Nobody /\ beats = {} /\ owed = 0
  /\ \A k \in ClientConns : receivers[k] = 0
  /\ ctx' = "done"
  /\ state' = "IDLE"
  /\ UNCHANGED <<conn, quicConn, session, dialer, loop, receivers, beats, beating,
                 failures, signal, owed, backoff, wait, lastErrorType, faults>>

-----------------------------------------------------------------------------
DialStep == DialFails \/ (\E k \in ClientConns : DialConnects(k)) \/ PingFails \/ PingAnswered
LoopStep == TakeSignal \/ Redial \/ LoopEnds
BeatStep(i) == BeatStarts(i) \/ BeatAnswered(i) \/ BeatFails(i) \/ BeatEnds(i)
Environment(k) == LinkLost(k) \/ ServerExpires(k)

ClientNext ==
  \/ Connect
  \/ DialStep
  \/ LoopStep
  \/ Notify
  \/ \E i \in Beats : BeatStep(i)
  \/ \E k \in ClientConns : ReceiverEnds(k) \/ Receive(k) \/ Environment(k)
  \/ Cancel \/ CloseConn \/ Disconnected

ClientSpec == ClientInit /\ [][ClientNext]_clientVars

\* The goroutines run, timers fire, and the server drops silent sessions.
\* A dial that is not disturbed any more succeeds when there is a connection
\* number left.  Nothing makes a connection be lost or Disconnect be called.
ClientFairness ==
  /\ WF_clientVars(Connect)
  /\ WF_clientVars(DialStep)
  /\ WF_clientVars(TakeSignal) /\ WF_clientVars(Redial) /\ WF_clientVars(LoopEnds)
  /\ WF_clientVars(Notify)
  /\ \A i \in Beats : /\ WF_clientVars(BeatStarts(i)) /\ WF_clientVars(BeatEnds(i))
                      /\ WF_clientVars(BeatAnswered(i) \/ BeatFails(i))
  /\ \A k \in ClientConns : /\ WF_clientVars(ReceiverEnds(k)) /\ WF_clientVars(ServerExpires(k))
  /\ WF_clientVars(CloseConn) /\ WF_clientVars(Disconnected)

FairClient == ClientSpec /\ ClientFairness

-----------------------------------------------------------------------------
(* Properties.                                                             *)

\* A client that is not connected never forgets to reconnect: when its loop
\* waits for a signal, there is one, or a goroutine that is about to give it.
\* disconnectCh has room for one and notifyDisconnect drops the rest.
NeverForgotten ==
  ctx = "live" /\ loop = "await" /\ dialer = Nobody /\ state # "CONNECTED"
    => signal \/ owed > 0

\* FR-004: while attempts fail, the loop never waits for a shorter time (but
\* for the jitter), until one succeeds.
BackoffNeverShrinks ==
  [][loop = "dialing" /\ loop' = "await" /\ session' = session =>
       backoff' >= Least(backoff, MaxBackoff)]_clientVars

\* FR-004, SC-006: whatever is lost, refused or late, the server has a session
\* with the client's connection again and again, while the network only fails
\* finitely often.  The server must get rid of an old session first.
EventuallyReconnects ==
  []<>(ctx = "live" => conn # NoClientConn /\ session = conn)

\* Disconnect returns: no goroutine of the client is stuck.
DisconnectReturns == ctx # "live" ~> ctx = "done"

\* The loop, its signal and the goroutines that owe one never all go quiet
\* without a connection.
ReconnectIsOwed == ClientTypeOK /\ NeverForgotten

\* The client comes back as long as it lives, and ends when it is told to.
ClientGoesOn == EventuallyReconnects /\ DisconnectReturns

-----------------------------------------------------------------------------
(* Claims of the documentation that the code does not keep.                *)

\* spec.md: once the network has settled, the client keeps its connection.
EventuallyStable == <>[](state = "CONNECTED" \/ ctx # "live")

\* FR-006, heartbeat.go: one PING every 15 seconds, that is one loop.
OneHeartbeatLoop == Cardinality(beats) <= 1

\* FR-004: the longest wait is MaxBackoff.
WaitWithinMax == wait <= MaxBackoff

\* Disconnect closes the connection to the server.
DisconnectedIsClosed == ctx = "done" => \A k \in ClientConns : quicConn[k] # "up"
=============================================================================
