--------------------------- MODULE SessionManager ---------------------------
(***************************************************************************)
(* pkg/session (session.go, manager.go) and the connection handlers of     *)
(* pkg/transport/server/server.go that use it.                             *)
(*                                                                         *)
(* A session is identified with its QUIC connection c; ClientOf[c] is the  *)
(* client ID its first PING frame carries.  The goroutines that interleave *)
(* are handleConnection and handlePing of every connection, the heartbeat  *)
(* checker and Server.Stop.  Time passes in ticks of the checker (5 s):    *)
(* age[c] counts the ticks since c's last heartbeat, so age n stands for a *)
(* silence of more than n - 1 ticks.                                       *)
(***************************************************************************)
EXTENDS Integers, FiniteSets

CONSTANTS
  Clients,      \* client IDs
  Conns,        \* QUIC connections, each with the session made for it
  ClientOf,     \* the client ID a connection presents
  NoConn,       \* an ID without a session
  Gap,          \* 15 s, in ticks of the checker (3)
  MaxTimeouts,  \* SessionManagerConfig.MaxTimeoutCount
  AgeBound,     \* bound: age stops counting here
  Mute          \* bound: connections without a PING after the first one

ASSUME SessionAssumption ==
  /\ ClientOf \in [Conns -> Clients]
  /\ NoConn \notin Conns
  /\ Gap \in Nat \ {0}
  /\ MaxTimeouts \in Nat \ {0}
  /\ AgeBound \in Nat /\ AgeBound > Gap

VARIABLES
  sessions,     \* sync.Map: client ID -> session
  count,        \* atomic counter next to the map
  link,         \* the QUIC connection
  handler,      \* where handleConnection of the connection is
  age,          \* ticks since lastHeartbeat was stored
  timeouts,     \* ClientSession.TimeoutCount
  pinger,       \* where handlePing of the connection is, with its session
  checker,      \* where checkHeartbeats is: step, session, key, keys to visit
  late,         \* history: sessions that have been silent for more than 15 s
  cause,        \* history: who closed the connection first
  srv           \* progress of Server.Stop

vars == <<sessions, count, link, handler, age, timeouts, pinger, checker,
          late, cause, srv>>

Handlers == {"none", "hello", "checked", "stored", "serving", "dropped",
             "removed", "left", "refused"}
Resting  == [step |-> "rest", c |-> NoConn, m |-> NoConn, todo |-> {}]

TypeOK ==
  /\ sessions \in [Clients -> Conns \cup {NoConn}]
  /\ count \in Int
  /\ link \in [Conns -> {"none", "open", "closed"}]
  /\ handler \in [Conns -> Handlers]
  /\ age \in [Conns -> 0 .. AgeBound]
  /\ timeouts \in [Conns -> 0 .. MaxTimeouts]
  /\ pinger \in [Conns -> [step : {"idle", "got", "stamped"}, c : Conns \cup {NoConn}]]
  /\ checker \in [step : {"rest", "pass", "expired", "close", "remove"},
                  c : Conns \cup {NoConn}, m : Clients \cup {NoConn},
                  todo : SUBSET Clients]
  /\ late \subseteq Conns
  /\ cause \in [Conns -> {"none", "peer", "server", "timeout", "shutdown"}]
  /\ srv \in {"running", "cancelled", "closing", "cleared", "stopped"}

NoPing == [step |-> "idle", c |-> NoConn]

Init ==
  /\ sessions = [m \in Clients |-> NoConn]
  /\ count = 0
  /\ link = [c \in Conns |-> "none"]
  /\ handler = [c \in Conns |-> "none"]
  /\ age = [c \in Conns |-> 0]
  /\ timeouts = [c \in Conns |-> 0]
  /\ pinger = [c \in Conns |-> NoPing]
  /\ checker = Resting
  /\ late = {}
  /\ cause = [c \in Conns |-> "none"]
  /\ srv = "running"

-----------------------------------------------------------------------------
Registered == {m \in Clients : sessions[m] # NoConn}

\* Connections whose Add has stored a session.
Served == {c \in Conns : handler[c] \in {"stored", "serving", "dropped", "removed", "left"}}

\* Sessions that exist: made by handleConnection and still in use.
Alive ==
  {c \in Conns : handler[c] \in {"checked", "stored", "serving", "dropped", "removed"}}
    \cup {sessions[m] : m \in Registered}

\* Slip: the ID is looked up and kept.
LoadOnly(m) == m \in Clients /\ UNCHANGED sessions

\* sessions.LoadAndDelete in Remove.
LoadAndDelete(m) == sessions' = [sessions EXCEPT ![m] = NoConn]

Close(c, why) ==
  /\ link' = [link EXCEPT ![c] = "closed"]
  /\ cause' = IF link[c] = "open" THEN [cause EXCEPT ![c] = why] ELSE cause

-----------------------------------------------------------------------------
(* The client and the network.                                             *)

Dial(c) ==
  /\ srv = "running"
  /\ handler[c] = "none"
  /\ link' = [link EXCEPT ![c] = "open"]
  /\ handler' = [handler EXCEPT ![c] = "hello"]
  /\ UNCHANGED <<sessions, count, age, timeouts, pinger, checker, late, cause, srv>>

\* The client closes the connection, or QUIC gives it up.
ConnectionLost(c) ==
  /\ link[c] = "open"
  /\ Close(c, "peer")
  /\ UNCHANGED <<sessions, count, handler, age, timeouts, pinger, checker, late, srv>>

-----------------------------------------------------------------------------
(* handleConnection.                                                       *)

\* No first stream, no valid first PING frame, or no client ID.
HelloFails(c) ==
  /\ handler[c] = "hello"
  /\ handler' = [handler EXCEPT ![c] = "refused"]
  /\ Close(c, "server")
  /\ UNCHANGED <<sessions, count, age, timeouts, pinger, checker, late, srv>>

\* NewClientSession stamps the session; Add loads the client ID: a client
\* that has a session is refused.
AddChecks(c) ==
  /\ handler[c] = "hello"
  /\ IF sessions[ClientOf[c]] = NoConn
     THEN /\ handler' = [handler EXCEPT ![c] = "checked"]
          /\ age' = [age EXCEPT ![c] = 0]
          /\ UNCHANGED <<link, cause>>
     ELSE /\ handler' = [handler EXCEPT ![c] = "refused"]
          /\ Close(c, "server")
          /\ UNCHANGED age
  /\ UNCHANGED <<sessions, count, timeouts, pinger, checker, late, srv>>

AddStores(c) ==
  /\ handler[c] = "checked"
  /\ handler' = [handler EXCEPT ![c] = "stored"]
  /\ sessions' = [sessions EXCEPT ![ClientOf[c]] = c]
  /\ UNCHANGED <<count, link, age, timeouts, pinger, checker, late, cause, srv>>

\* count.Add(1), OnConnect, the first PONG; from here streams are accepted.
AddCounts(c) ==
  /\ handler[c] = "stored"
  /\ handler' = [handler EXCEPT ![c] = "serving"]
  /\ count' = count + 1
  /\ UNCHANGED <<sessions, link, age, timeouts, pinger, checker, late, cause, srv>>

\* Slip: a handler that ends without handleDisconnect when the server closed
\* the connection itself.
LeavesQuietly(c) ==
  /\ handler[c] = "serving"
  /\ link[c] = "closed" \/ srv # "running"
  /\ handler' = [handler EXCEPT ![c] =
       IF srv = "running" /\ cause[c] = "peer" THEN "dropped" ELSE "left"]
  /\ UNCHANGED <<sessions, count, link, age, timeouts, pinger, checker, late, cause, srv>>

\* AcceptStream fails: a shutdown ends the handler, anything else is a
\* disconnect.
Leaves(c) ==
  /\ handler[c] = "serving"
  /\ link[c] = "closed" \/ srv # "running"
  /\ handler' = [handler EXCEPT ![c] = IF srv = "running" THEN "dropped" ELSE "left"]
  /\ UNCHANGED <<sessions, count, link, age, timeouts, pinger, checker, late, cause, srv>>

\* handleDisconnect: Remove deletes what the client ID maps to, whosever
\* session that is by now.
DisconnectRemoves(c) ==
  /\ handler[c] = "dropped"
  /\ handler' = [handler EXCEPT ![c] =
       IF sessions[ClientOf[c]] # NoConn THEN "removed" ELSE "left"]
  /\ LoadAndDelete(ClientOf[c])
  /\ UNCHANGED <<count, link, age, timeouts, pinger, checker, late, cause, srv>>

DisconnectCounts(c) ==
  /\ handler[c] = "removed"
  /\ handler' = [handler EXCEPT ![c] = "left"]
  /\ count' = count - 1
  /\ UNCHANGED <<sessions, link, age, timeouts, pinger, checker, late, cause, srv>>

-----------------------------------------------------------------------------
(* handlePing, one at a time on a connection: a client sends its next PING  *)
(* when the last one is answered or given up.                              *)

\* A PING stream: the session is looked up by client ID; without one there
\* is no PONG.
PingGets(c) ==
  /\ handler[c] = "serving"
  /\ link[c] = "open"
  /\ pinger[c].step = "idle"
  /\ sessions[ClientOf[c]] # NoConn
  /\ pinger' = [pinger EXCEPT ![c] = [step |-> "got", c |-> sessions[ClientOf[c]]]]
  /\ UNCHANGED <<sessions, count, link, handler, age, timeouts, checker, late, cause, srv>>

PingStamps(c) ==
  /\ pinger[c].step = "got"
  /\ age' = [age EXCEPT ![pinger[c].c] = 0]
  /\ pinger' = [pinger EXCEPT ![c] = [step |-> "stamped", c |-> pinger[c].c]]
  /\ UNCHANGED <<sessions, count, link, handler, timeouts, checker, late, cause, srv>>

PingResets(c) ==
  /\ pinger[c].step = "stamped"
  /\ timeouts' = [timeouts EXCEPT ![pinger[c].c] = 0]
  /\ pinger' = [pinger EXCEPT ![c] = NoPing]
  /\ UNCHANGED <<sessions, count, link, handler, age, checker, late, cause, srv>>

-----------------------------------------------------------------------------
(* heartbeatChecker and checkHeartbeats.                                   *)

\* The ticker starts a pass over the map.
Tick ==
  /\ srv \in {"running", "cancelled"}
  /\ checker.step = "rest"
  /\ age' = [c \in Conns |-> IF c \in Alive /\ age[c] < AgeBound THEN age[c] + 1 ELSE age[c]]
  /\ late' = late \cup {c \in Alive : age'[c] > Gap}
  /\ checker' = [Resting EXCEPT !.step = "pass", !.todo = Registered]
  /\ UNCHANGED <<sessions, count, link, handler, timeouts, pinger, cause, srv>>

\* Slip: a session's count is reset by every pass.
VisitForgets(m) ==
  /\ checker.step = "pass"
  /\ m \in checker.todo
  /\ LET c == sessions[m]
         rest == checker.todo \ {m}
     IN IF c = NoConn
        THEN checker' = [checker EXCEPT !.todo = rest] /\ UNCHANGED timeouts
        ELSE /\ timeouts' = [timeouts EXCEPT ![c] = 0]
             /\ checker' = IF age[c] > Gap
                           THEN [step |-> "expired", c |-> c, m |-> m, todo |-> rest]
                           ELSE [checker EXCEPT !.todo = rest]
  /\ UNCHANGED <<sessions, count, link, handler, age, pinger, late, cause, srv>>

\* Range reaches a key: an expired session is counted next, a live one has
\* its count reset.
Visit(m) ==
  /\ checker.step = "pass"
  /\ m \in checker.todo
  /\ LET c == sessions[m]
         rest == checker.todo \ {m}
     IN \/ /\ c # NoConn /\ age[c] > Gap
           /\ checker' = [step |-> "expired", c |-> c, m |-> m, todo |-> rest]
           /\ UNCHANGED timeouts
        \/ /\ c # NoConn /\ age[c] <= Gap
           /\ checker' = [checker EXCEPT !.todo = rest]
           /\ timeouts' = [timeouts EXCEPT ![c] = 0]
        \/ /\ c = NoConn
           /\ checker' = [checker EXCEPT !.todo = rest]
           /\ UNCHANGED timeouts
  /\ UNCHANGED <<sessions, count, link, handler, age, pinger, late, cause, srv>>

\* Slip: close on the count after the maximum.
CountsPastMax ==
  /\ checker.step = "expired"
  /\ timeouts' = [timeouts EXCEPT ![checker.c] = @ + 1]
  /\ checker' = [checker EXCEPT !.step =
       IF timeouts[checker.c] >= MaxTimeouts THEN "close" ELSE "pass"]
  /\ UNCHANGED <<sessions, count, link, handler, age, pinger, late, cause, srv>>

\* IncrementTimeoutCount; at the maximum OnHeartbeatTimeout is called.
Counts ==
  /\ checker.step = "expired"
  /\ timeouts' = [timeouts EXCEPT ![checker.c] = @ + 1]
  /\ checker' = [checker EXCEPT !.step =
       IF timeouts[checker.c] + 1 >= MaxTimeouts THEN "close" ELSE "pass"]
  /\ UNCHANGED <<sessions, count, link, handler, age, pinger, late, cause, srv>>

\* Slip: the session is looked up again before it is closed.
ClosesCurrent ==
  /\ checker.step = "close"
  /\ IF sessions[checker.m] # NoConn THEN Close(sessions[checker.m], "timeout")
     ELSE UNCHANGED <<link, cause>>
  /\ checker' = [checker EXCEPT !.step = "remove"]
  /\ UNCHANGED <<sessions, count, handler, age, timeouts, pinger, late, srv>>

\* Slip: the session is dropped and its connection left open.
ClosesNothing ==
  /\ checker.step = "close"
  /\ checker' = [checker EXCEPT !.step = "remove"]
  /\ UNCHANGED <<sessions, count, link, handler, age, timeouts, pinger, late, cause, srv>>

\* session.Close on the session the pass has read.
Closes ==
  /\ checker.step = "close"
  /\ Close(checker.c, "timeout")
  /\ checker' = [checker EXCEPT !.step = "remove"]
  /\ UNCHANGED <<sessions, count, handler, age, timeouts, pinger, late, srv>>

\* Remove by client ID (Stop waits for the pass, so that the map and the
\* counter may change in one step here).
Removes ==
  /\ checker.step = "remove"
  /\ LoadAndDelete(checker.m)
  /\ count' = IF sessions[checker.m] # NoConn THEN count - 1 ELSE count
  /\ checker' = [Resting EXCEPT !.step = "pass", !.todo = checker.todo]
  /\ UNCHANGED <<link, handler, age, timeouts, pinger, late, cause, srv>>

PassEnds ==
  /\ checker.step = "pass"
  /\ checker.todo = {}
  /\ checker' = Resting
  /\ UNCHANGED <<sessions, count, link, handler, age, timeouts, pinger, late, cause, srv>>

-----------------------------------------------------------------------------
(* Server.Stop.                                                            *)

\* running is cleared, the context cancelled, the listener closed.
StopCancels ==
  /\ srv = "running"
  /\ srv' = "cancelled"
  /\ UNCHANGED <<sessions, count, link, handler, age, timeouts, pinger, checker, late, cause>>

\* SessionManager.Stop waits for the checker; CloseAll ranges over the map.
StopCloses ==
  /\ srv = "cancelled"
  /\ checker.step = "rest"
  /\ srv' = "closing"
  /\ LET shut == {sessions[m] : m \in Registered} IN
     /\ link' = [c \in Conns |-> IF c \in shut THEN "closed" ELSE link[c]]
     /\ cause' = [c \in Conns |-> IF c \in shut /\ link[c] = "open"
                                  THEN "shutdown" ELSE cause[c]]
  /\ UNCHANGED <<sessions, count, handler, age, timeouts, pinger, checker, late>>

\* CloseAll empties the map and the counter.
StopClears ==
  /\ srv = "closing"
  /\ srv' = "cleared"
  /\ sessions' = [m \in Clients |-> NoConn]
  /\ count' = 0
  /\ UNCHANGED <<link, handler, age, timeouts, pinger, checker, late, cause>>

\* Every goroutine has returned: "Server stopped gracefully".
StopEnds ==
  /\ srv = "cleared"
  /\ \A c \in Conns : handler[c] \in {"none", "left", "refused"} /\ pinger[c].step = "idle"
  /\ srv' = "stopped"
  /\ UNCHANGED <<sessions, count, link, handler, age, timeouts, pinger, checker, late, cause>>

-----------------------------------------------------------------------------
HandlerStep(c) ==
  \/ HelloFails(c) \/ AddChecks(c) \/ AddStores(c) \/ AddCounts(c)
  \/ Leaves(c) \/ DisconnectRemoves(c) \/ DisconnectCounts(c)
PingStep(c)  == PingGets(c) \/ PingStamps(c) \/ PingResets(c)
CheckerStep  == (\E m \in Clients : Visit(m)) \/ Counts \/ Closes \/ Removes \/ PassEnds
StopStep     == StopCancels \/ StopCloses \/ StopClears \/ StopEnds

Next ==
  \/ \E c \in Conns : Dial(c) \/ ConnectionLost(c) \/ HandlerStep(c) \/ PingStep(c)
  \/ Tick
  \/ CheckerStep
  \/ StopStep

Spec == Init /\ [][Next]_vars

\* Goroutines run and the ticker ticks.  Nothing makes a client dial, ping or
\* leave, or the server stop.
Fairness ==
  /\ \A c \in Conns : /\ WF_vars(AddStores(c)) /\ WF_vars(AddCounts(c))
                      /\ WF_vars(Leaves(c)) /\ WF_vars(DisconnectRemoves(c))
                      /\ WF_vars(DisconnectCounts(c))
                      /\ WF_vars(PingStamps(c)) /\ WF_vars(PingResets(c))
  /\ WF_vars(Tick)
  /\ WF_vars(CheckerStep)
  /\ WF_vars(StopCloses) /\ WF_vars(StopClears) /\ WF_vars(StopEnds)

FairSpec == Spec /\ Fairness

\* The instance for TLC: all connections are of one client, and those in Mute
\* send no PING but their first.
OneClient == [c \in Conns |-> CHOOSE m \in Clients : TRUE]
QuietSpec == Init /\ [][Next /\ \A c \in Mute : pinger'[c] = pinger[c]]_vars /\ Fairness

-----------------------------------------------------------------------------
(* Properties.                                                             *)

\* No ghost sessions: whatever the order of Add, the checker and the
\* disconnects of other connections of the same client, a session in the map
\* has a handler that still has its disconnect to do.
NoGhostSession ==
  srv = "running" =>
    \A m \in Registered : /\ ClientOf[sessions[m]] = m
                          /\ handler[sessions[m]] \in {"stored", "serving", "dropped"}

\* A connection that is served but not in the map has lost its place to
\* another connection of the same client: a client with one connection stays
\* listed.
LostOnlyToSibling ==
  srv = "running" =>
    \A c \in Conns :
      /\ handler[c] \in {"stored", "serving"}
      /\ link[c] = "open"
      /\ sessions[ClientOf[c]] # c
      => \E d \in Served \ {c} : ClientOf[d] = ClientOf[c]

\* The checker closes only connections that were silent for more than 15 s,
\* also when the client has reconnected during the pass.
TimedOutWasLate == \A c \in Conns : cause[c] = "timeout" => c \in late

\* A closed connection leaves the map.
EventuallyForgotten ==
  \A c \in Conns :
    c \in Served /\ link[c] = "closed" ~> sessions[ClientOf[c]] # c \/ srv # "running"

\* FR-008: a session that stays silent is closed by the checker.
SilentIsRemoved ==
  \A c \in Conns :
    sessions[ClientOf[c]] = c /\ age[c] > Gap
      ~> age[c] <= Gap \/ sessions[ClientOf[c]] # c \/ srv # "running"

\* A session is in the map exactly as long as a handler serves its connection
\* and no sibling took its place, and who was closed for its silence was
\* silent: Add, the checker, LoadAndDelete and the handlers' defers overlap.
SessionsAreSound == TypeOK /\ NoGhostSession /\ LostOnlyToSibling /\ TimedOutWasLate

\* Neither a closed nor a silent connection keeps its place in the map.
SessionsEnd == EventuallyForgotten /\ SilentIsRemoved

-----------------------------------------------------------------------------
(* Claims of the documentation that the code does not keep.                *)

\* server.go: ListClients returns the IDs of all clients that are online.
OnlineIsListed ==
  srv = "running" =>
    \A c \in Conns : handler[c] = "serving" /\ link[c] = "open" => ClientOf[c] \in Registered

\* manager.go: count is the current number of sessions.
Settled == \A c \in Conns : handler[c] \notin {"stored", "removed"}
CountIsSize == Settled /\ srv = "running" => count = Cardinality(Registered)

\* FR-008: the server closes a connection after three heartbeat periods (45 s)
\* without a heartbeat, nine ticks of the checker.
ClosedAfter45s ==
  [][\A c \in Conns : cause'[c] = "timeout" /\ cause[c] # "timeout" => age[c] >= 9]_vars

\* server.go: Stop closes all sessions.
StoppedIsEmpty ==
  srv = "stopped" => Registered = {} /\ \A c \in Served : link[c] = "closed"
=============================================================================
