--------------------------- MODULE ShardedSessions ---------------------------
(***************************************************************************)
(* ShardedSessionManager and its TimeWheelHeartbeatChecker (src/pkg/       *)
(* session): the sessions live in shards with a lock each, a counter       *)
(* beside them says how many there are, and two kinds of checkers look for *)
(* silent clients: one goroutine per shard, at every check interval, and   *)
(* the time wheel, whose slot under the hand holds the clients that are    *)
(* due.                                                                    *)
(*                                                                         *)
(* A check and the removal it decides are steps of their own: a client may *)
(* come back between them.  A call on the wheel is one step; its tables    *)
(* have no lock.  The time of the checkers' own work is not counted: a     *)
(* tick comes when they are idle.                                          *)
(***************************************************************************)
EXTENDS Integers, FiniteSets

CONSTANTS
  Sessions,       \* session objects
  Client,         \* the client id of a session
  ShardOf,        \* the shard a client id is hashed to
  SlotSize,       \* slots of the wheel
  TimeoutTicks,   \* heartbeatTimeout / tickInterval
  Interval,       \* ticks between two checks of a shard
  Grace,          \* the 15 s of silence the checkers allow
  MaxTimeoutCount,
  MaxCloseAll     \* bound on calls of CloseAll

VARIABLES
  shard,     \* shard[c]: the session of client c, or NoSession
  count,     \* the atomic counter
  silent,    \* ticks since the last heartbeat of a session
  timeouts,  \* ClientSession.timeoutCount
  used,      \* the sessions that were ever connected
  closed,    \* the sessions that were closed
  wheel,     \* wheel[c]: ticks until client c is due, or Absent
  clock,     \* ticks since the shards were checked last
  checker,   \* the checker goroutines: their snapshot and their progress
  closing,   \* CloseAll: its progress and the number of calls
  crossed    \* a session was added while CloseAll was at work

shardedVars == <<shard, count, silent, timeouts, used, closed, wheel, clock,
                 checker, closing, crossed>>

Clients == {Client[s] : s \in Sessions}
Shards == {ShardOf[c] : c \in Clients}
Checkers == Shards \cup {"wheel"}
NoSession == "none"
Absent == -SlotSize
Held == {s \in Sessions : \E c \in Clients : shard[c] = s}
Bound == Grace + MaxTimeoutCount * Interval

NoCheck == [due |-> FALSE, todo |-> {}, step |-> "idle", at |-> NoSession]
Quiet == \A k \in Checkers : ~checker[k].due /\ checker[k].todo = {} /\ checker[k].step = "idle"

TypeOK ==
  /\ shard \in [Clients -> Sessions \cup {NoSession}]
  /\ count \in (-Cardinality(Sessions))..Cardinality(Sessions)
  /\ silent \in [Sessions -> 0..(Bound + 1)]
  /\ timeouts \in [Sessions -> 0..(MaxTimeoutCount + 2)]
  /\ used \subseteq Sessions /\ closed \subseteq used
  /\ wheel \in [Clients -> (-SlotSize)..TimeoutTicks]
  /\ clock \in 0..(Interval - 1)
  /\ DOMAIN checker = Checkers
  /\ crossed \in BOOLEAN

Init ==
  /\ shard = [c \in Clients |-> NoSession]
  /\ count = 0
  /\ silent = [s \in Sessions |-> 0]
  /\ timeouts = [s \in Sessions |-> 0]
  /\ used = {} /\ closed = {}
  /\ wheel = [c \in Clients |-> Absent]
  /\ clock = 0
  /\ checker = [k \in Checkers |-> NoCheck]
  /\ closing = [left |-> {}, step |-> "idle", calls |-> 0]
  /\ crossed = FALSE

Register(c) == [wheel EXCEPT ![c] = TimeoutTicks]
Unregister(c) == [wheel EXCEPT ![c] = Absent]

(* Add: refused while a session of the client is there.                    *)
Add(s) ==
  /\ s \notin used
  /\ shard[Client[s]] = NoSession
  /\ shard' = [shard EXCEPT ![Client[s]] = s]
  /\ count' = count + 1
  /\ wheel' = Register(Client[s])
  /\ used' = used \cup {s}
  /\ crossed' = (crossed \/ closing.step # "idle")
  /\ UNCHANGED <<silent, timeouts, closed, clock, checker, closing>>

(* Remove: by the id, whichever session is there.                          *)
RemoveUnchecked(c) ==
  /\ shard' = [shard EXCEPT ![c] = NoSession]
  /\ count' = count - 1
  /\ wheel' = Unregister(c)

Remove(c) ==
  /\ shard' = [shard EXCEPT ![c] = NoSession]
  /\ count' = IF shard[c] = NoSession THEN count ELSE count - 1
  /\ wheel' = IF shard[c] = NoSession THEN wheel ELSE Unregister(c)

(* A client leaves: its caller removes the session.                        *)
Leave(c) ==
  /\ shard[c] # NoSession
  /\ Remove(c)
  /\ UNCHANGED <<silent, timeouts, used, closed, clock, checker, closing, crossed>>

(* UpdateLastHeartbeat.                                                    *)
Beat(s) ==
  /\ s \in Held \ closed
  /\ silent' = [silent EXCEPT ![s] = 0]
  /\ timeouts' = [timeouts EXCEPT ![s] = 0]
  /\ UNCHANGED <<shard, count, used, closed, wheel, clock, checker, closing, crossed>>

(* A second passes.  The hand of the wheel moves on (onTick): the clients  *)
(* in its slot whose expiry has come are due, and come up again after a    *)
(* turn if they stay.  Every Interval ticks the shards are due.            *)
Turn(left) == IF left = Absent THEN Absent
              ELSE IF left = 1 - SlotSize THEN 0 ELSE left - 1
Tick ==
  /\ Quiet
  /\ used # {}
  /\ silent' = [s \in Sessions |->
       IF s \in Held THEN (IF silent[s] > Bound THEN silent[s] ELSE silent[s] + 1) ELSE silent[s]]
  /\ wheel' = [c \in Clients |-> Turn(wheel[c])]
  /\ clock' = (clock + 1) % Interval
  /\ checker' = [k \in Checkers |->
       IF k = "wheel"
       THEN [NoCheck EXCEPT !.todo = {c \in Clients : wheel'[c] = 0}]
       ELSE [NoCheck EXCEPT !.due = (clock' = 0)]]
  /\ UNCHANGED <<shard, count, timeouts, used, closed, closing, crossed>>

(* checkShardHeartbeats: a snapshot under the read lock.                   *)
Snapshot(k) ==
  /\ checker[k].due
  /\ checker' = [checker EXCEPT ![k] =
       [NoCheck EXCEPT !.todo = {s \in Held : ShardOf[Client[s]] = k}]]
  /\ UNCHANGED <<shard, count, silent, timeouts, used, closed, wheel, clock, closing, crossed>>

(* The verdict on one session: silent for too long, its count goes up and  *)
(* at the limit it is closed and then removed; else the count starts anew, *)
(* and the wheel puts it in the slot of its next check.                    *)
JudgeLater(k, s, rest) ==
  LET late == silent[s] > Grace
      n == timeouts[s] + 1
      doomed == late /\ n > MaxTimeoutCount IN
  /\ timeouts' = [timeouts EXCEPT ![s] = IF late THEN n ELSE 0]
  /\ closed' = IF doomed THEN closed \cup {s} ELSE closed
  /\ checker' = [checker EXCEPT ![k].todo = rest,
                                ![k].step = IF doomed THEN "remove" ELSE "idle",
                                ![k].at = IF doomed THEN s ELSE NoSession]
  /\ wheel' = IF k = "wheel" /\ ~late THEN Register(Client[s]) ELSE wheel

Judge(k, s, rest) ==
  LET late == silent[s] > Grace
      n == timeouts[s] + 1
      doomed == late /\ n >= MaxTimeoutCount IN
  /\ timeouts' = [timeouts EXCEPT ![s] = IF late THEN n ELSE 0]
  /\ closed' = IF doomed THEN closed \cup {s} ELSE closed
  /\ checker' = [checker EXCEPT ![k].todo = rest,
                                ![k].step = IF doomed THEN "remove" ELSE "idle",
                                ![k].at = IF doomed THEN s ELSE NoSession]
  /\ wheel' = IF k = "wheel" /\ ~late THEN Register(Client[s]) ELSE wheel

CheckSession(k) ==
  /\ checker[k].step = "idle"
  /\ \E x \in checker[k].todo :
       IF k # "wheel" THEN Judge(k, x, checker[k].todo \ {x})
       ELSE IF shard[x] # NoSession THEN Judge(k, shard[x], checker[k].todo \ {x})
       ELSE /\ wheel' = Unregister(x)
            /\ checker' = [checker EXCEPT ![k].todo = @ \ {x}]
            /\ UNCHANGED <<timeouts, closed>>
  /\ UNCHANGED <<shard, count, silent, used, clock, closing, crossed>>

(* The removal names the client, not the session that was judged; the      *)
(* wheel then takes the client out once more.                              *)
RemoveJudged(k) ==
  LET c == Client[checker[k].at] IN
  /\ checker[k].step = "remove"
  /\ Remove(c)
  /\ checker' = [checker EXCEPT ![k].step = IF k = "wheel" THEN "unregister" ELSE "idle",
                                ![k].at = IF k = "wheel" THEN @ ELSE NoSession]
  /\ UNCHANGED <<silent, timeouts, used, closed, clock, closing, crossed>>

UnregisterJudged ==
  LET k == "wheel" IN
  /\ checker[k].step = "unregister"
  /\ wheel' = Unregister(Client[checker[k].at])
  /\ checker' = [checker EXCEPT ![k].step = "idle", ![k].at = NoSession]
  /\ UNCHANGED <<shard, count, silent, timeouts, used, closed, clock, closing, crossed>>

(* CloseAll: closes the sessions, empties the shards one after the other,  *)
(* then stores 0 in the counter.  The wheel keeps its entries.             *)
CloseSessions ==
  /\ closing.step = "idle"
  /\ closing.calls < MaxCloseAll
  /\ closed' = closed \cup Held
  /\ closing' = [left |-> Shards, step |-> "clear", calls |-> closing.calls + 1]
  /\ UNCHANGED <<shard, count, silent, timeouts, used, wheel, clock, checker, crossed>>

ClearShard ==
  /\ closing.step = "clear"
  /\ \E k \in closing.left :
       /\ shard' = [c \in Clients |-> IF ShardOf[c] = k THEN NoSession ELSE shard[c]]
       /\ closing' = [closing EXCEPT !.left = @ \ {k},
                                     !.step = IF closing.left = {k} THEN "count" ELSE @]
  /\ UNCHANGED <<count, silent, timeouts, used, closed, wheel, clock, checker, crossed>>

StoreZero ==
  /\ closing.step = "count"
  /\ count' = 0
  /\ closing' = [closing EXCEPT !.step = "idle"]
  /\ UNCHANGED <<shard, silent, timeouts, used, closed, wheel, clock, checker, crossed>>

Next ==
  \/ \E s \in Sessions : Add(s) \/ Beat(s)
  \/ \E c \in Clients : Leave(c)
  \/ Tick
  \/ \E k \in Checkers : Snapshot(k) \/ CheckSession(k) \/ RemoveJudged(k)
  \/ UnregisterJudged
  \/ CloseSessions \/ ClearShard \/ StoreZero

Spec == Init /\ [][Next]_shardedVars

-----------------------------------------------------------------------------
(* The counter, which the paging of ListClientsWithDetailsPaginated trusts,*)
(* is the number of sessions whenever CloseAll is not at work, unless a    *)
(* session was added during a CloseAll: its last step stores 0 whatever    *)
(* was added after a shard was emptied.  A session that two goroutines     *)
(* remove is counted out once.                                             *)
CountIsExact ==
  closing.step = "idle" /\ ~crossed => count = Cardinality(Held)

(* No session stays that has been silent for the grace period and          *)
(* MaxTimeoutCount checks more, even if the wheel lost it: the wheel       *)
(* forgets the next session of a client when it takes out the one it       *)
(* judged, and does not look at a late session again for a whole turn.     *)
SilentIsRemoved ==
  \A s \in Held : silent[s] <= Bound
=============================================================================
