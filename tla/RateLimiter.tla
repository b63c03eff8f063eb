---------------------------- MODULE RateLimiter ----------------------------
(***************************************************************************)
(* pkg/release/webhook/rate_limiter.go: a sliding window of requests for   *)
(* each key, a block for whoever exceeds it, and a cleaner that runs       *)
(* beside the requests.  One mutex guards the map, so Allow and cleanup    *)
(* are steps.  Time is counted in ticks.                                   *)
(***************************************************************************)
EXTENDS Integers, FiniteSets

CONSTANTS
  Keys,       \* what requests are counted by: the tokens of webhooks
  MaxReqs,    \* maxReqs, requests admitted within a window
  Window,     \* window
  BlockTime,  \* DefaultRateLimitConfig.BlockTime
  MaxTime     \* bound: the clock of a behaviour

VARIABLES
  now,        \* the clock
  requests,   \* requests: the window of each key that has one
  admitted,   \* requests of the key that were let in: number and time (history)
  blocks      \* times at which the key was blocked (history)

vars == <<now, requests, admitted, blocks>>

\* A timestamp and the request it stands for; the order of a slice is no one's concern.
Stamps == [nr : Nat \ {0}, at : 0 .. MaxTime]
RequestWindow == [timestamps : SUBSET Stamps, blocked : BOOLEAN, blockedAt : 0 .. MaxTime]
NewWindow == [timestamps |-> {}, blocked |-> FALSE, blockedAt |-> 0]

TypeOK ==
  /\ now \in 0 .. MaxTime
  /\ DOMAIN requests \subseteq Keys
  /\ \A k \in DOMAIN requests : requests[k] \in RequestWindow
  /\ admitted \in [Keys -> SUBSET Stamps]
  /\ blocks \in [Keys -> SUBSET (0 .. MaxTime)]

Init ==
  /\ now = 0
  /\ requests = [k \in {} |-> NewWindow]
  /\ admitted = [k \in Keys |-> {}]
  /\ blocks = [k \in Keys |-> {}]

-----------------------------------------------------------------------------
Valid(timestamps) == {s \in timestamps : s.at > now - Window}
StillBlocked(w) == w.blocked /\ now - w.blockedAt < BlockTime

\* The window of a key as Allow finds it: made if need be, unblocked when its
\* time is served, and without the requests that are too old.
Opened(k) ==
  LET w == IF k \in DOMAIN requests THEN requests[k] ELSE NewWindow
  IN IF w.blocked THEN [w EXCEPT !.blocked = FALSE, !.timestamps = {}]
     ELSE [w EXCEPT !.timestamps = Valid(@)]

Put(k, w) == [x \in DOMAIN requests \union {k} |-> IF x = k THEN w ELSE requests[x]]

\* A blocked key is refused and nothing changes.
RefuseBlocked(k) ==
  /\ k \in DOMAIN requests /\ StillBlocked(requests[k])
  /\ UNCHANGED vars

Allow(k) ==
  /\ ~(k \in DOMAIN requests /\ StillBlocked(requests[k]))
  /\ LET w == Opened(k)
         over == Cardinality(w.timestamps) >= MaxReqs
         stamp == [nr |-> Cardinality(admitted[k]) + 1, at |-> now]
     IN /\ requests' = Put(k, IF over THEN [w EXCEPT !.blocked = TRUE, !.blockedAt = now]
                              ELSE [w EXCEPT !.timestamps = @ \union {stamp}])
        /\ blocks' = IF over THEN [blocks EXCEPT ![k] = @ \union {now}] ELSE blocks
        /\ admitted' = IF over THEN admitted ELSE [admitted EXCEPT ![k] = @ \union {stamp}]
  /\ UNCHANGED now

\* The cleaner: old requests and served blocks go, and then the keys with
\* neither.
Cleanup ==
  LET cleaned == [k \in DOMAIN requests |->
                    [requests[k] EXCEPT !.timestamps = Valid(@), !.blocked = StillBlocked(requests[k])]]
      kept == {k \in DOMAIN requests : cleaned[k].blocked \/ cleaned[k].timestamps # {}}
  IN /\ requests' = [k \in kept |-> cleaned[k]]
     /\ UNCHANGED <<now, admitted, blocks>>

Tick ==
  /\ now < MaxTime
  /\ now' = now + 1
  /\ UNCHANGED <<requests, admitted, blocks>>

Next == Tick \/ Cleanup \/ \E k \in Keys : Allow(k) \/ RefuseBlocked(k)

Spec == Init /\ [][Next]_vars

-----------------------------------------------------------------------------
\* No stretch of one window's length sees more requests of a key let in than
\* MaxReqs, and a key that went over it is out for the whole of its block,
\* whatever the cleaner removes in between (Allow, cleanup).
RateLimited ==
  \A k \in Keys :
    /\ \A s \in admitted[k] :
         Cardinality({u \in admitted[k] : s.at - Window < u.at /\ u.at <= s.at}) <= MaxReqs
    /\ \A b \in blocks[k], s \in admitted[k] : ~(b < s.at /\ s.at < b + BlockTime)

=============================================================================
