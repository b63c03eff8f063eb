------------------------ MODULE ReleaseCentreProofs ------------------------
(***************************************************************************)
(* What is proved of the parts of ReleaseCentre: the inductive invariants  *)
(* of the callbacks, the webhooks and their rate limit, and from them that *)
(* deliveries are accounted for.                                           *)
(***************************************************************************)
EXTENDS ReleaseCentre, FiniteSetTheorems, TLAPS

\* An instance's Cardinality and the library's are one operator.
LEMMA SameCount ==
  \A X : L!Cardinality(X) = Cardinality(X)
BY DEF L!Cardinality, Cardinality

-----------------------------------------------------------------------------
(* The rate limit.                                                         *)

Recent(k) == {s \in admitted[k] : s.at > limitNow - Window}

\* The window of a key holds what was let in lately, and a block that still
\* runs is the one it remembers.
Remembered(k) ==
  /\ Recent(k) \subseteq requests[k].timestamps
  /\ requests[k].timestamps \subseteq admitted[k]
  /\ requests[k].blockedAt <= limitNow
  /\ requests[k].blocked => \A s \in admitted[k] : s.at <= requests[k].blockedAt

Within(k, s) == {u \in admitted[k] : s.at - Window < u.at /\ u.at <= s.at}

KeyIsLimited(k) ==
  /\ IsFiniteSet(admitted[k])
  /\ \A s \in admitted[k] : s.nr <= Cardinality(admitted[k]) /\ s.at <= limitNow
  /\ \A s \in admitted[k] : Cardinality(Within(k, s)) <= MaxReqs
  /\ \A b \in blocks[k] : b <= limitNow
  /\ \A b \in blocks[k], s \in admitted[k] : ~(b < s.at /\ s.at < b + BlockTime)
  /\ \A b \in blocks[k] : limitNow < b + BlockTime =>
       k \in DOMAIN requests /\ requests[k].blocked /\ requests[k].blockedAt = b
  /\ IF k \in DOMAIN requests THEN Remembered(k) ELSE Recent(k) = {}

LimitInv == L!TypeOK /\ \A k \in LimitKeys : KeyIsLimited(k)

\* At the start nothing was let in and nothing is blocked.
LEMMA LimitInit == L!Init => LimitInv
<1> SUFFICES ASSUME L!Init PROVE LimitInv
  OBVIOUS
<1>1. L!TypeOK
  BY LimitAssumption DEF L!Init, L!TypeOK, L!Stamps
<1>2. \A k \in LimitKeys : KeyIsLimited(k)
  BY FS_EmptySet DEF L!Init, KeyIsLimited, Recent
<1> QED BY <1>1, <1>2 DEF LimitInv

\* Time passes: what is recent becomes less, and so do the blocks that run.
LEMMA TickStep ==
  ASSUME LimitInv, L!Tick
  PROVE  LimitInv'
<1>1. limitNow' = limitNow + 1 /\ UNCHANGED <<requests, admitted, blocks>> /\ limitNow \in Nat
  BY DEF L!Tick, LimitInv, L!TypeOK
<1>2. L!TypeOK'
  BY LimitAssumption DEF LimitInv, L!TypeOK, L!Tick, L!RequestWindow, L!Stamps
<1>3. ASSUME NEW k \in LimitKeys PROVE KeyIsLimited(k)'
  <2>1. KeyIsLimited(k) /\ admitted[k] \subseteq L!Stamps /\ blocks[k] \subseteq 0 .. MaxLimitTime
    BY DEF LimitInv, L!TypeOK
  <2>2. Recent(k)' \subseteq Recent(k)
    BY <1>1, <2>1, LimitAssumption DEF Recent, L!Stamps
  <2>3. \A s : Within(k, s)' = Within(k, s)
    BY <1>1 DEF Within
  <2>4. IF k \in DOMAIN requests' THEN Remembered(k)' ELSE Recent(k)' = {}
    <3>1. CASE k \in DOMAIN requests
      <4>1. Remembered(k) /\ requests[k] \in L!RequestWindow
        BY <2>1, <3>1 DEF KeyIsLimited, LimitInv, L!TypeOK
      <4> QED BY <1>1, <2>2, <3>1, <4>1, LimitAssumption DEF Remembered, L!RequestWindow
    <3>2. CASE k \notin DOMAIN requests
      BY <1>1, <2>1, <2>2, <3>2 DEF KeyIsLimited
    <3> QED BY <3>1, <3>2
  <2>5. /\ \A s \in admitted'[k] : s.nr <= Cardinality(admitted'[k]) /\ s.at <= limitNow'
        /\ \A b \in blocks'[k] : b <= limitNow'
        /\ \A b \in blocks'[k] : limitNow' < b + BlockTime => limitNow < b + BlockTime
    BY <1>1, <2>1, LimitAssumption DEF KeyIsLimited, L!Stamps
  <2> QED BY <1>1, <2>1, <2>3, <2>4, <2>5 DEF KeyIsLimited
<1> QED BY <1>2, <1>3 DEF LimitInv

\* The cleaner takes neither a recent request nor a block that runs.
LEMMA CleanupStep ==
  ASSUME LimitInv, L!Cleanup
  PROVE  LimitInv'
<1> DEFINE cleaned == [k \in DOMAIN requests |->
             [requests[k] EXCEPT !.timestamps = L!Valid(@), !.blocked = L!StillBlocked(requests[k])]]
           kept == {k \in DOMAIN requests : cleaned[k].blocked \/ cleaned[k].timestamps # {}}
<1>1. requests' = [k \in kept |-> cleaned[k]] /\ UNCHANGED <<limitNow, admitted, blocks>>
  BY DEF L!Cleanup
<1>2. limitNow \in Nat /\ DOMAIN requests \subseteq LimitKeys
      /\ \A k \in DOMAIN requests : requests[k] \in L!RequestWindow
  BY DEF LimitInv, L!TypeOK
<1>3. ASSUME NEW k \in DOMAIN requests
      PROVE  /\ cleaned[k] \in L!RequestWindow
             /\ cleaned[k].timestamps = {s \in requests[k].timestamps : s.at > limitNow - Window}
             /\ cleaned[k].blocked = (requests[k].blocked /\ limitNow - requests[k].blockedAt < BlockTime)
             /\ cleaned[k].blockedAt = requests[k].blockedAt
  BY <1>2, <1>3 DEF L!RequestWindow, L!Valid, L!StillBlocked
<1>4. L!TypeOK'
  BY <1>1, <1>2, <1>3 DEF LimitInv, L!TypeOK, L!RequestWindow, L!Stamps
<1>5. ASSUME NEW k \in LimitKeys PROVE KeyIsLimited(k)'
  <2>1. KeyIsLimited(k) /\ admitted[k] \subseteq L!Stamps /\ blocks[k] \subseteq 0 .. MaxLimitTime
    BY DEF LimitInv, L!TypeOK
  <2>2. Recent(k)' = Recent(k) /\ \A s : Within(k, s)' = Within(k, s)
    BY <1>1 DEF Recent, Within
  <2>3. IF k \in DOMAIN requests' THEN Remembered(k)' ELSE Recent(k)' = {}
    <3>1. CASE k \in DOMAIN requests
      <4>1. Remembered(k) /\ Recent(k) \subseteq cleaned[k].timestamps
        BY <1>3, <2>1, <3>1 DEF KeyIsLimited, Remembered, Recent
      <4>2. CASE k \in kept
        <5>1. k \in DOMAIN requests' /\ requests'[k] = cleaned[k]
          BY <1>1, <4>2
        <5> HIDE DEF cleaned
        <5>2. Remembered(k)'
          BY <1>1, <1>3, <2>2, <3>1, <4>1, <5>1 DEF Remembered
        <5> QED BY <5>1, <5>2
      <4>3. CASE k \notin kept
        <5>1. k \notin DOMAIN requests' /\ cleaned[k].timestamps = {}
          BY <1>1, <3>1, <4>3
        <5> QED BY <2>2, <4>1, <5>1
      <4> QED BY <4>2, <4>3
    <3>2. CASE k \notin DOMAIN requests
      BY <1>1, <2>1, <2>2, <3>2 DEF KeyIsLimited
    <3> QED BY <3>1, <3>2
  <2>4. ASSUME NEW b \in blocks'[k], limitNow' < b + BlockTime
        PROVE  k \in DOMAIN requests' /\ requests'[k].blocked /\ requests'[k].blockedAt = b
    <3>1. k \in DOMAIN requests /\ requests[k].blocked /\ requests[k].blockedAt = b
      BY <1>1, <2>1, <2>4 DEF KeyIsLimited
    <3>2. cleaned[k].blocked /\ cleaned[k].blockedAt = b
      <4>1. b \in Int /\ b \in blocks[k] /\ limitNow - b < BlockTime
        <5>1. b \in blocks[k] /\ limitNow < b + BlockTime
          BY <1>1, <2>4
        <5>2. b \in Int
          BY <2>1, <5>1
        <5> QED BY <1>2, <5>1, <5>2, LimitAssumption
      <4> HIDE DEF cleaned
      <4> QED BY <1>3, <3>1, <4>1
    <3> QED BY <1>1, <3>1, <3>2
  <2> QED BY <1>1, <2>1, <2>2, <2>3, <2>4 DEF KeyIsLimited
<1> QED BY <1>4, <1>5 DEF LimitInv

\* A request: refused while the key is blocked, let in while the window has
\* room, and blocking the key otherwise.
LEMMA AllowStep ==
  ASSUME LimitInv, NEW k \in LimitKeys, L!Allow(k)
  PROVE  LimitInv'
<1> DEFINE w == L!Opened(k)
           over == L!Cardinality(w.timestamps) >= MaxReqs
           stamp == [nr |-> L!Cardinality(admitted[k]) + 1, at |-> limitNow]
           after == IF over THEN [w EXCEPT !.blocked = TRUE, !.blockedAt = limitNow]
                    ELSE [w EXCEPT !.timestamps = @ \union {stamp}]
<1>1. /\ ~(k \in DOMAIN requests /\ L!StillBlocked(requests[k]))
      /\ requests' = L!Put(k, after)
      /\ blocks' = IF over THEN [blocks EXCEPT ![k] = @ \union {limitNow}] ELSE blocks
      /\ admitted' = IF over THEN admitted ELSE [admitted EXCEPT ![k] = @ \union {stamp}]
      /\ limitNow' = limitNow
  BY DEF L!Allow
<1>2. /\ limitNow \in Nat /\ limitNow \in 0 .. MaxLimitTime /\ DOMAIN requests \subseteq LimitKeys
      /\ \A q \in DOMAIN requests : requests[q] \in L!RequestWindow
      /\ admitted \in [LimitKeys -> SUBSET L!Stamps] /\ blocks \in [LimitKeys -> SUBSET (0 .. MaxLimitTime)]
  BY LimitAssumption DEF LimitInv, L!TypeOK
<1>3. KeyIsLimited(k) /\ admitted[k] \subseteq L!Stamps /\ blocks[k] \subseteq 0 .. MaxLimitTime
  BY <1>2 DEF LimitInv
<1>4. /\ w.timestamps \subseteq admitted[k] /\ Recent(k) \subseteq w.timestamps
      /\ w \in L!RequestWindow /\ ~w.blocked /\ w.blockedAt <= limitNow
  <2>1. CASE k \notin DOMAIN requests
    <3>1. w = [timestamps |-> {}, blocked |-> FALSE, blockedAt |-> 0] /\ Recent(k) = {}
      BY <1>3, <2>1 DEF L!Opened, L!NewWindow, L!Valid, KeyIsLimited
    <3> QED BY <1>2, <3>1, LimitAssumption DEF L!RequestWindow
  <2>2. CASE k \in DOMAIN requests /\ ~requests[k].blocked
    <3>1. w = [requests[k] EXCEPT !.timestamps = {s \in @ : s.at > limitNow - Window}]
      BY <2>2 DEF L!Opened, L!Valid
    <3> HIDE DEF w
    <3>2. Remembered(k) /\ requests[k] \in L!RequestWindow
      BY <1>2, <1>3, <2>2 DEF KeyIsLimited
    <3> QED BY <2>2, <3>1, <3>2 DEF L!RequestWindow, Remembered, Recent
  <2>3. CASE k \in DOMAIN requests /\ requests[k].blocked
    <3>1. w = [requests[k] EXCEPT !.blocked = FALSE, !.timestamps = {}]
      BY <2>3 DEF L!Opened
    <3> HIDE DEF w
    <3>2. Remembered(k) /\ requests[k] \in L!RequestWindow
      BY <1>2, <1>3, <2>3 DEF KeyIsLimited
    <3>3. requests[k].blockedAt + BlockTime <= limitNow /\ requests[k].blockedAt \in Nat
      BY <1>1, <1>2, <2>3, <3>2, LimitAssumption DEF L!StillBlocked, L!RequestWindow
    <3>4. Recent(k) = {}
      BY <1>2, <1>3, <2>3, <3>2, <3>3, LimitAssumption DEF Remembered, Recent, L!Stamps
    <3> QED BY <3>1, <3>2, <3>4 DEF L!RequestWindow, Remembered
  <2> QED BY <2>1, <2>2, <2>3
<1>5. /\ IsFiniteSet(w.timestamps) /\ Cardinality(w.timestamps) \in Nat
      /\ IsFiniteSet(admitted[k]) /\ Cardinality(admitted[k]) \in Nat
  BY <1>3, <1>4, FS_Subset, FS_CardinalityType DEF KeyIsLimited
<1>6. stamp \in L!Stamps /\ stamp.nr = Cardinality(admitted[k]) + 1 /\ stamp.at = limitNow
      /\ stamp \notin admitted[k]
  <2>1. stamp = [nr |-> Cardinality(admitted[k]) + 1, at |-> limitNow]
    BY SameCount
  <2> HIDE DEF stamp
  <2> QED BY <1>2, <1>3, <1>5, <2>1 DEF L!Stamps, KeyIsLimited
<1>7. over <=> Cardinality(w.timestamps) >= MaxReqs
  BY SameCount
<1>8. DOMAIN requests' = DOMAIN requests \union {k} /\ requests'[k] = after
      /\ \A q \in DOMAIN requests \ {k} : requests'[q] = requests[q]
  BY <1>1 DEF L!Put
<1> HIDE DEF w, over, stamp
<1>9. L!TypeOK'
  <2>1. after \in L!RequestWindow
    BY <1>2, <1>4, <1>6 DEF L!RequestWindow
  <2>2. \A q \in DOMAIN requests' : requests'[q] \in L!RequestWindow
    BY <1>2, <1>8, <2>1
  <2>3. admitted' \in [LimitKeys -> SUBSET L!Stamps] /\ blocks' \in [LimitKeys -> SUBSET (0 .. MaxLimitTime)]
    BY <1>1, <1>2, <1>6
  <2> QED BY <1>1, <1>2, <1>8, <2>2, <2>3 DEF L!TypeOK, L!RequestWindow, L!Stamps
<1>10. ASSUME NEW q \in LimitKeys, q # k PROVE KeyIsLimited(q)'
  <2>1. KeyIsLimited(q) /\ admitted'[q] = admitted[q] /\ blocks'[q] = blocks[q]
        /\ (q \in DOMAIN requests' <=> q \in DOMAIN requests)
        /\ (q \in DOMAIN requests => requests'[q] = requests[q])
    BY <1>1, <1>2, <1>8, <1>10 DEF LimitInv
  <2>2. Recent(q)' = Recent(q) /\ \A s : Within(q, s)' = Within(q, s)
    BY <1>1, <2>1 DEF Recent, Within
  <2> QED BY <1>1, <2>1, <2>2 DEF KeyIsLimited, Remembered
<1>11. \A b \in blocks[k] : ~(limitNow < b + BlockTime)
  BY <1>1, <1>2, <1>3, LimitAssumption DEF KeyIsLimited, L!StillBlocked
<1>12. CASE over
  <2>1. /\ admitted' = admitted /\ blocks'[k] = blocks[k] \union {limitNow} /\ limitNow' = limitNow
        /\ requests'[k] = [w EXCEPT !.blocked = TRUE, !.blockedAt = limitNow] /\ k \in DOMAIN requests'
    BY <1>1, <1>2, <1>8, <1>12
  <2>2. Recent(k)' = Recent(k) /\ \A s : Within(k, s)' = Within(k, s)
    BY <2>1 DEF Recent, Within
  <2>3. requests'[k].timestamps = w.timestamps /\ requests'[k].blocked /\ requests'[k].blockedAt = limitNow
    BY <1>4, <2>1 DEF L!RequestWindow
  <2>4. \A s \in admitted[k] : s.at <= limitNow /\ s.at \in Nat
    BY <1>2, <1>3 DEF KeyIsLimited, L!Stamps
  <2>5. Remembered(k)'
    BY <1>2, <1>4, <2>1, <2>2, <2>3, <2>4 DEF Remembered
  <2>6. \A b \in blocks'[k] : /\ b <= limitNow /\ (limitNow < b + BlockTime => b = limitNow)
                              /\ \A s \in admitted[k] : ~(b < s.at /\ s.at < b + BlockTime)
    BY <1>2, <1>3, <1>11, <2>1, <2>4 DEF KeyIsLimited
  <2>7. KeyIsLimited(k)'
    BY <1>3, <2>1, <2>2, <2>3, <2>5, <2>6 DEF KeyIsLimited
  <2> QED BY <1>9, <1>10, <2>7 DEF LimitInv
<1>13. CASE ~over
  <2>1. /\ admitted'[k] = admitted[k] \union {stamp} /\ blocks' = blocks /\ limitNow' = limitNow
        /\ requests'[k] = [w EXCEPT !.timestamps = @ \union {stamp}] /\ k \in DOMAIN requests'
    BY <1>1, <1>2, <1>8, <1>13
  <2>2. /\ IsFiniteSet(admitted'[k]) /\ Cardinality(admitted'[k]) = Cardinality(admitted[k]) + 1
    BY <1>5, <1>6, <2>1, FS_AddElement
  <2>3. requests'[k].timestamps = w.timestamps \union {stamp} /\ ~requests'[k].blocked
        /\ requests'[k].blockedAt = w.blockedAt
    BY <1>4, <2>1 DEF L!RequestWindow
  <2>4. Remembered(k)'
    BY <1>4, <2>1, <2>3 DEF Remembered, Recent
  <2>5. \A s \in admitted'[k] : s.nr <= Cardinality(admitted'[k]) /\ s.at <= limitNow
    BY <1>2, <1>3, <1>5, <1>6, <2>1, <2>2 DEF KeyIsLimited, L!Stamps
  <2>6. \A b \in blocks'[k] : /\ b <= limitNow /\ ~(limitNow < b + BlockTime)
                              /\ \A s \in admitted'[k] : ~(b < s.at /\ s.at < b + BlockTime)
    BY <1>2, <1>3, <1>6, <1>11, <2>1 DEF KeyIsLimited
  <2>7. ASSUME NEW s \in admitted'[k] PROVE Cardinality(Within(k, s)') <= MaxReqs
    <3>1. s.at \in Nat /\ s.at <= limitNow
      BY <1>2, <1>3, <1>6, <2>1, <2>5 DEF L!Stamps
    <3>2. CASE s.at = limitNow
      <4>1. Within(k, s)' \subseteq w.timestamps \union {stamp}
        BY <1>3, <1>4, <1>6, <2>1, <3>2, LimitAssumption DEF Within, Recent, L!Stamps
      <4>2. IsFiniteSet(w.timestamps \union {stamp}) /\ Cardinality(w.timestamps \union {stamp}) = Cardinality(w.timestamps) + 1
        BY <1>4, <1>5, <1>6, FS_AddElement
      <4>3. Cardinality(Within(k, s)') <= Cardinality(w.timestamps) + 1 /\ Cardinality(Within(k, s)') \in Nat
        BY <4>1, <4>2, FS_Subset, FS_CardinalityType
      <4> QED BY <1>5, <1>7, <1>13, <4>3, LimitAssumption
    <3>3. CASE s.at < limitNow
      <4>1. s \in admitted[k]
        BY <1>2, <1>6, <2>1, <3>3
      <4>2. Within(k, s)' = Within(k, s)
        BY <1>2, <1>6, <2>1, <3>1, <3>3 DEF Within
      <4> QED BY <1>3, <4>1, <4>2 DEF KeyIsLimited
    <3> QED BY <1>2, <3>1, <3>2, <3>3
  <2>8. KeyIsLimited(k)'
    BY <2>1, <2>2, <2>4, <2>5, <2>6, <2>7 DEF KeyIsLimited
  <2> QED BY <1>9, <1>10, <2>8 DEF LimitInv
<1> QED BY <1>12, <1>13

\* Every step of the rate limiter keeps its invariant.
LEMMA LimitStep ==
  ASSUME LimitInv, [L!Next]_(L!vars)
  PROVE  LimitInv'
<1>1. CASE L!Tick
  BY <1>1, TickStep
<1>2. CASE L!Cleanup
  BY <1>2, CleanupStep
<1>3. CASE \E k \in LimitKeys : L!Allow(k)
  BY <1>3, AllowStep
<1>4. CASE UNCHANGED L!vars
  BY <1>4 DEF LimitInv, L!TypeOK, L!RequestWindow, L!Stamps, KeyIsLimited, Remembered, Recent, Within, L!vars
<1> QED BY <1>1, <1>2, <1>3, <1>4 DEF L!Next, L!RefuseBlocked

\* What the invariant says of a window and a block.
LEMMA LimitShows == LimitInv => L!TypeOK /\ L!RateLimited
BY SameCount DEF LimitInv, KeyIsLimited, Within, L!RateLimited

-----------------------------------------------------------------------------
(* The webhooks.                                                           *)

Names == HookCommits \union W!Refs \union {""}
FoundRequests ==
  [pc : W!Waits, status : W!Statuses, commit : Names, version : Nat, found : {"enabled"}, filtered : BOOLEAN]

\* What a request carries where it is.
Asks(x, vs) ==
  /\ x.pc \in W!Waits
  /\ x.pc = "allowed" => x.payload \in HookPayloads
  /\ x.pc \in {"version", "create", "clients", "record", "count"} => x \in FoundRequests
  /\ x.pc \in {"version", "create", "clients"} => ~x.filtered
  /\ x.pc = "clients" => x.version \in DOMAIN vs /\ vs[x.version] = x.commit

\* A task has its delivery's facts.
Comes(t) ==
  LET x == webhookRequest[t.delivery]
  IN /\ t.delivery \in Deliveries /\ t.version \in DOMAIN versions
     /\ x \in FoundRequests /\ x.pc \in {"record", "count", "done"}
     /\ ~x.filtered /\ versions[t.version] = x.commit

Counting == {d \in Deliveries : webhookRequest[d].pc = "count"}
Recorded == triggers["success"] + triggers["failed"] + triggers["skipped"]

WebhookInv ==
  /\ hook \in W!Hooks /\ hook.token <= webhookEdits
  /\ DOMAIN webhookRequest = Deliveries /\ \A d \in Deliveries : Asks(webhookRequest[d], versions)
  /\ versions \in Seq(Names)
  /\ \A t \in tasks : Comes(t)
  /\ triggers \in [W!Statuses -> Nat]
  /\ webhookEdits \in 0 .. MaxHookEdits
  /\ hook.count + Cardinality(Counting) <= Recorded

\* At the start nothing was delivered.
LEMMA WebhookInit == W!Init => WebhookInv
<1> SUFFICES ASSUME W!Init PROVE WebhookInv
  OBVIOUS
<1>1. hook \in W!Hooks /\ hook.token = 0 /\ hook.count = 0
  BY HookAssumption DEF W!Init, W!Hooks, W!Tokens, W!Refs, W!Actions
<1>2. DOMAIN webhookRequest = Deliveries /\ \A d \in Deliveries : Asks(webhookRequest[d], versions)
  BY DEF W!Init, W!Idle, Asks, W!Waits
<1>3. Counting = {}
  BY DEF W!Init, W!Idle, Counting
<1>4. Recorded = 0 /\ triggers \in [W!Statuses -> Nat]
  BY DEF W!Init, W!Statuses, Recorded
<1>5. <<>> \in Seq(Names)
  OBVIOUS
<1> QED BY <1>1, <1>2, <1>3, <1>4, <1>5, FS_EmptySet, HookAssumption DEF W!Init, WebhookInv

\* A request goes on with x, and no other changes.
LEMMA GoStep ==
  ASSUME WebhookInv, NEW d \in Deliveries, NEW x, W!Go(d, x)
  PROVE  /\ DOMAIN webhookRequest' = Deliveries /\ webhookRequest'[d] = x
         /\ \A e \in Deliveries \ {d} : webhookRequest'[e] = webhookRequest[e]
         /\ Cardinality(Counting) \in Nat /\ Cardinality(Counting') \in Nat
         /\ x.pc # "count" => Cardinality(Counting') <= Cardinality(Counting)
         /\ x.pc # "count" /\ webhookRequest[d].pc = "count"
              => Cardinality(Counting') = Cardinality(Counting) - 1
         /\ Cardinality(Counting') <= Cardinality(Counting) + 1
<1>1. /\ DOMAIN webhookRequest' = Deliveries /\ webhookRequest'[d] = x
      /\ \A e \in Deliveries \ {d} : webhookRequest'[e] = webhookRequest[e]
  BY DEF W!Go, WebhookInv
<1>2. IsFiniteSet(Counting) /\ Cardinality(Counting) \in Nat
  BY HookAssumption, FS_Subset, FS_CardinalityType DEF Counting
<1>3. CASE x.pc = "count"
  <2>1. Counting' = Counting \union {d}
    BY <1>1, <1>3 DEF Counting
  <2>2. Cardinality(Counting') \in Nat /\ Cardinality(Counting') <= Cardinality(Counting) + 1
    BY <1>2, <2>1, FS_AddElement, FS_CardinalityType
  <2> QED BY <1>1, <1>2, <1>3, <2>2
<1>4. CASE x.pc # "count"
  <2>1. Counting' = Counting \ {d}
    BY <1>1, <1>4 DEF Counting
  <2>2. Cardinality(Counting') \in Nat /\ Cardinality(Counting') <= Cardinality(Counting)
        /\ (d \in Counting => Cardinality(Counting') = Cardinality(Counting) - 1)
    <3>1. /\ IsFiniteSet(Counting')
          /\ Cardinality(Counting') = IF d \in Counting THEN Cardinality(Counting) - 1 ELSE Cardinality(Counting)
      BY <1>2, <2>1, FS_RemoveElement
    <3>2. Cardinality(Counting') \in Nat
      BY <3>1, FS_CardinalityType
    <3> QED BY <1>2, <3>1, <3>2
  <2>3. webhookRequest[d].pc = "count" => d \in Counting
    BY DEF Counting
  <2> QED BY <1>1, <1>2, <1>4, <2>2, <2>3
<1> QED BY <1>3, <1>4

\* A request that has no task goes on: its own step is to be shown fit.
LEMMA GoesOn ==
  ASSUME WebhookInv, NEW d \in Deliveries, NEW x, W!Go(d, x), UNCHANGED versions,
         Asks(x, versions), webhookRequest[d].pc \notin {"record", "count", "done"}
  PROVE  /\ \A e \in Deliveries : Asks(webhookRequest'[e], versions')
         /\ \A t \in tasks : Comes(t)'
<1>1. /\ webhookRequest'[d] = x
      /\ \A e \in Deliveries \ {d} : webhookRequest'[e] = webhookRequest[e]
  BY GoStep
<1>2. Asks(webhookRequest'[d], versions')
  BY <1>1 DEF Asks
<1>3. \A e \in Deliveries \ {d} : Asks(webhookRequest'[e], versions')
  BY <1>1 DEF Asks, WebhookInv
<1>4. ASSUME NEW t \in tasks PROVE Comes(t)'
  <2>1. Comes(t) /\ t.delivery # d
    BY DEF WebhookInv, Comes
  <2> QED BY <1>1, <2>1 DEF Comes
<1> QED BY <1>2, <1>3, <1>4

\* What a payload stands for is a name of a version.
LEMMA Parsed ==
  ASSUME NEW p \in W!PayloadType, NEW source, W!ParsePayload(source, p) # W!Unsupported
  PROVE  W!ParsePayload(source, p).commit \in Names
<1>1. p.ref \in W!Refs /\ p.commit \in Names /\ p.event \in {"push", "tag", "release"} /\ p.header \in BOOLEAN
  BY DEF W!PayloadType, Names
<1>2. W!ParseGitHub(p) # W!Unsupported => W!ParseGitHub(p).commit \in Names
  BY <1>1 DEF W!ParseGitHub, W!Info, Names
<1>3. W!ParseGitLab(p) # W!Unsupported => W!ParseGitLab(p).commit \in Names
  BY <1>1 DEF W!ParseGitLab, W!Info, Names
<1> QED BY <1>2, <1>3 DEF W!ParsePayload

\* What is left to show when only requests change.
LEMMA OnlyRequests ==
  ASSUME WebhookInv, UNCHANGED <<hook, versions, tasks, triggers, webhookEdits>>,
         DOMAIN webhookRequest' = Deliveries,
         \A e \in Deliveries : Asks(webhookRequest'[e], versions'), \A t \in tasks : Comes(t)',
         Cardinality(Counting) \in Nat, Cardinality(Counting') \in Nat,
         Cardinality(Counting') <= Cardinality(Counting)
  PROVE  WebhookInv'
<1>1. hook.count \in Nat /\ Recorded \in Nat
  BY DEF WebhookInv, W!Hooks, Recorded, W!Statuses
<1>2. hook'.count + Cardinality(Counting') <= Recorded'
  BY <1>1 DEF WebhookInv, Recorded
<1>3. /\ hook' \in W!Hooks /\ hook'.token <= webhookEdits' /\ versions' \in Seq(Names)
      /\ triggers' \in [W!Statuses -> Nat] /\ webhookEdits' \in 0 .. MaxHookEdits
      /\ \A t \in tasks' : Comes(t)'
  BY DEF WebhookInv
<1> QED BY <1>2, <1>3 DEF WebhookInv

\* Incoming
LEMMA IncomingStep ==
  ASSUME WebhookInv, NEW d \in Deliveries, W!Incoming(d)
  PROVE  WebhookInv'
<1>1. PICK t \in 0 .. hook.token, p \in HookPayloads :
        /\ webhookRequest[d].pc = "idle" /\ W!Go(d, [pc |-> "allowed", token |-> t, payload |-> p])
        /\ UNCHANGED <<hook, versions, tasks, triggers, webhookEdits>>
  BY DEF W!Incoming
<1> DEFINE x == [pc |-> "allowed", token |-> t, payload |-> p]
<1>2. Asks(x, versions) /\ x.pc # "count"
  BY DEF Asks, W!Waits
<1> HIDE DEF x
<1>3. W!Go(d, x)
  BY <1>1 DEF x
<1>4. /\ \A e \in Deliveries : Asks(webhookRequest'[e], versions') /\ \A t1 \in tasks : Comes(t1)'
      /\ DOMAIN webhookRequest' = Deliveries
      /\ Cardinality(Counting') <= Cardinality(Counting) /\ Cardinality(Counting') \in Nat
      /\ Cardinality(Counting) \in Nat
  BY <1>1, <1>2, <1>3, GoesOn, GoStep
<1> QED BY <1>1, <1>4, OnlyRequests DEF WebhookInv

\* What a request found: its webhook enabled, and whether it is wanted.
LEMMA FoundIs ==
  ASSUME WebhookInv, hook.state = "enabled", NEW info, info.commit \in Names,
         NEW pc \in W!Waits, NEW status \in W!Statuses
  PROVE  /\ W!Found(pc, status, info) \in FoundRequests
         /\ W!Found(pc, status, info).pc = pc
         /\ W!Found(pc, status, info).filtered = ~W!Matches(hook.filter, info)
BY DEF W!Found, FoundRequests, W!Matches

\* FindWebhook
LEMMA FindWebhookStep ==
  ASSUME WebhookInv, NEW d \in Deliveries, W!FindWebhook(d)
  PROVE  WebhookInv'
<1> DEFINE p == webhookRequest[d].payload
           info == W!ParsePayload(hook.source, p)
<1>1. /\ webhookRequest[d].pc = "allowed" /\ UNCHANGED <<hook, versions, tasks, triggers, webhookEdits>>
      /\ \/ W!Go(d, [pc |-> "done"])
         \/ /\ hook.state = "enabled" /\ info # W!Unsupported
            /\ \/ W!Matches(hook.filter, info) /\ W!Go(d, W!Found("version", "success", info))
               \/ \E status \in W!Statuses : W!Go(d, W!Found("record", status, info))
  BY DEF W!FindWebhook, W!Statuses
<1>2. p \in HookPayloads
  BY <1>1 DEF WebhookInv, Asks
<1> HIDE DEF p
<1>3. info # W!Unsupported => info.commit \in Names
  BY <1>2, Parsed, HookAssumption
<1> HIDE DEF info
<1>4. PICK x : W!Go(d, x) /\ Asks(x, versions) /\ x.pc # "count"
  <2>1. CASE W!Go(d, [pc |-> "done"])
    <3>1. Asks([pc |-> "done"], versions)
      BY DEF Asks, W!Waits
    <3> QED BY <2>1, <3>1
  <2>2. CASE /\ hook.state = "enabled" /\ info # W!Unsupported
             /\ W!Matches(hook.filter, info) /\ W!Go(d, W!Found("version", "success", info))
    <3> DEFINE x == W!Found("version", "success", info)
    <3>1. x \in FoundRequests /\ x.pc = "version" /\ ~x.filtered
      BY <1>3, <2>2, FoundIs DEF W!Waits, W!Statuses
    <3> HIDE DEF x
    <3>2. Asks(x, versions)
      BY <3>1 DEF Asks, W!Waits
    <3>3. W!Go(d, x)
      BY <2>2 DEF x
    <3> QED BY <3>1, <3>2, <3>3
  <2>3. ASSUME hook.state = "enabled", info # W!Unsupported,
               NEW status \in W!Statuses, W!Go(d, W!Found("record", status, info))
        PROVE  \E x : W!Go(d, x) /\ Asks(x, versions) /\ x.pc # "count"
    <3> DEFINE x == W!Found("record", status, info)
    <3>1. x \in FoundRequests /\ x.pc = "record"
      BY <1>3, <2>3, FoundIs DEF W!Waits
    <3> HIDE DEF x
    <3>2. Asks(x, versions)
      BY <3>1 DEF Asks, W!Waits
    <3>3. W!Go(d, x)
      BY <2>3 DEF x
    <3> QED BY <3>1, <3>2, <3>3
  <2> QED BY <1>1, <2>1, <2>2, <2>3
<1>5. /\ \A e \in Deliveries : Asks(webhookRequest'[e], versions') /\ \A t1 \in tasks : Comes(t1)'
      /\ DOMAIN webhookRequest' = Deliveries
      /\ Cardinality(Counting') <= Cardinality(Counting) /\ Cardinality(Counting') \in Nat
      /\ Cardinality(Counting) \in Nat
  BY <1>1, <1>4, GoesOn, GoStep
<1> QED BY <1>1, <1>5, OnlyRequests

\* FindVersion
LEMMA FindVersionStep ==
  ASSUME WebhookInv, NEW d \in Deliveries, W!FindVersion(d)
  PROVE  WebhookInv'
<1> DEFINE r == webhookRequest[d]
<1>1. /\ r.pc = "version" /\ UNCHANGED <<hook, versions, tasks, triggers, webhookEdits>>
      /\ \/ W!Go(d, [r EXCEPT !.pc = "create"])
         \/ \E i \in DOMAIN versions : /\ versions[i] = r.commit
                                       /\ W!Go(d, [r EXCEPT !.pc = "clients", !.version = i])
  BY DEF W!FindVersion
<1>2. r \in FoundRequests /\ ~r.filtered
  BY <1>1 DEF WebhookInv, Asks
<1> HIDE DEF r
<1>3. PICK x : W!Go(d, x) /\ Asks(x, versions) /\ x.pc # "count"
  <2>1. CASE W!Go(d, [r EXCEPT !.pc = "create"])
    <3>1. Asks([r EXCEPT !.pc = "create"], versions) /\ [r EXCEPT !.pc = "create"].pc # "count"
      BY <1>2 DEF Asks, FoundRequests, W!Waits
    <3> QED BY <2>1, <3>1
  <2>2. ASSUME NEW i \in DOMAIN versions, versions[i] = r.commit,
               W!Go(d, [r EXCEPT !.pc = "clients", !.version = i])
        PROVE  \E x : W!Go(d, x) /\ Asks(x, versions) /\ x.pc # "count"
    <3>1. i \in Nat
      BY <2>2 DEF WebhookInv
    <3>2. Asks([r EXCEPT !.pc = "clients", !.version = i], versions)
          /\ [r EXCEPT !.pc = "clients", !.version = i].pc # "count"
      BY <1>2, <2>2, <3>1 DEF Asks, FoundRequests, W!Waits
    <3> QED BY <2>2, <3>2
  <2> QED BY <1>1, <2>1, <2>2
<1>4. /\ \A e \in Deliveries : Asks(webhookRequest'[e], versions') /\ \A t1 \in tasks : Comes(t1)'
      /\ DOMAIN webhookRequest' = Deliveries
      /\ Cardinality(Counting') <= Cardinality(Counting) /\ Cardinality(Counting') \in Nat
      /\ Cardinality(Counting) \in Nat
  BY <1>1, <1>3, GoesOn, GoStep DEF r
<1> QED BY <1>1, <1>4, OnlyRequests

\* CreateVersion
LEMMA CreateVersionStep ==
  ASSUME WebhookInv, NEW d \in Deliveries, W!CreateVersion(d)
  PROVE  WebhookInv'
<1> DEFINE r == webhookRequest[d]
<1>1. /\ r.pc = "create" /\ UNCHANGED <<hook, tasks, triggers, webhookEdits>>
      /\ \/ /\ versions' = Append(versions, r.commit)
            /\ W!Go(d, [r EXCEPT !.pc = "clients", !.version = Len(versions) + 1])
         \/ W!Go(d, [r EXCEPT !.pc = "record", !.status = "failed"]) /\ UNCHANGED versions
  BY DEF W!CreateVersion
<1>2. r \in FoundRequests /\ ~r.filtered /\ versions \in Seq(Names)
  BY <1>1 DEF WebhookInv, Asks
<1> HIDE DEF r
<1>3. CASE W!Go(d, [r EXCEPT !.pc = "record", !.status = "failed"]) /\ UNCHANGED versions
  <2> DEFINE x == [r EXCEPT !.pc = "record", !.status = "failed"]
  <2>1. Asks(x, versions) /\ x.pc # "count"
    BY <1>2 DEF Asks, FoundRequests, W!Waits, W!Statuses
  <2> HIDE DEF x
  <2>2. W!Go(d, x)
    BY <1>3 DEF x
  <2>3. /\ \A e \in Deliveries : Asks(webhookRequest'[e], versions') /\ \A t1 \in tasks : Comes(t1)'
        /\ DOMAIN webhookRequest' = Deliveries
        /\ Cardinality(Counting') <= Cardinality(Counting) /\ Cardinality(Counting') \in Nat
        /\ Cardinality(Counting) \in Nat
    BY <1>1, <1>3, <2>1, <2>2, GoesOn, GoStep DEF r
  <2> QED BY <1>1, <1>3, <2>3, OnlyRequests
<1>4. CASE /\ versions' = Append(versions, r.commit)
           /\ W!Go(d, [r EXCEPT !.pc = "clients", !.version = Len(versions) + 1])
  <2> DEFINE x == [r EXCEPT !.pc = "clients", !.version = Len(versions) + 1]
  <2>1. r.commit \in Names /\ Len(versions) \in Nat
    BY <1>2 DEF FoundRequests
  <2>2. /\ versions' \in Seq(Names) /\ Len(versions) + 1 \in DOMAIN versions'
        /\ versions'[Len(versions) + 1] = r.commit
        /\ \A i \in DOMAIN versions : i \in DOMAIN versions' /\ versions'[i] = versions[i]
    BY <1>2, <1>4, <2>1
  <2>3. x \in FoundRequests /\ x.pc = "clients" /\ ~x.filtered /\ x.commit = r.commit
        /\ x.version = Len(versions) + 1
    <3> DEFINE n == Len(versions) + 1
    <3>1. n \in Nat
      BY <2>1
    <3> HIDE DEF n
    <3>2. [r EXCEPT !.pc = "clients", !.version = n] \in FoundRequests
      BY <1>2, <3>1 DEF FoundRequests, W!Waits
    <3>3. x = [r EXCEPT !.pc = "clients", !.version = n]
      BY DEF n
    <3> HIDE DEF x
    <3>4. x.pc = "clients" /\ ~x.filtered /\ x.commit = r.commit /\ x.version = n
      BY <1>2, <3>3 DEF FoundRequests
    <3> QED BY <3>2, <3>3, <3>4 DEF n
  <2> HIDE DEF x
  <2>4. W!Go(d, x)
    BY <1>4 DEF x
  <2>5. /\ DOMAIN webhookRequest' = Deliveries /\ webhookRequest'[d] = x
        /\ \A e \in Deliveries \ {d} : webhookRequest'[e] = webhookRequest[e]
        /\ Cardinality(Counting') <= Cardinality(Counting) /\ Cardinality(Counting') \in Nat
        /\ Cardinality(Counting) \in Nat
    BY <2>3, <2>4, GoStep
  <2>6. Asks(webhookRequest'[d], versions')
    BY <2>2, <2>3, <2>5 DEF Asks, W!Waits
  <2>7. \A e \in Deliveries \ {d} : Asks(webhookRequest'[e], versions')
    BY <2>2, <2>5 DEF Asks, WebhookInv
  <2>8. ASSUME NEW t \in tasks PROVE Comes(t)'
    <3>1. Comes(t) /\ t.delivery # d
      BY <1>1 DEF WebhookInv, Comes, r
    <3> QED BY <2>2, <2>5, <3>1 DEF Comes
  <2>9. hook'.count + Cardinality(Counting') <= Recorded'
    <3>1. hook.count \in Nat /\ Recorded \in Nat
      BY DEF WebhookInv, W!Hooks, Recorded, W!Statuses
    <3> QED BY <1>1, <2>5, <3>1 DEF WebhookInv, Recorded
  <2> QED BY <1>1, <2>2, <2>5, <2>6, <2>7, <2>8, <2>9 DEF WebhookInv
<1> QED BY <1>1, <1>3, <1>4

\* A request on record goes on: only where it is changes, and its task keeps its facts.
LEMMA RecordGoesOn ==
  ASSUME WebhookInv, NEW d \in Deliveries, NEW pc \in {"record", "count", "done"},
         W!Go(d, [webhookRequest[d] EXCEPT !.pc = pc]), UNCHANGED <<versions, tasks>>,
         webhookRequest[d].pc \in {"record", "count"}
  PROVE  /\ \A e \in Deliveries : Asks(webhookRequest'[e], versions')
         /\ \A t \in tasks' : Comes(t)'
<1> DEFINE x == [webhookRequest[d] EXCEPT !.pc = pc]
<1>1. webhookRequest[d] \in FoundRequests
  BY DEF WebhookInv, Asks
<1>2. x \in FoundRequests /\ x.pc = pc /\ x.filtered = webhookRequest[d].filtered
      /\ x.commit = webhookRequest[d].commit
  BY <1>1 DEF FoundRequests, W!Waits
<1>3. Asks(x, versions)
  <2> HIDE DEF x
  <2> QED BY <1>2 DEF Asks, W!Waits
<1> HIDE DEF x
<1>4. W!Go(d, x)
  BY DEF x
<1>5. webhookRequest'[d] = x /\ \A e \in Deliveries \ {d} : webhookRequest'[e] = webhookRequest[e]
  BY <1>4, GoStep
<1>6. \A e \in Deliveries : Asks(webhookRequest'[e], versions')
  BY <1>3, <1>5 DEF WebhookInv
<1>7. ASSUME NEW t \in tasks PROVE Comes(t)'
  <2>1. Comes(t)
    BY DEF WebhookInv
  <2> QED BY <1>2, <1>5, <2>1 DEF Comes
<1> QED BY <1>6, <1>7

\* CreateTask
LEMMA CreateTaskStep ==
  ASSUME WebhookInv, NEW d \in Deliveries, W!CreateTask(d)
  PROVE  WebhookInv'
<1> DEFINE r == webhookRequest[d]
<1>1. /\ r.pc = "clients" /\ UNCHANGED <<hook, versions, triggers, webhookEdits>>
      /\ \E x \in {[r EXCEPT !.pc = "record"], [r EXCEPT !.pc = "record", !.status = "failed"]} : W!Go(d, x)
      /\ tasks' = tasks \/ tasks' = tasks \union {[delivery |-> d, version |-> r.version]}
  BY DEF W!CreateTask
<1>2. r \in FoundRequests /\ ~r.filtered /\ r.version \in DOMAIN versions /\ versions[r.version] = r.commit
  BY <1>1 DEF WebhookInv, Asks
<1> HIDE DEF r
<1>3. PICK x : /\ W!Go(d, x) /\ x \in FoundRequests /\ x.pc = "record" /\ ~x.filtered
               /\ x.commit = r.commit
  BY <1>1, <1>2 DEF FoundRequests, W!Waits, W!Statuses
<1>4. Asks(x, versions)
  BY <1>3 DEF Asks, W!Waits
<1>5. /\ DOMAIN webhookRequest' = Deliveries /\ webhookRequest'[d] = x
      /\ \A e \in Deliveries : Asks(webhookRequest'[e], versions')
      /\ \A t \in tasks : Comes(t)'
      /\ Cardinality(Counting') <= Cardinality(Counting) /\ Cardinality(Counting') \in Nat
      /\ Cardinality(Counting) \in Nat
  BY <1>1, <1>3, <1>4, GoesOn, GoStep DEF r
<1>6. ASSUME NEW t, t = [delivery |-> d, version |-> r.version] PROVE Comes(t)'
  BY <1>1, <1>2, <1>3, <1>5, <1>6 DEF Comes
<1>7. \A t \in tasks' : Comes(t)'
  BY <1>1, <1>5, <1>6
<1>8. hook'.count + Cardinality(Counting') <= Recorded'
  <2>1. hook.count \in Nat /\ Recorded \in Nat
    BY DEF WebhookInv, W!Hooks, Recorded, W!Statuses
  <2> QED BY <1>1, <1>5, <2>1 DEF WebhookInv, Recorded
<1> QED BY <1>1, <1>5, <1>7, <1>8 DEF WebhookInv

\* RecordTrigger
LEMMA RecordTriggerStep ==
  ASSUME WebhookInv, NEW d \in Deliveries, W!RecordTrigger(d)
  PROVE  WebhookInv'
<1> DEFINE r == webhookRequest[d]
           pc == IF r.filtered THEN "done" ELSE "count"
<1>1. /\ r.pc = "record" /\ UNCHANGED <<hook, versions, tasks, webhookEdits>>
      /\ triggers' = [triggers EXCEPT ![r.status] = @ + 1] /\ W!Go(d, [r EXCEPT !.pc = pc])
  BY DEF W!RecordTrigger
<1>2. r.status \in W!Statuses
  BY <1>1 DEF WebhookInv, Asks, FoundRequests
<1>3. pc \in {"record", "count", "done"}
  OBVIOUS
<1> HIDE DEF pc
<1>4. /\ \A e \in Deliveries : Asks(webhookRequest'[e], versions') /\ \A t \in tasks' : Comes(t)'
  BY <1>1, <1>3, RecordGoesOn
<1>5. /\ DOMAIN webhookRequest' = Deliveries /\ Cardinality(Counting') <= Cardinality(Counting) + 1
      /\ Cardinality(Counting') \in Nat /\ Cardinality(Counting) \in Nat
  BY <1>1, GoStep
<1> HIDE DEF r
<1>6. triggers' \in [W!Statuses -> Nat] /\ Recorded' = Recorded + 1 /\ Recorded \in Nat
  BY <1>1, <1>2 DEF WebhookInv, W!Statuses, Recorded
<1>7. hook'.count + Cardinality(Counting') <= Recorded'
  <2>1. hook.count \in Nat
    BY DEF WebhookInv, W!Hooks
  <2> QED BY <1>1, <1>5, <1>6, <2>1 DEF WebhookInv
<1> QED BY <1>1, <1>4, <1>5, <1>6, <1>7 DEF WebhookInv

\* CountTrigger
LEMMA CountTriggerStep ==
  ASSUME WebhookInv, NEW d \in Deliveries, W!CountTrigger(d)
  PROVE  WebhookInv'
<1> DEFINE x == [webhookRequest[d] EXCEPT !.pc = "done"]
<1>1. /\ webhookRequest[d].pc = "count" /\ UNCHANGED <<versions, tasks, triggers, webhookEdits>>
      /\ hook' = IF hook.state = "deleted" THEN hook ELSE [hook EXCEPT !.count = @ + 1]
      /\ W!Go(d, x)
  BY DEF W!CountTrigger
<1>2. /\ \A e \in Deliveries : Asks(webhookRequest'[e], versions') /\ \A t \in tasks' : Comes(t)'
  BY <1>1, RecordGoesOn
<1>3. x.pc = "done"
  BY <1>1 DEF WebhookInv, Asks, FoundRequests
<1> HIDE DEF x
<1>4. /\ DOMAIN webhookRequest' = Deliveries /\ Cardinality(Counting') = Cardinality(Counting) - 1
      /\ Cardinality(Counting') \in Nat /\ Cardinality(Counting) \in Nat
  BY <1>1, <1>3, GoStep
<1>5. hook' \in W!Hooks /\ hook'.token = hook.token /\ hook'.count <= hook.count + 1 /\ hook.count \in Nat
      /\ hook'.count \in Nat
  BY <1>1 DEF WebhookInv, W!Hooks
<1>6. Recorded' = Recorded /\ Recorded \in Nat
  BY <1>1 DEF Recorded, WebhookInv, W!Statuses
<1>7. hook'.count + Cardinality(Counting') <= Recorded'
  BY <1>4, <1>5, <1>6 DEF WebhookInv
<1> QED BY <1>1, <1>2, <1>4, <1>5, <1>7 DEF WebhookInv

\* The configuration is edited, and the count is not.
LEMMA EditStep ==
  ASSUME WebhookInv, NEW h \in W!Hooks, W!Edit(h), h.token <= hook.token + 1, h.count = hook.count,
         triggers' \in [W!Statuses -> Nat], Recorded <= Recorded'
  PROVE  WebhookInv'
<1>1. hook' = h /\ webhookEdits' = webhookEdits + 1 /\ webhookEdits < MaxHookEdits
      /\ UNCHANGED <<webhookRequest, versions, tasks>>
  BY DEF W!Edit
<1>2. /\ hook.token \in Nat /\ webhookEdits \in Nat /\ h.token \in Nat
      /\ hook.count \in Nat /\ Recorded \in Nat
  BY HookAssumption DEF WebhookInv, W!Hooks, W!Tokens, Recorded, W!Statuses
<1>3. hook'.token <= webhookEdits' /\ webhookEdits' \in 0 .. MaxHookEdits
  BY <1>1, <1>2, HookAssumption DEF WebhookInv
<1>4. /\ DOMAIN webhookRequest' = Deliveries /\ \A d \in Deliveries : Asks(webhookRequest'[d], versions')
      /\ \A t \in tasks' : Comes(t)'
  BY <1>1 DEF WebhookInv, Comes
<1>5. Counting' = Counting /\ IsFiniteSet(Counting) /\ Cardinality(Counting) \in Nat
  BY <1>1, HookAssumption, FS_Subset, FS_CardinalityType DEF Counting
<1>6. Recorded' \in Nat
  BY DEF Recorded, W!Statuses
<1>7. hook'.count + Cardinality(Counting') <= Recorded'
  BY <1>1, <1>2, <1>5, <1>6 DEF WebhookInv
<1> QED BY <1>1, <1>3, <1>4, <1>7 DEF WebhookInv

\* The four handlers of the configuration.
LEMMA HandlersStep ==
  ASSUME WebhookInv,
         W!UpdateWebhook \/ W!DeleteWebhook \/ W!RegenerateWebhookSecret \/ W!TestWebhook
  PROVE  WebhookInv'
<1>1. hook \in W!Hooks /\ hook.token <= webhookEdits /\ webhookEdits \in Nat
      /\ triggers \in [W!Statuses -> Nat] /\ hook.token \in Nat /\ hook.count \in Nat
  BY HookAssumption DEF WebhookInv, W!Hooks, W!Tokens
<1>2. CASE W!UpdateWebhook
  <2>1. PICK st \in {"enabled", "disabled"}, f \in {{}, {"main"}}, a \in W!Actions :
          W!Edit([hook EXCEPT !.state = st, !.filter = f, !.action = a]) /\ UNCHANGED triggers
    BY <1>2 DEF W!UpdateWebhook
  <2> DEFINE h == [hook EXCEPT !.state = st, !.filter = f, !.action = a]
  <2>2. h \in W!Hooks /\ h.token = hook.token /\ h.count = hook.count
    BY <1>1 DEF W!Hooks, W!Refs
  <2> HIDE DEF h
  <2>3. W!Edit(h)
    BY <2>1 DEF h
  <2>4. Recorded' = Recorded /\ Recorded \in Nat
    BY <1>1, <2>1 DEF Recorded, W!Statuses
  <2> QED BY <1>1, <2>1, <2>2, <2>3, <2>4, EditStep
<1>3. CASE W!DeleteWebhook
  <2> DEFINE h == [hook EXCEPT !.state = "deleted"]
  <2>1. W!Edit(h) /\ UNCHANGED triggers
    BY <1>3 DEF W!DeleteWebhook
  <2>2. h \in W!Hooks /\ h.token = hook.token /\ h.count = hook.count
    BY <1>1 DEF W!Hooks
  <2> HIDE DEF h
  <2>4. Recorded' = Recorded /\ Recorded \in Nat
    BY <1>1, <2>1 DEF Recorded, W!Statuses
  <2> QED BY <1>1, <2>1, <2>2, <2>4, EditStep
<1>4. CASE W!RegenerateWebhookSecret
  <2> DEFINE h == [hook EXCEPT !.token = @ + 1]
  <2>1. W!Edit(h) /\ UNCHANGED triggers /\ webhookEdits < MaxHookEdits
    BY <1>4 DEF W!RegenerateWebhookSecret, W!Edit
  <2>2. h \in W!Hooks /\ h.token = hook.token + 1 /\ h.count = hook.count
    BY <1>1, <2>1, HookAssumption DEF W!Hooks, W!Tokens
  <2> HIDE DEF h
  <2>4. Recorded' = Recorded /\ Recorded \in Nat
    BY <1>1, <2>1 DEF Recorded, W!Statuses
  <2> QED BY <1>1, <2>1, <2>2, <2>4, EditStep
<1>5. CASE W!TestWebhook
  <2>1. W!Edit(hook) /\ triggers' = [triggers EXCEPT !["success"] = @ + 1]
    BY <1>5 DEF W!TestWebhook
  <2>2. triggers' \in [W!Statuses -> Nat] /\ Recorded' = Recorded + 1 /\ Recorded \in Nat
    BY <1>1, <2>1 DEF Recorded, W!Statuses
  <2> QED BY <1>1, <2>1, <2>2, EditStep
<1> QED BY <1>2, <1>3, <1>4, <1>5

\* Every step of the webhooks keeps their invariant.
LEMMA WebhookStep ==
  ASSUME WebhookInv, [W!Next]_(W!vars)
  PROVE  WebhookInv'
<1>1. CASE UNCHANGED W!vars
  <2>1. Counting' = Counting /\ Recorded' = Recorded
    BY <1>1 DEF Counting, Recorded, W!vars
  <2> QED BY <1>1, <2>1 DEF WebhookInv, Comes, W!vars
<1>2. ASSUME NEW d \in Deliveries, W!Incoming(d) \/ W!Serve(d) PROVE WebhookInv'
  BY <1>2, IncomingStep, FindWebhookStep, FindVersionStep, CreateVersionStep, CreateTaskStep,
     RecordTriggerStep, CountTriggerStep DEF W!Serve
<1> QED BY <1>1, <1>2, HandlersStep DEF W!Next

\* What the invariant says of records and tasks.
LEMMA WebhookShows == WebhookInv => W!TypeOK /\ W!TriggersRecorded /\ W!TasksWanted
<1> SUFFICES ASSUME WebhookInv PROVE W!TypeOK /\ W!TriggersRecorded /\ W!TasksWanted
  OBVIOUS
<1>1. \A i \in DOMAIN versions : versions[i] \in HookCommits \union W!Refs \union {""}
  <2>1. versions \in Seq(Names)
    BY DEF WebhookInv
  <2>2. \A i \in DOMAIN versions : versions[i] \in Names
    BY <2>1
  <2> QED BY <2>2 DEF Names
<1>2. W!TypeOK
  BY <1>1, HookAssumption DEF WebhookInv, W!TypeOK, Asks, Comes
<1>3. W!TriggersRecorded
  <2>1. IsFiniteSet(Counting) /\ Cardinality(Counting) \in Nat
    BY HookAssumption, FS_Subset, FS_CardinalityType DEF Counting
  <2>2. hook.count \in Nat /\ Recorded \in Nat
    BY DEF WebhookInv, W!Hooks, Recorded, W!Statuses
  <2> QED BY <2>1, <2>2 DEF WebhookInv, Recorded, W!TriggersRecorded
<1>4. W!TasksWanted
  BY DEF WebhookInv, Comes, FoundRequests, W!TasksWanted
<1> QED BY <1>2, <1>3, <1>4

-----------------------------------------------------------------------------
(* What two entries of one retry task can still send.  An entry that waits  *)
(* or is being sent costs a message; one whose attempt has failed costs     *)
(* none, but will write the count it read.  Both then go on from a count.   *)

Triangle(m) == (m * (m + 1)) \div 2
Left(n, x) == IF x < n THEN n - x ELSE 0

\* Entries T with their costs and next counts fit into b messages.
FitsIn(T, cost, next, n, b) ==
  /\ b \in Nat
  /\ \A r, s, t \in T : r = s \/ s = t \/ r = t
  /\ \A t \in T : cost[t] \in {0, 1} /\ next[t] \in Nat /\ cost[t] + Left(n, next[t]) <= b
  /\ \A s, t \in T : s # t /\ next[s] <= next[t]
       => cost[s] + cost[t] + Left(n, next[t]) + Triangle(Left(n, next[s])) <= b

\* The bound grows with the attempts by what one more lap can send.
LEMMA TriangleNext == \A m \in Nat : Triangle(m + 1) = Triangle(m) + m + 1
<1> SUFFICES ASSUME NEW m \in Nat PROVE Triangle(m + 1) = Triangle(m) + m + 1
  OBVIOUS
<1>1. (m + 1) * (m + 2) = m * (m + 1) + 2 * (m + 1)
  OBVIOUS
<1> DEFINE p == m * (m + 1)
<1>2. p \in Nat
  OBVIOUS
<1>3. \A a \in Nat : (a + 2 * (m + 1)) \div 2 = a \div 2 + (m + 1)
  OBVIOUS
<1>4. (p + 2 * (m + 1)) \div 2 = p \div 2 + (m + 1)
  BY <1>2, <1>3
<1>5. Triangle(m + 1) = (p + 2 * (m + 1)) \div 2
  BY <1>1 DEF Triangle
<1>6. p \div 2 \in Nat
  BY <1>2
<1> QED BY <1>4, <1>5, <1>6 DEF Triangle

\* It is a number, not below its argument, and grows with it.
LEMMA TriangleGrows ==
  \A k, m \in Nat :
    Triangle(m) \in Nat /\ m <= Triangle(m) /\ (k <= m => Triangle(k) <= Triangle(m))
<1> SUFFICES ASSUME NEW k \in Nat, NEW m \in Nat
             PROVE  Triangle(m) \in Nat /\ m <= Triangle(m) /\ (k <= m => Triangle(k) <= Triangle(m))
  OBVIOUS
<1>1. \A a, b \in Nat : /\ a \div 2 \in Nat /\ (a <= b => a \div 2 <= b \div 2)
                        /\ (2 * a <= b => a <= b \div 2)
  OBVIOUS
<1>2. m * (m + 1) \in Nat /\ k * (k + 1) \in Nat
  OBVIOUS
<1>3. 2 * m <= m * (m + 1)
  <2>1. m = 0 \/ m >= 1
    OBVIOUS
  <2>2. m >= 1 => m * m >= m
    OBVIOUS
  <2>3. m * (m + 1) = m * m + m
    OBVIOUS
  <2> QED BY <2>1, <2>2, <2>3
<1>4. k <= m => k * (k + 1) <= m * (m + 1)
  <2>1. k <= m => k * k <= m * m
    OBVIOUS
  <2>2. m * (m + 1) = m * m + m /\ k * (k + 1) = k * k + k
    OBVIOUS
  <2>3. m * m \in Nat /\ k * k \in Nat
    OBVIOUS
  <2> QED BY <2>1, <2>2, <2>3
<1> QED BY <1>1, <1>2, <1>3, <1>4 DEF Triangle

\* What is left of the attempts is a number.
LEMMA LeftType == \A n, x \in Nat : Left(n, x) \in Nat /\ Left(n, x) <= n
BY DEF Left

\* Entries that move keep their cost and their next count.
LEMMA Moved ==
  ASSUME NEW T, NEW cost, NEW next, NEW n \in Nat, NEW b, FitsIn(T, cost, next, n, b),
         NEW Us, NEW cost2, NEW next2, NEW b2 \in Int, b <= b2, NEW f \in [Us -> T],
         \A s, t \in Us : f[s] = f[t] => s = t,
         \A t \in Us : cost2[t] = cost[f[t]] /\ next2[t] = next[f[t]]
  PROVE  FitsIn(Us, cost2, next2, n, b2)
<1>1. \A t \in Us : f[t] \in T
  OBVIOUS
<1>2. b2 \in Nat
  BY DEF FitsIn
<1>3. \A r, s, t \in Us : r = s \/ s = t \/ r = t
  BY <1>1 DEF FitsIn
<1>4. ASSUME NEW t \in Us
      PROVE  cost2[t] \in {0, 1} /\ next2[t] \in Nat /\ cost2[t] + Left(n, next2[t]) <= b2
  <2>1. cost2[t] \in {0, 1} /\ next2[t] \in Nat /\ cost2[t] + Left(n, next2[t]) <= b
    BY <1>1 DEF FitsIn
  <2>2. b \in Nat /\ Left(n, next2[t]) \in Nat
    BY <2>1, LeftType DEF FitsIn
  <2> QED BY <1>2, <2>1, <2>2
<1>5. ASSUME NEW s \in Us, NEW t \in Us, s # t, next2[s] <= next2[t]
      PROVE  cost2[s] + cost2[t] + Left(n, next2[t]) + Triangle(Left(n, next2[s])) <= b2
  <2>1. cost2[s] + cost2[t] + Left(n, next2[t]) + Triangle(Left(n, next2[s])) <= b
    <3>1. f[s] # f[t] /\ f[s] \in T /\ f[t] \in T
      BY <1>1, <1>5
    <3> QED BY <1>5, <3>1 DEF FitsIn
  <2>2. Left(n, next2[t]) \in Nat /\ Triangle(Left(n, next2[s])) \in Nat
    BY <1>4, LeftType, TriangleGrows
  <2> QED BY <1>2, <1>4, <2>1, <2>2 DEF FitsIn
<1> QED BY <1>2, <1>3, <1>4, <1>5 DEF FitsIn

\* A message is sent for an entry: it costs one less, and so may all of them.
LEMMA SentOne ==
  ASSUME NEW T, NEW cost, NEW next, NEW n \in Nat, NEW b, FitsIn(T, cost, next, n, b),
         NEW w \in T, cost[w] = 1,
         NEW Us \in SUBSET T, NEW cost2, NEW next2, NEW b2 \in Int, b - 1 <= b2,
         \A t \in Us : next2[t] = next[t] /\ cost2[t] = IF t = w THEN 0 ELSE cost[t]
  PROVE  FitsIn(Us, cost2, next2, n, b2)
<1>1. b \in Nat /\ \A t \in T : cost[t] \in {0, 1} /\ next[t] \in Nat
                              /\ Left(n, next[t]) \in Nat /\ Triangle(Left(n, next[t])) \in Nat
                              /\ Left(n, next[t]) <= Triangle(Left(n, next[t]))
  BY LeftType, TriangleGrows DEF FitsIn
<1>2. cost[w] + Left(n, next[w]) <= b
  BY DEF FitsIn
<1>3. b2 \in Nat
  BY <1>1, <1>2
<1>4. \A r, s, t \in Us : r = s \/ s = t \/ r = t
  BY DEF FitsIn
<1>5. ASSUME NEW t \in Us, t # w
      PROVE  cost[t] + 1 + Left(n, next[t]) <= b
  <2>1. t \in T /\ (next[t] <= next[w] \/ next[w] <= next[t])
    BY <1>1
  <2>2. next[t] <= next[w] => cost[t] + cost[w] + Left(n, next[w]) + Triangle(Left(n, next[t])) <= b
    BY <1>5, <2>1 DEF FitsIn
  <2>3. next[w] <= next[t] => cost[w] + cost[t] + Left(n, next[t]) + Triangle(Left(n, next[w])) <= b
    BY <1>5, <2>1 DEF FitsIn
  <2> QED BY <1>1, <2>1, <2>2, <2>3
<1>6. ASSUME NEW t \in Us
      PROVE  cost2[t] \in {0, 1} /\ next2[t] \in Nat /\ cost2[t] + Left(n, next2[t]) <= b2
  BY <1>1, <1>2, <1>3, <1>5
<1>7. ASSUME NEW s \in Us, NEW t \in Us, s # t, next2[s] <= next2[t]
      PROVE  cost2[s] + cost2[t] + Left(n, next2[t]) + Triangle(Left(n, next2[s])) <= b2
  <2>1. s \in T /\ t \in T /\ next[s] <= next[t]
    BY <1>7
  <2>2. cost[s] + cost[t] + Left(n, next[t]) + Triangle(Left(n, next[s])) <= b
    BY <1>7, <2>1 DEF FitsIn
  <2>3. s = w \/ t = w
    BY <1>7, <2>1 DEF FitsIn
  <2> QED BY <1>1, <1>3, <1>7, <2>1, <2>2, <2>3
<1> QED BY <1>3, <1>4, <1>6, <1>7 DEF FitsIn

\* An entry w writes its count: it waits again, as p, unless it was the last,
\* and those that cost a message go on from that count.
Bumps(T, cost, next, n, w, p, Us, cost2, next2) ==
  /\ w \in T /\ cost[w] = 0 /\ p # w
  /\ Us \subseteq (T \ {w}) \union {p}
  /\ p \in Us => (p \in T \/ next[w] < n) /\ cost2[p] = 1 /\ next2[p] = next[w] + 1
  /\ \A t \in T \ {w} : cost2[t] = cost[t] /\ next2[t] = IF cost[t] = 0 THEN next[t] ELSE next[w] + 1

LEMMA Bumped ==
  ASSUME NEW T, NEW cost, NEW next, NEW n \in Nat, NEW b, FitsIn(T, cost, next, n, b),
         NEW w, NEW p, NEW Us, NEW cost2, NEW next2, Bumps(T, cost, next, n, w, p, Us, cost2, next2)
  PROVE  FitsIn(Us, cost2, next2, n, b)
<1> USE DEF Bumps
<1>1. b \in Nat /\ \A t \in T : cost[t] \in {0, 1} /\ next[t] \in Nat /\ cost[t] + Left(n, next[t]) <= b
                              /\ Left(n, next[t]) \in Nat /\ Triangle(Left(n, next[t])) \in Nat
                              /\ Left(n, next[t]) <= Triangle(Left(n, next[t]))
  BY LeftType, TriangleGrows DEF FitsIn
<1>2. Us \subseteq (T \ {w}) \union {p} /\ (p \in Us /\ p \notin T => next[w] < n)
  OBVIOUS
<1>3. \A s, t \in T \ {w} : s = t
  BY DEF FitsIn
<1>4. \A r, s, t \in Us : r = s \/ s = t \/ r = t
  BY <1>2, <1>3
<1>5. ASSUME NEW t \in Us
      PROVE  cost2[t] \in {0, 1} /\ next2[t] \in Nat /\ cost2[t] + Left(n, next2[t]) <= b
  <2>1. next[w] \in Nat /\ Left(n, next[w]) <= b
    BY <1>1
  <2>2. CASE t \in T \ {w} /\ cost[t] = 0
    BY <1>1, <2>2
  <2>3. CASE t \in T \ {w} /\ cost[t] = 1
    <3>1. cost2[t] = 1 /\ next2[t] = next[w] + 1 /\ 1 <= b
      BY <1>1, <2>3
    <3> QED BY <1>1, <2>1, <3>1 DEF Left
  <2>4. CASE t \notin T \ {w}
    <3>1. cost2[t] = 1 /\ next2[t] = next[w] + 1 /\ next[w] < n
      BY <1>2, <2>4
    <3> QED BY <1>1, <2>1, <3>1 DEF Left
  <2> QED BY <1>1, <2>2, <2>3, <2>4
<1>6. ASSUME NEW s \in T \ {w}, s # p, next[w] < n
      PROVE  /\ next2[s] <= next[w] + 1
                  => cost[s] + 1 + Left(n, next[w] + 1) + Triangle(Left(n, next2[s])) <= b
             /\ next[w] + 1 <= next2[s]
                  => cost[s] + 1 + Left(n, next2[s]) + Triangle(Left(n, next[w] + 1)) <= b
  <2> DEFINE m == Left(n, next[w] + 1)
  <2>1. next[w] \in Nat /\ next[s] \in Nat /\ m \in Nat /\ Left(n, next[w]) = m + 1 /\ n - next[w] = m + 1
    BY <1>1, <1>6 DEF Left
  <2>2. Triangle(m) \in Nat /\ Triangle(m + 1) = Triangle(m) + m + 1
    BY <2>1, TriangleNext, TriangleGrows
  <2>3. next[s] <= next[w] => cost[s] + m + 1 + Triangle(Left(n, next[s])) <= b
    BY <1>6, <2>1 DEF FitsIn
  <2>4. next[w] <= next[s] => cost[s] + Left(n, next[s]) + Triangle(m + 1) <= b
    BY <1>6, <2>1 DEF FitsIn
  <2> HIDE DEF m
  <2>5. CASE cost[s] = 0
    <3>1. next2[s] = next[s]
      BY <1>6, <2>5
    <3>2. ASSUME next[s] <= next[w] + 1 PROVE 1 + m + Triangle(Left(n, next[s])) <= b
      <4>1. CASE next[s] <= next[w]
        BY <1>1, <2>1, <2>3, <2>5, <4>1
      <4>2. CASE next[s] = next[w] + 1
        <5>1. Left(n, next[s]) = m
          BY <4>2 DEF m
        <5> QED BY <1>1, <2>1, <2>2, <2>4, <2>5, <4>2, <5>1
      <4> QED BY <2>1, <3>2, <4>1, <4>2
    <3>3. ASSUME next[w] + 1 <= next[s] PROVE 1 + Left(n, next[s]) + Triangle(m) <= b
      BY <1>1, <2>1, <2>2, <2>4, <2>5, <3>3
    <3> QED BY <2>5, <3>1, <3>2, <3>3 DEF m
  <2>6. CASE cost[s] = 1
    <3>1. next2[s] = next[w] + 1
      BY <1>6, <2>6
    <3>2. 2 + m + Triangle(m) <= b
      <4>1. CASE next[w] <= next[s]
        BY <1>1, <2>1, <2>2, <2>4, <2>6, <4>1
      <4>2. CASE next[s] <= next[w]
        <5>1. m + 1 <= Left(n, next[s])
          BY <2>1, <4>2 DEF Left
        <5>2. Triangle(m + 1) <= Triangle(Left(n, next[s]))
          BY <1>1, <2>1, <5>1, TriangleGrows
        <5> QED BY <1>1, <2>1, <2>2, <2>3, <2>6, <4>2, <5>2
      <4> QED BY <2>1, <4>1, <4>2
    <3> QED BY <2>1, <2>2, <2>6, <3>1, <3>2 DEF m
  <2> QED BY <1>1, <2>5, <2>6
<1>7. ASSUME NEW s \in Us, NEW t \in Us, s # t, next2[s] <= next2[t]
      PROVE  cost2[s] + cost2[t] + Left(n, next2[t]) + Triangle(Left(n, next2[s])) <= b
  <2>1. next[w] < n /\ p \in Us /\ cost2[p] = 1 /\ next2[p] = next[w] + 1
    BY <1>2, <1>3, <1>7
  <2>2. CASE s = p
    <3>1. t \in T \ {w} /\ t # p /\ cost2[t] = cost[t]
      BY <1>2, <1>7, <2>2
    <3> QED BY <1>1, <1>6, <1>7, <2>1, <2>2, <3>1
  <2>3. CASE t = p
    <3>1. s \in T \ {w} /\ s # p /\ cost2[s] = cost[s]
      BY <1>2, <1>7, <2>3
    <3> QED BY <1>1, <1>6, <1>7, <2>1, <2>3, <3>1
  <2> QED BY <1>2, <1>3, <1>7, <2>2, <2>3
<1> QED BY <1>1, <1>4, <1>5, <1>7 DEF FitsIn

-----------------------------------------------------------------------------
(* The callbacks.                                                          *)

Senders == [pc : {"idle", "wait", "send", "failed", "offer", "save", "done"}, row : Nat,
            status : B!RowStatuses]
BusyWorkers == [pc : {"record", "send", "sent", "bump", "update"}, task : CallbackTasks,
                ok : BOOLEAN, count : Nat, status : B!RowStatuses]

\* A request by hand: where it is, and the row it goes on with.
Asked(x) ==
  /\ manual[x].pc \in {"idle", "send", "done"}
  /\ manual[x].pc = "send" =>
       manual[x].task \in CallbackTasks /\ manual[x].row \in DOMAIN rows /\ x <= setup.manual

CallbackType ==
  /\ setup \in CallbackSetups /\ config \in {"enabled", "disabled", "deleted"}
  /\ sender \in [CallbackTasks -> Senders] /\ \A d \in CallbackTasks : sender[d].row <= Len(rows)
  /\ late \subseteq CallbackTasks /\ callbackRefused \subseteq CallbackTasks
  /\ rows \in Seq(B!Rows)
  /\ history \in [CallbackTasks -> 0 .. 1]
  /\ queue \in Seq(CallbackTasks) /\ Len(queue) <= RetryQueueSize
  /\ pending \subseteq CallbackTasks
  /\ attempts \in [CallbackTasks -> Nat]
  /\ worker \in [CallbackWorkers -> {B!Free} \union BusyWorkers]
  /\ DOMAIN manual = B!Manuals /\ \A x \in B!Manuals : Asked(x)
  /\ received \in [CallbackTasks -> Nat]

\* Whoever says or is about to say success has had a message through.
Told == \E d \in CallbackTasks : received[d] > 0
RowsTrue == \A i \in DOMAIN rows : rows[i].status = "success" => Told
SendersTrue == \A d \in CallbackTasks : sender[d].status = "success" => Told
WorkersTrue ==
  \A w \in CallbackWorkers : worker[w] \in BusyWorkers =>
    (worker[w].pc = "sent" \/ worker[w].status = "success" => Told)
Successes == RowsTrue /\ SendersTrue /\ WorkersTrue

\* The entries of the retry task of d: in the map, on the way into the channel,
\* in the channel, and with a worker.
Retries(w, d) == worker[w].pc \in {"record", "send", "bump"} /\ worker[w].task = d
QueuedAt(d) == {j \in DOMAIN queue : queue[j] = d}
Entries(d) ==
  (IF d \in pending THEN {<<"pending", 0>>} ELSE {})
  \union (IF sender[d].pc = "offer" THEN {<<"offer", 0>>} ELSE {})
  \union {<<"queue", i>> : i \in QueuedAt(d)}
  \union {<<"worker", w>> : w \in {v \in CallbackWorkers : Retries(v, d)}}
Stalled(t) == t[1] = "worker" /\ worker[t[2]].pc = "bump"
Costs(d) == [t \in Entries(d) |-> IF Stalled(t) THEN 0 ELSE 1]
Nexts(d) == [t \in Entries(d) |-> IF Stalled(t) THEN worker[t[2]].count ELSE attempts[d] + 1]

\* What is left of the bound: without the first message while it is to come,
\* and without those that can still be sent by hand.
Fresh(d) == sender[d].pc \in {"idle", "wait", "send"}
Early(d) == sender[d].pc \in {"idle", "wait", "send", "failed"}
First(d) == IF Fresh(d) \/ d \in late THEN 1 ELSE 0
ByHand == {x \in 1 .. setup.manual : manual[x].pc # "done"}
Limit == 2 + setup.manual + Triangle(setup.max)
Budget(d) == Limit - received[d] - First(d) - Cardinality(ByHand)

Accounted(d) ==
  /\ d \in late => ~Fresh(d)
  /\ Early(d) => /\ history[d] = 0 /\ attempts[d] = 0 /\ Entries(d) = {}
                 /\ 1 + Triangle(setup.max) <= Budget(d)
  /\ FitsIn(Entries(d), Costs(d), Nexts(d), setup.max, Budget(d))

CallbackInv == CallbackType /\ Successes /\ \A d \in CallbackTasks : Accounted(d)

\* The bounds of a behaviour, and how many can still be sent by hand.
LEMMA SetupFacts ==
  ASSUME CallbackType
  PROVE  /\ setup.max \in Nat /\ setup.manual \in Nat /\ Triangle(setup.max) \in Nat /\ Limit \in Nat
         /\ 1 .. setup.manual \subseteq B!Manuals
         /\ IsFiniteSet(ByHand) /\ Cardinality(ByHand) \in Nat /\ Cardinality(ByHand) <= setup.manual
<1>1. setup.max \in Nat /\ setup.manual \in Nat
  BY CallbackAssumption DEF CallbackType, B!IsSetup
<1>2. Triangle(setup.max) \in Nat
  BY <1>1, TriangleGrows
<1>3. 1 .. setup.manual \subseteq B!Manuals
  BY DEF CallbackType, B!Manuals
<1>4. IsFiniteSet(1 .. setup.manual) /\ Cardinality(1 .. setup.manual) = setup.manual
  <2>1. ASSUME NEW m \in Nat PROVE IsFiniteSet(1 .. m) /\ Cardinality(1 .. m) = m
    BY FS_Interval
  <2> QED BY <1>1, <2>1
<1>5. ByHand \subseteq 1 .. setup.manual
  BY DEF ByHand
<1>6. IsFiniteSet(ByHand) /\ Cardinality(ByHand) <= setup.manual
  BY <1>4, <1>5, FS_Subset
<1>7. Cardinality(ByHand) \in Nat
  BY <1>6, FS_CardinalityType
<1> QED BY <1>1, <1>2, <1>3, <1>6, <1>7 DEF Limit

\* What is left is a number below the bound.
LEMMA BudgetType ==
  ASSUME CallbackType, NEW d \in CallbackTasks
  PROVE  Budget(d) \in Int /\ received[d] \in Nat /\ First(d) \in {0, 1}
BY SetupFacts DEF Budget, First, CallbackType

\* Nothing fits into what is left, where there is something left.
LEMMA NoneFits == \A cost, next : \A n, b \in Nat : FitsIn({}, cost, next, n, b)
BY DEF FitsIn

\* At the start nothing was sent, and all is to come.
LEMMA CallbackInit == B!Init => CallbackInv
<1> SUFFICES ASSUME B!Init PROVE CallbackInv
  OBVIOUS
<1>1. CallbackType
  <2>1. sender \in [CallbackTasks -> Senders] /\ \A d \in CallbackTasks : sender[d].row <= Len(rows)
    BY DEF B!Init, Senders, B!RowStatuses
  <2>2. rows \in Seq(B!Rows) /\ queue \in Seq(CallbackTasks) /\ Len(queue) <= RetryQueueSize
    BY CallbackAssumption DEF B!Init
  <2>3. DOMAIN manual = B!Manuals /\ \A x \in B!Manuals : Asked(x)
    BY DEF B!Init, B!Free, Asked
  <2> QED BY <2>1, <2>2, <2>3 DEF B!Init, CallbackType
<1>2. Successes
  <2>1. B!Free \notin BusyWorkers
    BY DEF B!Free, BusyWorkers
  <2> QED BY <2>1 DEF B!Init, Successes, RowsTrue, SendersTrue, WorkersTrue
<1>3. ASSUME NEW d \in CallbackTasks PROVE Accounted(d)
  <2>1. Early(d) /\ Fresh(d) /\ d \notin late /\ First(d) = 1 /\ history[d] = 0 /\ attempts[d] = 0
        /\ received[d] = 0
    BY DEF B!Init, Early, Fresh, First
  <2>2. Entries(d) = {}
    BY DEF B!Init, Entries, QueuedAt, Retries, B!Free
  <2>3. Budget(d) \in Int /\ 1 + Triangle(setup.max) <= Budget(d) /\ Triangle(setup.max) \in Nat
    BY <1>1, <2>1, SetupFacts DEF Budget, Limit
  <2>4. FitsIn(Entries(d), Costs(d), Nexts(d), setup.max, Budget(d))
    BY <1>1, <2>2, <2>3, SetupFacts, NoneFits
  <2> QED BY <2>1, <2>2, <2>3, <2>4 DEF Accounted
<1> QED BY <1>1, <1>2, <1>3 DEF CallbackInv

\* A row is written, or none.
LEMMA RowSet ==
  ASSUME CallbackType, NEW i \in Nat, i <= Len(rows), NEW status \in B!RowStatuses,
         B!SetRow(i, status)
  PROVE  /\ rows' \in Seq(B!Rows) /\ Len(rows') = Len(rows) /\ DOMAIN rows' = DOMAIN rows
         /\ \A j \in DOMAIN rows : rows'[j].status \in {rows[j].status, status}
<1>1. rows \in Seq(B!Rows) /\ DOMAIN rows = 1 .. Len(rows)
      /\ \A j \in DOMAIN rows : rows[j] \in B!Rows
  BY DEF CallbackType
<1>2. CASE i = 0
  BY <1>1, <1>2 DEF B!SetRow
<1>3. CASE i # 0
  <2>1. i \in DOMAIN rows /\ rows[i] \in B!Rows
    BY <1>1, <1>3
  <2>2. [rows[i] EXCEPT !.status = status] \in B!Rows
    BY <2>1 DEF B!Rows
  <2>3. rows' = [rows EXCEPT ![i] = [rows[i] EXCEPT !.status = status]]
    BY <1>3 DEF B!SetRow
  <2>4. rows' \in Seq(B!Rows) /\ Len(rows') = Len(rows) /\ DOMAIN rows' = DOMAIN rows
    BY <1>1, <2>1, <2>2, <2>3
  <2>5. \A j \in DOMAIN rows : rows'[j] = IF j = i THEN [rows[i] EXCEPT !.status = status] ELSE rows[j]
    BY <1>1, <2>3
  <2>6. [rows[i] EXCEPT !.status = status].status = status
    BY <2>1 DEF B!Rows
  <2> QED BY <2>4, <2>5, <2>6
<1> QED BY <1>2, <1>3

\* A row is appended.
LEMMA RowAppended ==
  ASSUME CallbackType, NEW r \in B!Rows, rows' = Append(rows, r)
  PROVE  /\ rows' \in Seq(B!Rows) /\ Len(rows') = Len(rows) + 1 /\ DOMAIN rows \subseteq DOMAIN rows'
         /\ \A j \in DOMAIN rows' : (j \in DOMAIN rows /\ rows'[j] = rows[j]) \/ rows'[j] = r
<1>1. rows \in Seq(B!Rows)
  BY DEF CallbackType
<1> QED BY <1>1

\* Whatever moves on, requests by hand keep their rows.
LEMMA AskedStay ==
  ASSUME CallbackType, DOMAIN rows \subseteq DOMAIN rows', UNCHANGED <<setup, manual>>
  PROVE  DOMAIN manual' = B!Manuals /\ \A x \in B!Manuals : Asked(x)'
BY DEF CallbackType, Asked

\* Each step keeps the types: senders,
LEMMA SenderTypes ==
  ASSUME CallbackType, NEW d \in CallbackTasks, Accounted(d),
         B!TriggerCallback(d) \/ B!SenderStep(d) \/ B!LateAnswer(d) \/ B!CheckPendingTasks(d)
  PROVE  CallbackType'
<1> USE DEF CallbackType
<1>1. sender[d] \in Senders /\ sender[d].row <= Len(rows) /\ Len(rows) \in Nat
  OBVIOUS
<1>2. ASSUME NEW pc \in {"idle", "wait", "send", "failed", "offer", "save", "done"}
      PROVE  /\ [sender[d] EXCEPT !.pc = pc] \in Senders /\ [sender[d] EXCEPT !.pc = pc].row = sender[d].row
             /\ \A status \in B!RowStatuses :
                  /\ [sender[d] EXCEPT !.pc = pc, !.status = status] \in Senders
                  /\ [sender[d] EXCEPT !.pc = pc, !.status = status].row = sender[d].row
  BY <1>1 DEF Senders
<1>3. ASSUME NEW x \in Senders, x.row = sender[d].row, sender' = [sender EXCEPT ![d] = x],
             Len(rows') = Len(rows)
      PROVE  sender' \in [CallbackTasks -> Senders] /\ \A e \in CallbackTasks : sender'[e].row <= Len(rows')
  BY <1>3
<1>4. ASSUME UNCHANGED <<rows, setup, manual>>
      PROVE  DOMAIN manual' = B!Manuals /\ \A x \in B!Manuals : Asked(x)'
  BY <1>4, AskedStay
<1>5. ASSUME NEW o \in B!Outcomes, B!Arrives(d, o) PROVE received' \in [CallbackTasks -> Nat]
  BY <1>5 DEF B!Arrives
<1>6. ASSUME NEW o, B!Refuses(d, o) PROVE callbackRefused' \subseteq CallbackTasks
  BY <1>6 DEF B!Refuses
<1>7. CASE B!TriggerCallback(d)
  <2>1. sender' \in [CallbackTasks -> Senders] /\ \A e \in CallbackTasks : sender'[e].row <= Len(rows')
    BY <1>2, <1>3, <1>7 DEF B!TriggerCallback
  <2> QED BY <1>4, <1>7, <2>1 DEF B!TriggerCallback
<1>8. CASE B!Acquire(d)
  <2>1. [task |-> d, status |-> "pending"] \in B!Rows
    BY DEF B!Rows, B!RowStatuses
  <2>2. rows' \in Seq(B!Rows) /\ Len(rows') = Len(rows) + 1 /\ DOMAIN rows \subseteq DOMAIN rows'
    BY <1>8, <2>1, RowAppended DEF B!Acquire
  <2>3. [pc |-> "send", row |-> Len(rows) + 1, status |-> "pending"] \in Senders
    BY <1>1 DEF Senders, B!RowStatuses
  <2>4. sender' = [sender EXCEPT ![d] = [pc |-> "send", row |-> Len(rows) + 1, status |-> "pending"]]
    BY <1>8 DEF B!Acquire
  <2>5. sender' \in [CallbackTasks -> Senders] /\ \A e \in CallbackTasks : sender'[e].row <= Len(rows')
    BY <1>1, <2>2, <2>3, <2>4 DEF Senders
  <2>6. DOMAIN manual' = B!Manuals /\ \A x \in B!Manuals : Asked(x)'
    BY <1>8, <2>2, AskedStay DEF B!Acquire
  <2> QED BY <1>8, <2>2, <2>5, <2>6 DEF B!Acquire
<1>9. CASE B!Answered(d)
  <2>1. PICK o \in B!Outcomes : /\ B!Arrives(d, o) /\ B!Refuses(d, o)
          /\ sender' = [sender EXCEPT ![d].pc = IF o.ok THEN "save" ELSE "failed",
                                      ![d].status = IF o.ok THEN "success" ELSE "failed"]
    BY <1>9 DEF B!Answered
  <2> DEFINE x == [sender[d] EXCEPT !.pc = IF o.ok THEN "save" ELSE "failed",
                                    !.status = IF o.ok THEN "success" ELSE "failed"]
  <2>2. x \in Senders /\ x.row = sender[d].row
    BY <1>1 DEF Senders, B!RowStatuses
  <2>3. sender' = [sender EXCEPT ![d] = x]
    BY <2>1
  <2> HIDE DEF x
  <2>4. sender' \in [CallbackTasks -> Senders] /\ \A e \in CallbackTasks : sender'[e].row <= Len(rows')
    BY <1>3, <1>9, <2>2, <2>3 DEF B!Answered
  <2> QED BY <1>4, <1>5, <1>6, <1>9, <2>1, <2>4 DEF B!Answered
<1>10. CASE B!Timeout(d)
  <2>1. sender' \in [CallbackTasks -> Senders] /\ \A e \in CallbackTasks : sender'[e].row <= Len(rows')
    BY <1>2, <1>3, <1>10 DEF B!Timeout, B!RowStatuses
  <2> QED BY <1>4, <1>10, <2>1 DEF B!Timeout
<1>11. CASE B!Enqueue(d)
  <2>1. sender' \in [CallbackTasks -> Senders] /\ \A e \in CallbackTasks : sender'[e].row <= Len(rows')
    BY <1>2, <1>3, <1>11 DEF B!Enqueue
  <2>2. history[d] = 0
    BY <1>11 DEF B!Enqueue, Accounted, Early
  <2>3. history' \in [CallbackTasks -> 0 .. 1] /\ pending' \subseteq CallbackTasks
    <3>1. history' = history \/ history' = [history EXCEPT ![d] = 1]
      BY <1>11, <2>2 DEF B!Enqueue
    <3>2. pending' \subseteq CallbackTasks
      BY <1>11 DEF B!Enqueue
    <3>3. history' \in [CallbackTasks -> 0 .. 1]
      <4>1. 1 \in 0 .. 1 /\ history \in [CallbackTasks -> 0 .. 1]
        OBVIOUS
      <4> QED BY <3>1, <4>1
    <3> QED BY <3>2, <3>3
  <2> QED BY <1>4, <1>11, <2>1, <2>3 DEF B!Enqueue
<1>12. CASE B!Offer(d)
  <2>1. sender' \in [CallbackTasks -> Senders] /\ \A e \in CallbackTasks : sender'[e].row <= Len(rows')
    BY <1>2, <1>3, <1>12 DEF B!Offer, B!RowStatuses
  <2>2. queue' \in Seq(CallbackTasks) /\ Len(queue') <= RetryQueueSize
    <3>1. CASE Len(queue) < RetryQueueSize
      <4>1. queue' = Append(queue, d)
        BY <1>12, <3>1 DEF B!Offer
      <4> QED BY <3>1, <4>1, CallbackAssumption
    <3>2. CASE ~(Len(queue) < RetryQueueSize)
      BY <1>12, <3>2 DEF B!Offer
    <3> QED BY <3>1, <3>2
  <2> QED BY <1>4, <1>12, <2>1, <2>2 DEF B!Offer
<1>13. CASE B!SaveHistory(d)
  <2>1. rows' \in Seq(B!Rows) /\ Len(rows') = Len(rows) /\ DOMAIN rows' = DOMAIN rows
    BY <1>1, <1>13, RowSet DEF B!SaveHistory, Senders
  <2>2. sender' \in [CallbackTasks -> Senders] /\ \A e \in CallbackTasks : sender'[e].row <= Len(rows')
    BY <1>2, <1>3, <1>13, <2>1 DEF B!SaveHistory
  <2>3. DOMAIN manual' = B!Manuals /\ \A x \in B!Manuals : Asked(x)'
    BY <1>13, <2>1, AskedStay DEF B!SaveHistory
  <2> QED BY <1>13, <2>1, <2>2, <2>3 DEF B!SaveHistory
<1>14. CASE B!LateAnswer(d)
  BY <1>4, <1>5, <1>14 DEF B!LateAnswer
<1>15. CASE B!CheckPendingTasks(d)
  <2>1. queue' \in Seq(CallbackTasks) /\ Len(queue') <= RetryQueueSize
    BY <1>15, CallbackAssumption DEF B!CheckPendingTasks
  <2> QED BY <1>4, <1>15, <2>1 DEF B!CheckPendingTasks
<1> QED BY <1>7, <1>8, <1>9, <1>10, <1>11, <1>12, <1>13, <1>14, <1>15 DEF B!SenderStep

\* workers,
LEMMA WorkerTypes ==
  ASSUME CallbackType, NEW w \in CallbackWorkers, B!WorkerStep(w)
  PROVE  CallbackType'
<1> USE DEF CallbackType
<1>1. worker[w].pc # "idle" => worker[w] \in BusyWorkers
  BY DEF B!Free
<1>2. ASSUME NEW x \in {B!Free} \union BusyWorkers, worker' = [worker EXCEPT ![w] = x]
      PROVE  worker' \in [CallbackWorkers -> {B!Free} \union BusyWorkers]
  BY <1>2
<1>3. ASSUME UNCHANGED <<rows, setup, manual>>
      PROVE  DOMAIN manual' = B!Manuals /\ \A x \in B!Manuals : Asked(x)'
  BY <1>3, AskedStay
<1>4. ASSUME NEW d \in CallbackTasks, NEW o \in B!Outcomes, B!Arrives(d, o)
      PROVE  received' \in [CallbackTasks -> Nat]
  BY <1>4 DEF B!Arrives
<1>5. ASSUME NEW d \in CallbackTasks, NEW o, B!Refuses(d, o) PROVE callbackRefused' \subseteq CallbackTasks
  BY <1>5 DEF B!Refuses
<1>6. CASE B!Take(w)
  <2>1. Head(queue) \in CallbackTasks /\ Tail(queue) \in Seq(CallbackTasks) /\ Len(Tail(queue)) <= RetryQueueSize
    BY <1>6, CallbackAssumption DEF B!Take
  <2>2. [pc |-> "record", task |-> Head(queue), ok |-> FALSE, count |-> 0, status |-> "retrying"] \in BusyWorkers
    BY <2>1 DEF BusyWorkers, B!RowStatuses
  <2>3. worker' \in [CallbackWorkers -> {B!Free} \union BusyWorkers]
    BY <1>2, <1>6, <2>2 DEF B!Take
  <2> QED BY <1>3, <1>6, <2>1, <2>3 DEF B!Take
<1>7. CASE B!RecordRetryHistory(w)
  <2>1. worker[w] \in BusyWorkers
    BY <1>1, <1>7 DEF B!RecordRetryHistory
  <2>2. [task |-> worker[w].task, status |-> "retrying"] \in B!Rows
    BY <2>1 DEF BusyWorkers, B!Rows, B!RowStatuses
  <2>3. rows' \in Seq(B!Rows) /\ Len(rows') = Len(rows) + 1 /\ DOMAIN rows \subseteq DOMAIN rows'
    BY <1>7, <2>2, RowAppended DEF B!RecordRetryHistory
  <2>4. [worker[w] EXCEPT !.pc = "send"] \in BusyWorkers
    BY <2>1 DEF BusyWorkers
  <2>5. worker' = [worker EXCEPT ![w] = [worker[w] EXCEPT !.pc = "send"]]
    BY <1>7 DEF B!RecordRetryHistory, B!At
  <2>6. worker' \in [CallbackWorkers -> {B!Free} \union BusyWorkers]
    BY <1>2, <2>4, <2>5
  <2>7. DOMAIN manual' = B!Manuals /\ \A x \in B!Manuals : Asked(x)'
    BY <1>7, <2>3, AskedStay DEF B!RecordRetryHistory
  <2>8. sender' \in [CallbackTasks -> Senders] /\ \A e \in CallbackTasks : sender'[e].row <= Len(rows')
    BY <1>7, <2>3 DEF B!RecordRetryHistory, Senders
  <2> QED BY <1>7, <2>3, <2>6, <2>7, <2>8 DEF B!RecordRetryHistory
<1>8. CASE B!Resend(w)
  <2> DEFINE d == worker[w].task
  <2>1. PICK o \in B!Outcomes : /\ worker[w].pc = "send" /\ B!Arrives(d, o) /\ B!Refuses(d, o)
          /\ worker' = [worker EXCEPT ![w].pc = IF o.ok THEN "sent" ELSE "bump",
                                      ![w].count = IF o.ok THEN 0 ELSE attempts[d] + 1]
    BY <1>8 DEF B!Resend
  <2>2. worker[w] \in BusyWorkers /\ d \in CallbackTasks /\ attempts[d] \in Nat
    BY <1>1, <2>1 DEF BusyWorkers
  <2> DEFINE x == [worker[w] EXCEPT !.pc = IF o.ok THEN "sent" ELSE "bump",
                                    !.count = IF o.ok THEN 0 ELSE attempts[d] + 1]
  <2>3. x \in BusyWorkers
    <3>1. attempts[d] + 1 \in Nat
      BY <2>2
    <3>2. \A pc \in {"sent", "bump"}, c \in Nat : [worker[w] EXCEPT !.pc = pc, !.count = c] \in BusyWorkers
      BY <2>2 DEF BusyWorkers
    <3> QED BY <3>1, <3>2
  <2>4. worker' = [worker EXCEPT ![w] = x]
    BY <2>1
  <2> HIDE DEF x
  <2>5. worker' \in [CallbackWorkers -> {B!Free} \union BusyWorkers]
    BY <1>2, <2>3, <2>4
  <2>6. received' \in [CallbackTasks -> Nat] /\ callbackRefused' \subseteq CallbackTasks
    BY <1>4, <1>5, <2>1, <2>2
  <2> QED BY <1>3, <1>8, <2>5, <2>6 DEF B!Resend
<1>9. ASSUME worker[w] \in BusyWorkers, NEW status \in B!RowStatuses, B!Retire(w, status)
      PROVE  /\ history' \in [CallbackTasks -> 0 .. 1]
             /\ worker' \in [CallbackWorkers -> {B!Free} \union BusyWorkers]
  <2>1. [worker[w] EXCEPT !.pc = "update", !.status = status] \in BusyWorkers
    BY <1>9 DEF BusyWorkers
  <2>2. worker' = [worker EXCEPT ![w] = [worker[w] EXCEPT !.pc = "update", !.status = status]]
    BY <1>9 DEF B!Retire
  <2>3. history' \in [CallbackTasks -> 0 .. 1]
    <3>1. history' = [history EXCEPT ![worker[w].task] = 0] /\ 0 \in 0 .. 1
      BY <1>9 DEF B!Retire
    <3> QED BY <3>1
  <2> QED BY <1>2, <2>1, <2>2, <2>3
<1>10. CASE B!Succeed(w)
  <2>1. worker[w] \in BusyWorkers
    BY <1>1, <1>10 DEF B!Succeed
  <2>2. /\ history' \in [CallbackTasks -> 0 .. 1]
        /\ worker' \in [CallbackWorkers -> {B!Free} \union BusyWorkers]
    BY <1>9, <1>10, <2>1 DEF B!Succeed, B!RowStatuses
  <2> QED BY <1>3, <1>10, <2>2 DEF B!Succeed
<1>11. CASE B!Again(w)
  <2>1. worker[w] \in BusyWorkers /\ worker[w].task \in CallbackTasks /\ worker[w].count \in Nat
    BY <1>1, <1>11 DEF B!Again, BusyWorkers
  <2>2. attempts' \in [CallbackTasks -> Nat]
    BY <1>11, <2>1 DEF B!Again
  <2>3. CASE B!Retire(w, "failed") /\ UNCHANGED pending
    <3>1. /\ history' \in [CallbackTasks -> 0 .. 1]
          /\ worker' \in [CallbackWorkers -> {B!Free} \union BusyWorkers]
      BY <1>9, <2>1, <2>3 DEF B!RowStatuses
    <3> QED BY <1>3, <1>11, <2>2, <2>3, <3>1 DEF B!Again
  <2>4. CASE pending' = pending \union {worker[w].task} /\ B!At(w, "update") /\ UNCHANGED history
    <3>1. [worker[w] EXCEPT !.pc = "update"] \in BusyWorkers
      BY <2>1 DEF BusyWorkers
    <3>2. worker' = [worker EXCEPT ![w] = [worker[w] EXCEPT !.pc = "update"]]
      BY <2>4 DEF B!At
    <3>3. worker' \in [CallbackWorkers -> {B!Free} \union BusyWorkers]
      BY <1>2, <3>1, <3>2
    <3> QED BY <1>3, <1>11, <2>1, <2>2, <2>4, <3>3 DEF B!Again
  <2> QED BY <1>11, <2>3, <2>4 DEF B!Again
<1>12. CASE B!UpdateHistoryStatus(w)
  <2>1. worker[w] \in BusyWorkers /\ worker[w].status \in B!RowStatuses
    BY <1>1, <1>12 DEF B!UpdateHistoryStatus, BusyWorkers
  <2>2. rows' \in Seq(B!Rows) /\ Len(rows') = Len(rows) /\ DOMAIN rows' = DOMAIN rows
    <3>1. B!SetRow(Len(rows), worker[w].status) /\ Len(rows) \in Nat
      BY <1>12 DEF B!UpdateHistoryStatus, B!Latest
    <3> QED BY <2>1, <3>1, RowSet
  <2>3. worker' \in [CallbackWorkers -> {B!Free} \union BusyWorkers]
    BY <1>2, <1>12 DEF B!UpdateHistoryStatus
  <2>4. DOMAIN manual' = B!Manuals /\ \A x \in B!Manuals : Asked(x)'
    BY <1>12, <2>2, AskedStay DEF B!UpdateHistoryStatus
  <2> QED BY <1>12, <2>2, <2>3, <2>4 DEF B!UpdateHistoryStatus
<1> QED BY <1>6, <1>7, <1>8, <1>10, <1>11, <1>12 DEF B!WorkerStep

\* and handlers.
LEMMA HandlerTypes ==
  ASSUME CallbackType,
         \/ \E x \in B!Manuals : B!RetryCallbackHistory(x) \/ B!RetriedByHand(x)
         \/ B!UpdateCallbackConfig \/ B!DeleteCallbackConfig
  PROVE  CallbackType'
<1> USE DEF CallbackType
<1>1. CASE B!UpdateCallbackConfig \/ B!DeleteCallbackConfig
  BY <1>1, AskedStay DEF B!UpdateCallbackConfig, B!DeleteCallbackConfig
<1>2. ASSUME NEW x \in B!Manuals, B!RetryCallbackHistory(x) PROVE CallbackType'
  <2>1. PICK i \in DOMAIN rows : /\ x <= setup.manual /\ UNCHANGED <<rows, setup>>
          /\ manual' = [manual EXCEPT ![x] = [pc |-> "send", row |-> i, task |-> rows[i].task]]
    BY <1>2 DEF B!RetryCallbackHistory
  <2>2. rows[i].task \in CallbackTasks
    <3>1. rows[i] \in B!Rows
      OBVIOUS
    <3> QED BY <3>1 DEF B!Rows
  <2>3. Asked(x)'
    BY <2>1, <2>2 DEF Asked
  <2>4. DOMAIN manual' = B!Manuals /\ \A y \in B!Manuals : Asked(y)'
    BY <2>1, <2>3 DEF Asked
  <2> QED BY <1>2, <2>4 DEF B!RetryCallbackHistory
<1>3. ASSUME NEW x \in B!Manuals, B!RetriedByHand(x) PROVE CallbackType'
  <2>1. PICK o \in B!Outcomes :
          /\ manual[x].pc = "send" /\ B!Arrives(manual[x].task, o) /\ B!Refuses(manual[x].task, o)
          /\ B!SetRow(manual[x].row, IF o.ok THEN "success" ELSE "failed")
          /\ manual' = [manual EXCEPT ![x] = [pc |-> "done"]]
          /\ UNCHANGED <<setup, config, sender, late, history, queue, pending, attempts, worker>>
    BY <1>3 DEF B!RetriedByHand
  <2>2. manual[x].task \in CallbackTasks /\ manual[x].row \in Nat /\ manual[x].row <= Len(rows)
    BY <2>1 DEF Asked
  <2>3. rows' \in Seq(B!Rows) /\ Len(rows') = Len(rows) /\ DOMAIN rows' = DOMAIN rows
    BY <2>1, <2>2, RowSet DEF B!RowStatuses
  <2>4. DOMAIN manual' = B!Manuals /\ \A y \in B!Manuals : Asked(y)'
    BY <2>1, <2>3 DEF Asked
  <2>5. received' \in [CallbackTasks -> Nat] /\ callbackRefused' \subseteq CallbackTasks
    BY <2>1, <2>2 DEF B!Arrives, B!Refuses
  <2> QED BY <2>1, <2>3, <2>4, <2>5
<1> QED BY <1>1, <1>2, <1>3

\* What is received only grows, and grows with an attempt that succeeds.
LEMMA Arrived ==
  ASSUME CallbackType, NEW d \in CallbackTasks, NEW o \in B!Outcomes, B!Arrives(d, o)
  PROVE  /\ Told => Told'
         /\ o.arrives => Told'
         /\ received'[d] \in Nat /\ received[d] <= received'[d] /\ received'[d] <= received[d] + 1
         /\ \A e \in CallbackTasks \ {d} : received'[e] = received[e]
<1>1. received \in [CallbackTasks -> Nat]
  BY DEF CallbackType
<1>2. /\ \A e \in CallbackTasks \ {d} : received'[e] = received[e]
      /\ received'[d] = IF o.arrives THEN received[d] + 1 ELSE received[d]
  BY <1>1 DEF B!Arrives
<1>3. \A e \in CallbackTasks : received[e] <= received'[e]
  BY <1>1, <1>2
<1> QED BY <1>1, <1>2, <1>3 DEF Told

\* What stays as it is stays true.
LEMMA TrueStays ==
  ASSUME Successes, Told => Told'
  PROVE  /\ UNCHANGED rows => RowsTrue'
         /\ UNCHANGED sender => SendersTrue'
         /\ UNCHANGED worker => WorkersTrue'
BY DEF Successes, RowsTrue, SendersTrue, WorkersTrue

\* Where nothing arrives, Told stays.
LEMMA ToldStays == UNCHANGED received => (Told => Told')
BY DEF Told

\* A sender, or a worker, that changes alone.
LEMMA SenderChanges ==
  ASSUME CallbackType, Successes, Told => Told', NEW d \in CallbackTasks,
         \A e \in CallbackTasks \ {d} : sender'[e] = sender[e],
         sender'[d].status = "success" => Told'
  PROVE  SendersTrue'
BY DEF Successes, SendersTrue

LEMMA WorkerChanges ==
  ASSUME CallbackType, Successes, Told => Told', NEW w \in CallbackWorkers,
         \A v \in CallbackWorkers \ {w} : worker'[v] = worker[v],
         worker'[w] \in BusyWorkers =>
           (worker'[w].pc = "sent" \/ worker'[w].status = "success" => Told')
  PROVE  WorkersTrue'
BY DEF Successes, WorkersTrue

LEMMA RowsChange ==
  ASSUME CallbackType, Successes, Told => Told', NEW i \in Nat, i <= Len(rows),
         NEW status \in B!RowStatuses, B!SetRow(i, status), status = "success" => Told'
  PROVE  RowsTrue'
BY RowSet DEF Successes, RowsTrue

\* Each step keeps them: senders,
LEMMA SenderSuccess ==
  ASSUME CallbackType, Successes, NEW d \in CallbackTasks,
         B!TriggerCallback(d) \/ B!SenderStep(d) \/ B!LateAnswer(d) \/ B!CheckPendingTasks(d)
  PROVE  Successes'
<1>1. sender[d] \in Senders /\ sender \in [CallbackTasks -> Senders] /\ sender[d].row <= Len(rows)
      /\ (sender[d].status = "success" => Told)
  BY DEF CallbackType, Successes, SendersTrue
<1>2. ASSUME UNCHANGED <<received, rows, worker>>,
             NEW x \in Senders, x.status \in {sender[d].status, "failed", "retrying", "pending"},
             sender' = [sender EXCEPT ![d] = x]
      PROVE  Successes'
  <2>1. Told => Told'
    BY <1>2, ToldStays
  <2>2. SendersTrue'
    <3>1. sender'[d] = x /\ \A e \in CallbackTasks \ {d} : sender'[e] = sender[e]
      BY <1>1, <1>2
    <3>2. sender'[d].status = "success" => Told'
      BY <1>1, <1>2, <2>1, <3>1
    <3> QED BY <2>1, <3>1, <3>2, SenderChanges
  <2> QED BY <1>2, <2>1, <2>2, TrueStays DEF Successes
<1>3. CASE B!TriggerCallback(d)
  <2>1. sender' = [sender EXCEPT ![d] = [sender[d] EXCEPT !.pc = "wait"]]
    BY <1>3 DEF B!TriggerCallback
  <2>2. [sender[d] EXCEPT !.pc = "wait"].status = sender[d].status
        /\ [sender[d] EXCEPT !.pc = "wait"] \in Senders
    BY <1>1 DEF Senders
  <2>3. UNCHANGED <<received, rows, worker>>
    BY <1>3 DEF B!TriggerCallback
  <2> DEFINE x == [sender[d] EXCEPT !.pc = "wait"]
  <2>4. x \in Senders /\ x.status \in {sender[d].status, "failed", "retrying", "pending"} /\ sender' = [sender EXCEPT ![d] = x]
    BY <2>1, <2>2
  <2> HIDE DEF x
  <2> QED BY <1>2, <2>3, <2>4
<1>4. CASE B!Acquire(d)
  <2>1. Told => Told'
    BY <1>4, ToldStays DEF B!Acquire
  <2>2. [task |-> d, status |-> "pending"] \in B!Rows /\ rows' = Append(rows, [task |-> d, status |-> "pending"])
    BY <1>4 DEF B!Acquire, B!Rows, B!RowStatuses
  <2>3. RowsTrue'
    BY <2>1, <2>2, RowAppended DEF Successes, RowsTrue
  <2>4. sender' = [sender EXCEPT ![d] = [pc |-> "send", row |-> Len(rows) + 1, status |-> "pending"]]
    BY <1>4 DEF B!Acquire
  <2>5. sender'[d].status = "pending" /\ \A e \in CallbackTasks \ {d} : sender'[e] = sender[e]
    BY <1>1, <2>4
  <2>6. SendersTrue'
    BY <2>1, <2>5, SenderChanges
  <2> QED BY <1>4, <2>1, <2>3, <2>6, TrueStays DEF B!Acquire, Successes
<1>5. CASE B!Answered(d)
  <2>1. PICK o \in B!Outcomes : /\ B!Plausible(o) /\ B!Arrives(d, o)
          /\ sender' = [sender EXCEPT ![d].pc = IF o.ok THEN "save" ELSE "failed",
                                      ![d].status = IF o.ok THEN "success" ELSE "failed"]
    BY <1>5 DEF B!Answered
  <2>2. (Told => Told') /\ (o.ok => Told')
    BY <2>1, Arrived DEF B!Plausible
  <2>3. /\ sender'[d].status = IF o.ok THEN "success" ELSE "failed"
        /\ \A e \in CallbackTasks \ {d} : sender'[e] = sender[e]
    BY <1>1, <2>1 DEF Senders
  <2>4. SendersTrue'
    BY <2>2, <2>3, SenderChanges
  <2> QED BY <1>5, <2>2, <2>4, TrueStays DEF B!Answered, Successes
<1>6. CASE B!Timeout(d)
  <2>1. sender' = [sender EXCEPT ![d] = [sender[d] EXCEPT !.pc = "failed", !.status = "failed"]]
    BY <1>6 DEF B!Timeout
  <2>2. [sender[d] EXCEPT !.pc = "failed", !.status = "failed"].status = "failed"
        /\ [sender[d] EXCEPT !.pc = "failed", !.status = "failed"] \in Senders
    BY <1>1 DEF Senders, B!RowStatuses
  <2>3. UNCHANGED <<received, rows, worker>>
    BY <1>6 DEF B!Timeout
  <2> DEFINE x == [sender[d] EXCEPT !.pc = "failed", !.status = "failed"]
  <2>4. x \in Senders /\ x.status \in {sender[d].status, "failed", "retrying", "pending"} /\ sender' = [sender EXCEPT ![d] = x]
    BY <2>1, <2>2
  <2> HIDE DEF x
  <2> QED BY <1>2, <2>3, <2>4
<1>7. CASE B!Enqueue(d)
  <2>1. PICK pc \in {"save", "offer"} : sender' = [sender EXCEPT ![d] = [sender[d] EXCEPT !.pc = pc]]
    BY <1>7 DEF B!Enqueue
  <2>2. [sender[d] EXCEPT !.pc = pc].status = sender[d].status
        /\ [sender[d] EXCEPT !.pc = pc] \in Senders
    BY <1>1 DEF Senders
  <2>3. UNCHANGED <<received, rows, worker>>
    BY <1>7 DEF B!Enqueue
  <2> DEFINE x == [sender[d] EXCEPT !.pc = pc]
  <2>4. x \in Senders /\ x.status \in {sender[d].status, "failed", "retrying", "pending"} /\ sender' = [sender EXCEPT ![d] = x]
    BY <2>1, <2>2
  <2> HIDE DEF x
  <2> QED BY <1>2, <2>3, <2>4
<1>8. CASE B!Offer(d)
  <2>1. \/ sender' = [sender EXCEPT ![d] = [sender[d] EXCEPT !.pc = "save", !.status = "retrying"]]
        \/ sender' = [sender EXCEPT ![d] = [sender[d] EXCEPT !.pc = "save"]]
    BY <1>8 DEF B!Offer
  <2>2. /\ [sender[d] EXCEPT !.pc = "save", !.status = "retrying"].status = "retrying"
        /\ [sender[d] EXCEPT !.pc = "save"].status = sender[d].status
        /\ [sender[d] EXCEPT !.pc = "save"] \in Senders
        /\ [sender[d] EXCEPT !.pc = "save", !.status = "retrying"] \in Senders
    BY <1>1 DEF Senders, B!RowStatuses
  <2>3. UNCHANGED <<received, rows, worker>>
    BY <1>8 DEF B!Offer
  <2>4. PICK x \in Senders : x.status \in {sender[d].status, "failed", "retrying", "pending"} /\ sender' = [sender EXCEPT ![d] = x]
    BY <2>1, <2>2
  <2> QED BY <1>2, <2>3, <2>4
<1>9. CASE B!SaveHistory(d)
  <2>1. Told => Told'
    BY <1>9, ToldStays DEF B!SaveHistory
  <2>2. sender[d].row \in Nat /\ sender[d].status \in B!RowStatuses
    BY <1>1 DEF Senders
  <2>3. RowsTrue'
    BY <1>1, <1>9, <2>1, <2>2, RowsChange DEF B!SaveHistory
  <2>4. /\ sender'[d].status = sender[d].status
        /\ \A e \in CallbackTasks \ {d} : sender'[e] = sender[e]
    BY <1>1, <1>9 DEF B!SaveHistory, Senders
  <2>5. SendersTrue'
    BY <1>1, <2>1, <2>4, SenderChanges
  <2> QED BY <1>9, <2>1, <2>3, <2>5, TrueStays DEF B!SaveHistory, Successes
<1>10. CASE B!LateAnswer(d)
  <2>1. PICK o \in B!Outcomes : B!Arrives(d, o)
    BY <1>10 DEF B!LateAnswer
  <2>2. Told => Told'
    BY <2>1, Arrived
  <2> QED BY <1>10, <2>2, TrueStays DEF B!LateAnswer, Successes
<1>11. CASE B!CheckPendingTasks(d)
  BY <1>11, ToldStays, TrueStays DEF B!CheckPendingTasks, Successes
<1> QED BY <1>3, <1>4, <1>5, <1>6, <1>7, <1>8, <1>9, <1>10, <1>11 DEF B!SenderStep

\* workers,
LEMMA WorkerSuccess ==
  ASSUME CallbackType, Successes, NEW w \in CallbackWorkers, B!WorkerStep(w)
  PROVE  Successes'
<1>1. /\ worker \in [CallbackWorkers -> {B!Free} \union BusyWorkers]
      /\ worker[w].pc # "idle" =>
           /\ worker[w] \in BusyWorkers
           /\ worker[w].pc = "sent" \/ worker[w].status = "success" => Told
  BY DEF CallbackType, Successes, WorkersTrue, B!Free
<1>2. ASSUME NEW x, worker' = [worker EXCEPT ![w] = x], Told => Told',
             x \in BusyWorkers => (x.pc = "sent" \/ x.status = "success" => Told')
      PROVE  WorkersTrue'
  <2>1. worker'[w] = x /\ \A v \in CallbackWorkers \ {w} : worker'[v] = worker[v]
    BY <1>1, <1>2
  <2> QED BY <1>2, <2>1, WorkerChanges
<1>3. UNCHANGED received => (Told => Told')
  BY ToldStays
<1>4. CASE B!Take(w)
  <2>1. WorkersTrue'
    BY <1>2, <1>3, <1>4 DEF B!Take
  <2> QED BY <1>3, <1>4, <2>1, TrueStays DEF B!Take, Successes
<1>5. CASE B!RecordRetryHistory(w)
  <2>1. worker[w] \in BusyWorkers /\ (worker[w].status = "success" => Told)
    BY <1>1, <1>5 DEF B!RecordRetryHistory
  <2>2. worker' = [worker EXCEPT ![w] = [worker[w] EXCEPT !.pc = "send"]]
    BY <1>5 DEF B!RecordRetryHistory, B!At
  <2>3. [worker[w] EXCEPT !.pc = "send"].pc = "send"
        /\ [worker[w] EXCEPT !.pc = "send"].status = worker[w].status
    BY <2>1 DEF BusyWorkers
  <2>4. Told => Told'
    BY <1>3, <1>5 DEF B!RecordRetryHistory
  <2>5. WorkersTrue'
    BY <1>2, <2>1, <2>2, <2>3, <2>4
  <2>6. [task |-> worker[w].task, status |-> "retrying"] \in B!Rows
    BY <2>1 DEF BusyWorkers, B!Rows, B!RowStatuses
  <2>7. rows' = Append(rows, [task |-> worker[w].task, status |-> "retrying"])
    BY <1>5 DEF B!RecordRetryHistory
  <2>8. RowsTrue'
    BY <2>4, <2>6, <2>7, RowAppended DEF Successes, RowsTrue
  <2> QED BY <1>5, <2>4, <2>5, <2>8, TrueStays DEF B!RecordRetryHistory, Successes
<1>6. CASE B!Resend(w)
  <2> DEFINE d == worker[w].task
  <2>1. PICK o \in B!Outcomes : /\ worker[w].pc = "send" /\ B!Plausible(o) /\ B!Arrives(d, o)
          /\ worker' = [worker EXCEPT ![w].pc = IF o.ok THEN "sent" ELSE "bump",
                                      ![w].count = IF o.ok THEN 0 ELSE attempts[d] + 1]
    BY <1>6 DEF B!Resend
  <2>2. worker[w] \in BusyWorkers /\ d \in CallbackTasks /\ (worker[w].status = "success" => Told)
    BY <1>1, <2>1 DEF BusyWorkers
  <2>3. (Told => Told') /\ (o.ok => Told')
    BY <2>1, <2>2, Arrived DEF B!Plausible
  <2> DEFINE x == [worker[w] EXCEPT !.pc = IF o.ok THEN "sent" ELSE "bump",
                                    !.count = IF o.ok THEN 0 ELSE attempts[d] + 1]
  <2>4. worker' = [worker EXCEPT ![w] = x]
    BY <2>1
  <2>5. x.pc = (IF o.ok THEN "sent" ELSE "bump") /\ x.status = worker[w].status
    BY <2>2 DEF BusyWorkers
  <2> HIDE DEF x
  <2>6. WorkersTrue'
    BY <1>2, <2>2, <2>3, <2>4, <2>5
  <2> QED BY <1>6, <2>3, <2>6, TrueStays DEF B!Resend, Successes
<1>7. ASSUME worker[w] \in BusyWorkers, NEW status \in B!RowStatuses, B!Retire(w, status),
             Told => Told', status = "success" => Told'
      PROVE  WorkersTrue'
  <2>1. worker' = [worker EXCEPT ![w] = [worker[w] EXCEPT !.pc = "update", !.status = status]]
    BY <1>7 DEF B!Retire
  <2>2. /\ [worker[w] EXCEPT !.pc = "update", !.status = status].pc = "update"
        /\ [worker[w] EXCEPT !.pc = "update", !.status = status].status = status
    BY <1>7 DEF BusyWorkers
  <2> QED BY <1>2, <1>7, <2>1, <2>2
<1>8. CASE B!Succeed(w)
  <2>1. worker[w] \in BusyWorkers /\ Told /\ Told'
    BY <1>1, <1>3, <1>8 DEF B!Succeed
  <2>2. WorkersTrue'
    BY <1>7, <1>8, <2>1 DEF B!Succeed, B!RowStatuses
  <2> QED BY <1>8, <2>1, <2>2, TrueStays DEF B!Succeed, Successes
<1>9. CASE B!Again(w)
  <2>1. worker[w] \in BusyWorkers /\ (worker[w].status = "success" => Told) /\ (Told => Told')
    BY <1>1, <1>3, <1>9 DEF B!Again
  <2>2. WorkersTrue'
    <3>1. CASE B!Retire(w, "failed")
      BY <1>7, <2>1, <3>1 DEF B!RowStatuses
    <3>2. CASE B!At(w, "update")
      <4>1. worker' = [worker EXCEPT ![w] = [worker[w] EXCEPT !.pc = "update"]]
        BY <3>2 DEF B!At
      <4>2. [worker[w] EXCEPT !.pc = "update"].pc = "update"
            /\ [worker[w] EXCEPT !.pc = "update"].status = worker[w].status
        BY <2>1 DEF BusyWorkers
      <4> QED BY <1>2, <2>1, <4>1, <4>2
    <3> QED BY <1>9, <3>1, <3>2 DEF B!Again
  <2> QED BY <1>9, <2>1, <2>2, TrueStays DEF B!Again, Successes
<1>10. CASE B!UpdateHistoryStatus(w)
  <2>1. worker[w] \in BusyWorkers /\ (worker[w].status = "success" => Told) /\ (Told => Told')
        /\ worker[w].status \in B!RowStatuses
    BY <1>1, <1>3, <1>10 DEF B!UpdateHistoryStatus, BusyWorkers
  <2>2. B!SetRow(Len(rows), worker[w].status) /\ Len(rows) \in Nat
    BY <1>10 DEF B!UpdateHistoryStatus, B!Latest, CallbackType
  <2>3. RowsTrue'
    BY <2>1, <2>2, RowsChange
  <2>4. B!Free \notin BusyWorkers
    BY DEF B!Free, BusyWorkers
  <2>5. WorkersTrue'
    BY <1>2, <1>10, <2>1, <2>4 DEF B!UpdateHistoryStatus
  <2> QED BY <1>10, <2>1, <2>3, <2>5, TrueStays DEF B!UpdateHistoryStatus, Successes
<1> QED BY <1>4, <1>5, <1>6, <1>8, <1>9, <1>10 DEF B!WorkerStep

\* and handlers.
LEMMA HandlerSuccess ==
  ASSUME CallbackType, Successes,
         \/ \E x \in B!Manuals : B!RetryCallbackHistory(x) \/ B!RetriedByHand(x)
         \/ B!UpdateCallbackConfig \/ B!DeleteCallbackConfig
  PROVE  Successes'
<1>1. CASE B!UpdateCallbackConfig \/ B!DeleteCallbackConfig
  BY <1>1, ToldStays, TrueStays DEF B!UpdateCallbackConfig, B!DeleteCallbackConfig, Successes
<1>2. ASSUME NEW x \in B!Manuals, B!RetryCallbackHistory(x) PROVE Successes'
  BY <1>2, ToldStays, TrueStays DEF B!RetryCallbackHistory, Successes
<1>3. ASSUME NEW x \in B!Manuals, B!RetriedByHand(x) PROVE Successes'
  <2>1. PICK o \in B!Outcomes :
          /\ manual[x].pc = "send" /\ B!Plausible(o) /\ B!Arrives(manual[x].task, o)
          /\ B!SetRow(manual[x].row, IF o.ok THEN "success" ELSE "failed")
          /\ UNCHANGED <<sender, worker>>
    BY <1>3 DEF B!RetriedByHand
  <2>2. manual[x].task \in CallbackTasks /\ manual[x].row \in Nat /\ manual[x].row <= Len(rows)
    BY <2>1 DEF Asked, CallbackType
  <2>3. (Told => Told') /\ (o.ok => Told')
    BY <2>1, <2>2, Arrived DEF B!Plausible
  <2>4. RowsTrue'
    BY <2>1, <2>2, <2>3, RowsChange DEF B!RowStatuses
  <2> QED BY <2>1, <2>3, <2>4, TrueStays DEF Successes
<1> QED BY <1>1, <1>2, <1>3

\* What an entry is.
LEMMA EntryIs ==
  \A d, t : t \in Entries(d) <=>
    \/ t = <<"pending", 0>> /\ d \in pending
    \/ t = <<"offer", 0>> /\ sender[d].pc = "offer"
    \/ \E i \in QueuedAt(d) : t = <<"queue", i>>
    \/ \E w \in CallbackWorkers : Retries(w, d) /\ t = <<"worker", w>>
BY DEF Entries

\* Only a worker's entry is stalled.
LEMMA StalledIs ==
  /\ ~Stalled(<<"pending", 0>>) /\ ~Stalled(<<"offer", 0>>) /\ \A i : ~Stalled(<<"queue", i>>)
  /\ \A w : Stalled(<<"worker", w>>) <=> worker[w].pc = "bump"
BY DEF Stalled

\* The entries of d are where they were, with what they go on from.
SameEntries(d) ==
  /\ d \in pending' <=> d \in pending
  /\ sender'[d].pc = "offer" <=> sender[d].pc = "offer"
  /\ QueuedAt(d)' = QueuedAt(d)
  /\ attempts'[d] = attempts[d]
  /\ \A w \in CallbackWorkers :
       /\ Retries(w, d)' <=> Retries(w, d)
       /\ Retries(w, d) => /\ worker'[w].pc = "bump" <=> worker[w].pc = "bump"
                           /\ worker[w].pc = "bump" => worker'[w].count = worker[w].count

LEMMA SameMeans ==
  ASSUME NEW d, SameEntries(d)
  PROVE  Entries(d)' = Entries(d) /\ Costs(d)' = Costs(d) /\ Nexts(d)' = Nexts(d)
<1>1. Entries(d)' = Entries(d)
  BY DEF SameEntries, Entries
<1>2. ASSUME NEW t \in Entries(d)
      PROVE  /\ Stalled(t)' <=> Stalled(t)
             /\ Stalled(t) => worker'[t[2]].count = worker[t[2]].count
  <2>1. CASE \E w \in CallbackWorkers : Retries(w, d) /\ t = <<"worker", w>>
    BY <2>1 DEF SameEntries, Stalled
  <2>2. CASE t = <<"pending", 0>> \/ t = <<"offer", 0>> \/ \E i \in QueuedAt(d) : t = <<"queue", i>>
    BY <2>2 DEF Stalled
  <2> QED BY <2>1, <2>2, EntryIs
<1>3. attempts'[d] = attempts[d]
  BY DEF SameEntries
<1> QED BY <1>1, <1>2, <1>3 DEF Costs, Nexts

\* What is left afterwards is a number, too.
LEMMA LaterFacts ==
  ASSUME CallbackType, CallbackType', UNCHANGED setup, NEW d \in CallbackTasks
  PROVE  /\ received'[d] \in Nat /\ First(d)' \in {0, 1} /\ Cardinality(ByHand') \in Nat
         /\ Budget(d)' \in Int
<1>1. received'[d] \in Nat /\ First(d)' \in {0, 1}
  BY DEF CallbackType, First
<1>2. setup.manual \in Nat /\ Triangle(setup.max) \in Nat
  BY SetupFacts
<1>3. IsFiniteSet(1 .. setup.manual)
  <2>1. \A m \in Nat : IsFiniteSet(1 .. m)
    BY FS_Interval
  <2> QED BY <1>2, <2>1
<1>4. ByHand' \subseteq 1 .. setup.manual
  BY DEF ByHand
<1>5. IsFiniteSet(ByHand')
  BY <1>3, <1>4, FS_Subset
<1>6. Cardinality(ByHand') \in Nat
  BY <1>5, FS_CardinalityType
<1>7. Limit' \in Nat
  BY <1>2 DEF Limit
<1> QED BY <1>1, <1>6, <1>7 DEF Budget

\* Nothing has to be found for d that was not there before.
Onward(d) ==
  /\ history'[d] = history[d] \/ history'[d] = 0
  /\ Early(d)' => Early(d)
  /\ d \in late' => ~Fresh(d)'
  /\ Budget(d) <= Budget(d)'

LEMMA Keeps ==
  ASSUME CallbackType, CallbackType', UNCHANGED setup, NEW d \in CallbackTasks, Accounted(d),
         SameEntries(d), Onward(d)
  PROVE  Accounted(d)'
<1>1. Entries(d)' = Entries(d) /\ Costs(d)' = Costs(d) /\ Nexts(d)' = Nexts(d)
  BY SameMeans
<1>2. Budget(d) \in Int /\ Budget(d)' \in Int /\ Budget(d) <= Budget(d)' /\ setup.max \in Nat
  <2>1. Budget(d) \in Int /\ setup.max \in Nat
    BY BudgetType, SetupFacts
  <2>2. Budget(d)' \in Int
    BY LaterFacts
  <2> QED BY <2>1, <2>2 DEF Onward
<1>3. FitsIn(Entries(d), Costs(d), Nexts(d), setup.max, Budget(d)')
  <2> DEFINE T == Entries(d)
             f == [t \in T |-> t]
             c == Costs(d)
             x == Nexts(d)
             b == Budget(d)
             b2 == Budget(d)'
  <2>1. FitsIn(T, c, x, setup.max, b)
    BY DEF Accounted
  <2>2. f \in [T -> T] /\ \A s, t \in T : f[s] = f[t] => s = t
    OBVIOUS
  <2>3. \A t \in T : c[t] = c[f[t]] /\ x[t] = x[f[t]]
    OBVIOUS
  <2>4. b2 \in Int /\ b <= b2
    BY <1>2
  <2> HIDE DEF T, f, c, x, b, b2
  <2>5. FitsIn(T, c, x, setup.max, b2)
    BY <1>2, <2>1, <2>2, <2>3, <2>4, Moved
  <2> QED BY <2>5 DEF T, c, x, b2
<1>4. FitsIn(Entries(d)', Costs(d)', Nexts(d)', setup'.max, Budget(d)')
  BY <1>1, <1>3
<1>5. Early(d)' => /\ history'[d] = 0 /\ attempts'[d] = 0 /\ Entries(d)' = {}
                   /\ 1 + Triangle(setup'.max) <= Budget(d)'
  <2>1. Triangle(setup.max) \in Nat
    BY SetupFacts
  <2> QED BY <1>1, <1>2, <2>1 DEF Onward, Accounted, SameEntries
<1> QED BY <1>4, <1>5 DEF Onward, Accounted

\* What is left of the bound does not shrink.
LEMMA BudgetKeeps ==
  ASSUME CallbackType, CallbackType', UNCHANGED setup, NEW d \in CallbackTasks,
         received'[d] + First(d)' + Cardinality(ByHand') <= received[d] + First(d) + Cardinality(ByHand)
  PROVE  Budget(d) <= Budget(d)'
<1>1. Limit' = Limit /\ Limit \in Nat
  BY SetupFacts DEF Limit
<1>2. received[d] \in Nat /\ First(d) \in {0, 1} /\ Cardinality(ByHand) \in Nat
  BY BudgetType, SetupFacts
<1>3. received'[d] \in Nat /\ First(d)' \in {0, 1} /\ Cardinality(ByHand') \in Nat
  BY LaterFacts
<1> QED BY <1>1, <1>2, <1>3 DEF Budget

\* Nothing that counts against the bound changes for d.
LEMMA BudgetSame ==
  ASSUME CallbackType, CallbackType', UNCHANGED setup, NEW d \in CallbackTasks,
         received'[d] = received[d], First(d)' = First(d), ByHand' = ByHand
  PROVE  Budget(d) <= Budget(d)'
<1>1. received[d] \in Nat /\ First(d) \in {0, 1} /\ Cardinality(ByHand) \in Nat
  BY BudgetType, SetupFacts
<1> QED BY <1>1, BudgetKeeps

\* Of a deploy task that a step does not touch.
LEMMA Untouched ==
  ASSUME CallbackType, CallbackType', UNCHANGED setup, NEW e \in CallbackTasks, Accounted(e),
         Fresh(e)' <=> Fresh(e), Early(e)' => Early(e), sender'[e].pc = "offer" <=> sender[e].pc = "offer",
         e \in pending' <=> e \in pending, e \in late' <=> e \in late, ByHand' = ByHand,
         history'[e] = history[e] \/ history'[e] = 0, attempts'[e] = attempts[e], received'[e] = received[e],
         QueuedAt(e)' = QueuedAt(e),
         \A w \in CallbackWorkers :
           /\ Retries(w, e)' <=> Retries(w, e)
           /\ Retries(w, e) => /\ worker'[w].pc = "bump" <=> worker[w].pc = "bump"
                               /\ worker[w].pc = "bump" => worker'[w].count = worker[w].count
  PROVE  Accounted(e)'
<1>1. SameEntries(e)
  BY DEF SameEntries
<1>2. First(e)' = First(e)
  BY DEF First
<1>3. Budget(e) <= Budget(e)'
  BY <1>2, BudgetSame
<1>4. Onward(e)
  BY <1>3 DEF Onward, Accounted
<1> QED BY <1>1, <1>4, Keeps

\* A step that leaves the workers and the channel alone, and requests by hand.
LEMMA WorkersStay ==
  /\ UNCHANGED worker => \A e, w : /\ Retries(w, e)' <=> Retries(w, e)
                                   /\ worker'[w].pc = "bump" <=> worker[w].pc = "bump"
                                   /\ worker'[w].count = worker[w].count
  /\ UNCHANGED queue => \A e : QueuedAt(e)' = QueuedAt(e)
  /\ UNCHANGED <<setup, manual>> => ByHand' = ByHand
BY DEF Retries, QueuedAt, ByHand

\* An entry goes to the end of the channel.
LEMMA Appended ==
  ASSUME CallbackType, NEW d \in CallbackTasks, queue' = Append(queue, d),
         NEW from \in {<<"pending", 0>>, <<"offer", 0>>}, from \in Entries(d),
         UNCHANGED <<attempts, worker, setup>>,
         Entries(d)' = (Entries(d) \ {from}) \union {<<"queue", Len(queue) + 1>>},
         FitsIn(Entries(d), Costs(d), Nexts(d), setup.max, Budget(d)),
         Budget(d)' \in Int, Budget(d) <= Budget(d)'
  PROVE  FitsIn(Entries(d)', Costs(d)', Nexts(d)', setup'.max, Budget(d)')
<1> DEFINE to == <<"queue", Len(queue) + 1>>
           f == [t \in Entries(d)' |-> IF t = to THEN from ELSE t]
<1>1. to \notin Entries(d)
  <2>1. Len(queue) + 1 \notin QueuedAt(d)
    BY DEF CallbackType, QueuedAt
  <2> QED BY <2>1, EntryIs
<1>2. \A t : Stalled(t)' <=> Stalled(t)
  BY DEF Stalled
<1>3. ~Stalled(to) /\ ~Stalled(from)
  BY StalledIs
<1> HIDE DEF to
<1>4. Entries(d)' = (Entries(d) \ {from}) \union {to}
  BY DEF to
<1>5. f \in [Entries(d)' -> Entries(d)] /\ \A s, t \in Entries(d)' : f[s] = f[t] => s = t
  BY <1>1, <1>4
<1>6. \A t \in Entries(d)' : Costs(d)'[t] = Costs(d)[f[t]] /\ Nexts(d)'[t] = Nexts(d)[f[t]]
  BY <1>1, <1>2, <1>3, <1>4 DEF Costs, Nexts
<1>7. setup.max \in Nat
  BY SetupFacts
<1> HIDE DEF f
<1> DEFINE Us == Entries(d)'
           c == Costs(d)'
           x == Nexts(d)'
           b == Budget(d)'
<1>8. b \in Int /\ Budget(d) <= b /\ f \in [Us -> Entries(d)] /\ (\A s, t \in Us : f[s] = f[t] => s = t)
      /\ \A t \in Us : c[t] = Costs(d)[f[t]] /\ x[t] = Nexts(d)[f[t]]
  BY <1>5, <1>6
<1> HIDE DEF Us, c, x, b
<1>9. FitsIn(Us, c, x, setup.max, b)
  BY <1>7, <1>8, Moved
<1> QED BY <1>9 DEF Us, c, x, b

\* Each step of a sender keeps the accounts of every deploy task.
LEMMA SenderAccounts ==
  ASSUME CallbackType, CallbackType', \A e \in CallbackTasks : Accounted(e), NEW d \in CallbackTasks,
         B!TriggerCallback(d) \/ B!SenderStep(d) \/ B!LateAnswer(d) \/ B!CheckPendingTasks(d)
  PROVE  \A e \in CallbackTasks : Accounted(e)'
<1>1. /\ sender \in [CallbackTasks -> Senders] /\ queue \in Seq(CallbackTasks)
      /\ history \in [CallbackTasks -> 0 .. 1] /\ attempts \in [CallbackTasks -> Nat]
      /\ received \in [CallbackTasks -> Nat]
  BY DEF CallbackType
<1>2. UNCHANGED <<setup, manual, worker, attempts>> /\ ByHand' = ByHand
  BY WorkersStay DEF B!TriggerCallback, B!SenderStep, B!LateAnswer, B!CheckPendingTasks, B!Acquire,
     B!Answered, B!Timeout, B!Enqueue, B!Offer, B!SaveHistory
<1>3. ASSUME NEW e \in CallbackTasks, e # d PROVE Accounted(e)'
  <2>1. sender'[e] = sender[e] /\ Fresh(e)' = Fresh(e) /\ Early(e)' = Early(e)
    <3>1. sender'[e] = sender[e]
      BY <1>1, <1>3 DEF B!TriggerCallback, B!SenderStep, B!LateAnswer, B!CheckPendingTasks, B!Acquire,
         B!Answered, B!Timeout, B!Enqueue, B!Offer, B!SaveHistory
    <3> QED BY <3>1 DEF Fresh, Early
  <2>2. (e \in pending' <=> e \in pending) /\ (e \in late' <=> e \in late)
    BY <1>3 DEF B!TriggerCallback, B!SenderStep, B!LateAnswer, B!CheckPendingTasks, B!Acquire,
       B!Answered, B!Timeout, B!Enqueue, B!Offer, B!SaveHistory
  <2>3. history'[e] = history[e]
    BY <1>1, <1>3 DEF B!TriggerCallback, B!SenderStep, B!LateAnswer, B!CheckPendingTasks, B!Acquire,
       B!Answered, B!Timeout, B!Enqueue, B!Offer, B!SaveHistory
  <2>4. received'[e] = received[e]
    BY <1>1, <1>3 DEF B!TriggerCallback, B!SenderStep, B!LateAnswer, B!CheckPendingTasks, B!Acquire,
       B!Answered, B!Timeout, B!Enqueue, B!Offer, B!SaveHistory, B!Arrives
  <2>5. QueuedAt(e)' = QueuedAt(e)
    <3>1. UNCHANGED queue \/ queue' = Append(queue, d)
      BY DEF B!TriggerCallback, B!SenderStep, B!LateAnswer, B!CheckPendingTasks, B!Acquire,
         B!Answered, B!Timeout, B!Enqueue, B!Offer, B!SaveHistory
    <3>2. CASE queue' = Append(queue, d)
      BY <1>1, <1>3, <3>2 DEF QueuedAt
    <3> QED BY <3>1, <3>2 DEF QueuedAt
  <2> QED BY <1>2, <2>1, <2>2, <2>3, <2>4, <2>5, Untouched, WorkersStay
<1>4. received[d] \in Nat /\ First(d) \in {0, 1} /\ Cardinality(ByHand) \in Nat /\ Budget(d) \in Int
      /\ Budget(d)' \in Int /\ setup.max \in Nat /\ Triangle(setup.max) \in Nat
  BY <1>2, BudgetType, SetupFacts, LaterFacts
<1>5. sender[d] \in Senders /\ Accounted(d)
  BY <1>1
<1>6. CASE B!TriggerCallback(d) \/ B!Acquire(d) \/ B!SaveHistory(d)
  <2>1. (Fresh(d)' <=> Fresh(d)) /\ (Early(d)' <=> Early(d)) /\ sender'[d].pc # "offer" /\ sender[d].pc # "offer"
    BY <1>1, <1>5, <1>6 DEF B!TriggerCallback, B!Acquire, B!SaveHistory, Fresh, Early, Senders
  <2>2. UNCHANGED <<pending, late, history, received, queue>>
    BY <1>6 DEF B!TriggerCallback, B!Acquire, B!SaveHistory
  <2>3. Accounted(d)'
    BY <1>2, <1>5, <2>1, <2>2, Untouched, WorkersStay
  <2> QED BY <1>3, <2>3
<1>7. CASE B!Answered(d) \/ B!Timeout(d) \/ B!LateAnswer(d)
  <2>0. /\ UNCHANGED <<pending, queue, history>>
        /\ \/ sender[d].pc = "send" /\ sender'[d].pc \in {"save", "failed"} /\ late' = late
           \/ d \in late /\ late' = late \ {d} /\ UNCHANGED sender
           \/ sender[d].pc = "send" /\ sender'[d].pc = "failed" /\ UNCHANGED received
        /\ ~UNCHANGED received => \E o \in B!Outcomes : B!Arrives(d, o)
    <3>1. CASE B!Answered(d)
      <4>1. PICK o \in B!Outcomes : /\ sender[d].pc = "send" /\ B!Arrives(d, o) /\ UNCHANGED late
              /\ sender' = [sender EXCEPT ![d].pc = IF o.ok THEN "save" ELSE "failed",
                                          ![d].status = IF o.ok THEN "success" ELSE "failed"]
        BY <3>1 DEF B!Answered
      <4>2. sender'[d].pc \in {"save", "failed"}
        BY <1>1, <1>5, <4>1 DEF Senders
      <4> QED BY <3>1, <4>1, <4>2 DEF B!Answered
    <3>2. CASE B!Timeout(d)
      <4>1. sender'[d].pc = "failed"
        BY <1>1, <1>5, <3>2 DEF B!Timeout, Senders
      <4> QED BY <3>2, <4>1 DEF B!Timeout
    <3>3. CASE B!LateAnswer(d)
      BY <3>3 DEF B!LateAnswer
    <3> QED BY <1>7, <3>1, <3>2, <3>3
  <2> DEFINE sent == sender[d].pc = "send" /\ sender'[d].pc \in {"save", "failed"}
             answered == d \in late /\ d \notin late' /\ UNCHANGED sender
  <2>1. SameEntries(d)
    <3>1. sender'[d].pc = "offer" <=> sender[d].pc = "offer"
      BY <2>0
    <3> QED BY <1>2, <2>0, <3>1, WorkersStay DEF SameEntries
  <2>2. /\ Early(d)' => Early(d)
        /\ d \in late' => ~Fresh(d)'
        /\ history'[d] = history[d]
    <3>1. CASE sent
      BY <2>0, <3>1 DEF Early, Fresh
    <3>2. CASE answered
      BY <2>0, <3>2 DEF Early, Fresh
    <3> QED BY <2>0, <3>1, <3>2
  <2>3. received'[d] + First(d)' <= received[d] + First(d)
    <3>1. received'[d] \in Nat /\ First(d)' \in {0, 1}
      BY <1>2, LaterFacts
    <3>2. First(d) = 1
      BY <2>0 DEF First, Fresh
    <3>3. CASE UNCHANGED received
      BY <1>4, <3>1, <3>2, <3>3
    <3>4. CASE ~UNCHANGED received
      <4>1. received'[d] <= received[d] + 1
        BY <2>0, <3>4, Arrived
      <4>2. d \notin late' /\ ~Fresh(d)'
        <5>1. CASE sent
          <6>1. d \notin late /\ late' = late
            BY <1>5, <2>0, <3>4, <5>1 DEF Accounted, Fresh
          <6> QED BY <5>1, <6>1 DEF Fresh
        <5>2. CASE answered
          <6>1. ~Fresh(d)
            BY <1>5, <5>2 DEF Accounted
          <6> QED BY <5>2, <6>1 DEF Fresh
        <5> QED BY <2>0, <3>4, <5>1, <5>2
      <4>3. First(d)' = 0
        BY <4>2 DEF First
      <4> QED BY <1>4, <3>1, <3>2, <4>1, <4>3
    <3> QED BY <3>3, <3>4
  <2>4. Budget(d) <= Budget(d)'
    <3>1. received'[d] \in Nat /\ First(d)' \in {0, 1}
      BY <1>2, LaterFacts
    <3> QED BY <1>2, <1>4, <2>3, <3>1, BudgetKeeps
  <2>5. Accounted(d)'
    BY <1>2, <1>5, <2>1, <2>2, <2>4, Keeps DEF Onward
  <2> QED BY <1>3, <2>5
<1>8. CASE B!Enqueue(d)
  <2>1. sender[d].pc = "failed" /\ UNCHANGED <<late, received, queue>>
    BY <1>8 DEF B!Enqueue
  <2>2. sender'[d].pc \in {"offer", "save"}
    BY <1>1, <1>5, <1>8 DEF B!Enqueue, Senders
  <2>3. Budget(d) <= Budget(d)'
    <3>1. First(d)' = First(d)
      BY <2>1, <2>2 DEF First, Fresh
    <3> QED BY <1>2, <2>1, <3>1, BudgetSame
  <2>4. history[d] = 0 /\ attempts[d] = 0 /\ Entries(d) = {} /\ 1 + Triangle(setup.max) <= Budget(d)
    BY <1>5, <2>1 DEF Accounted, Early
  <2>5. ~Early(d)' /\ ~Fresh(d)'
    BY <2>2 DEF Early, Fresh
  <2>6. CASE history[d] >= setup.max
    <3>1. sender'[d].pc = "save" /\ UNCHANGED <<history, pending>>
      BY <1>1, <1>5, <1>8, <2>6 DEF B!Enqueue, Senders
    <3>2. SameEntries(d)
      BY <1>2, <2>1, <3>1, WorkersStay DEF SameEntries
    <3>3. Accounted(d)'
      BY <1>2, <1>5, <2>3, <2>5, <3>1, <3>2, Keeps DEF Onward
    <3> QED BY <1>3, <3>3
  <2>7. CASE ~(history[d] >= setup.max)
    <3>1. sender'[d].pc = "offer" /\ d \in pending'
      BY <1>1, <1>5, <1>8, <2>7 DEF B!Enqueue, Senders
    <3>2. QueuedAt(d) = {} /\ \A w \in CallbackWorkers : ~Retries(w, d)
      BY <2>4, EntryIs
    <3>3. QueuedAt(d)' = {} /\ \A w \in CallbackWorkers : ~Retries(w, d)'
      BY <1>2, <2>1, <3>2, WorkersStay
    <3>4. Entries(d)' = {<<"pending", 0>>, <<"offer", 0>>}
      BY <3>1, <3>3 DEF Entries
    <3>5. ~Stalled(<<"pending", 0>>)' /\ ~Stalled(<<"offer", 0>>)'
      BY DEF Stalled
    <3>6. \A t \in Entries(d)' : Costs(d)'[t] = 1 /\ Nexts(d)'[t] = 1
      BY <1>2, <2>4, <3>4, <3>5 DEF Costs, Nexts
    <3>7. 1 <= setup.max
      BY <1>4, <2>4, <2>7
    <3> DEFINE m == setup.max - 1
    <3>8. m \in Nat /\ setup.max = m + 1 /\ Left(setup.max, 1) = m
      BY <1>4, <3>7 DEF Left
    <3> HIDE DEF m
    <3>9. Triangle(m) \in Nat /\ m <= Triangle(m) /\ Triangle(setup.max) = Triangle(m) + m + 1
      BY <3>8, TriangleNext, TriangleGrows
    <3>10. FitsIn(Entries(d)', Costs(d)', Nexts(d)', setup.max, Budget(d)')
      <4>1. Budget(d)' \in Nat /\ 2 + m + Triangle(m) <= Budget(d)'
        BY <1>4, <2>3, <2>4, <3>8, <3>9
      <4>2. \A r, s, t \in Entries(d)' : r = s \/ s = t \/ r = t
        BY <3>4
      <4>3. \A t \in Entries(d)' : /\ Costs(d)'[t] \in {0, 1} /\ Nexts(d)'[t] \in Nat
                                   /\ Costs(d)'[t] + Left(setup.max, Nexts(d)'[t]) <= Budget(d)'
        BY <3>6, <3>8, <3>9, <4>1
      <4>4. \A s, t \in Entries(d)' :
              Costs(d)'[s] + Costs(d)'[t] + Left(setup.max, Nexts(d)'[t]) + Triangle(Left(setup.max, Nexts(d)'[s]))
                <= Budget(d)'
        BY <3>6, <3>8, <3>9, <4>1
      <4> QED BY <4>1, <4>2, <4>3, <4>4 DEF FitsIn
    <3>11. Accounted(d)'
      BY <1>2, <2>5, <3>10 DEF Accounted
    <3> QED BY <1>3, <3>11
  <2> QED BY <2>6, <2>7
<1>9. CASE B!Offer(d)
  <2>1. sender[d].pc = "offer" /\ UNCHANGED <<late, received, history>> /\ sender'[d].pc = "save"
    BY <1>1, <1>5, <1>9 DEF B!Offer, Senders
  <2>2. ~Early(d)' /\ ~Fresh(d)'
    BY <2>1 DEF Early, Fresh
  <2>3. Budget(d) <= Budget(d)'
    <3>1. First(d)' = First(d)
      BY <2>1 DEF First, Fresh
    <3> QED BY <1>2, <2>1, <3>1, BudgetSame
  <2>4. CASE Len(queue) < RetryQueueSize
    <3>1. queue' = Append(queue, d) /\ UNCHANGED pending
      BY <1>9, <2>4 DEF B!Offer
    <3>2. QueuedAt(d)' = QueuedAt(d) \union {Len(queue) + 1}
      BY <1>1, <3>1 DEF QueuedAt
    <3>3. Entries(d)' = (Entries(d) \ {<<"offer", 0>>}) \union {<<"queue", Len(queue) + 1>>}
      BY <1>2, <2>1, <3>1, <3>2, WorkersStay DEF Entries
    <3>4. <<"offer", 0>> \in Entries(d)
      BY <2>1, EntryIs
    <3>5. FitsIn(Entries(d)', Costs(d)', Nexts(d)', setup'.max, Budget(d)')
      BY <1>2, <1>4, <1>5, <2>3, <3>1, <3>3, <3>4, Appended DEF Accounted
    <3>6. Accounted(d)'
      BY <2>2, <3>5 DEF Accounted
    <3> QED BY <1>3, <3>6
  <2>5. CASE ~(Len(queue) < RetryQueueSize)
    <3>1. UNCHANGED queue /\ pending' = pending \ {d}
      BY <1>9, <2>5 DEF B!Offer
    <3>2. Entries(d)' \subseteq Entries(d)
      BY <1>2, <2>1, <3>1, WorkersStay DEF Entries
    <3>3. \A t : Stalled(t)' <=> Stalled(t)
      BY <1>2 DEF Stalled
    <3> DEFINE Us == Entries(d)'
               f == [t \in Us |-> t]
               c == Costs(d)'
               x == Nexts(d)'
               b == Budget(d)'
    <3>4. f \in [Us -> Entries(d)] /\ (\A s, t \in Us : f[s] = f[t] => s = t) /\ b \in Int /\ Budget(d) <= b
      BY <1>4, <2>3, <3>2
    <3>5. \A t \in Us : c[t] = Costs(d)[f[t]] /\ x[t] = Nexts(d)[f[t]]
      BY <1>2, <3>2, <3>3 DEF Costs, Nexts
    <3> HIDE DEF Us, f, c, x, b
    <3>6. FitsIn(Us, c, x, setup.max, b)
      BY <1>4, <1>5, <3>4, <3>5, Moved DEF Accounted
    <3>7. Accounted(d)'
      BY <1>2, <2>2, <3>6 DEF Accounted, Us, c, x, b
    <3> QED BY <1>3, <3>7
  <2> QED BY <2>4, <2>5
<1>10. CASE B!CheckPendingTasks(d)
  <2>1. d \in pending /\ pending' = pending \ {d} /\ queue' = Append(queue, d)
        /\ UNCHANGED <<sender, late, received, history>>
    BY <1>10 DEF B!CheckPendingTasks
  <2>2. Fresh(d)' = Fresh(d) /\ Early(d)' = Early(d) /\ First(d)' = First(d)
    BY <2>1 DEF Fresh, Early, First
  <2>3. Budget(d) <= Budget(d)'
    BY <1>2, <2>1, <2>2, BudgetSame
  <2>4. QueuedAt(d)' = QueuedAt(d) \union {Len(queue) + 1}
    BY <1>1, <2>1 DEF QueuedAt
  <2>5. Entries(d)' = (Entries(d) \ {<<"pending", 0>>}) \union {<<"queue", Len(queue) + 1>>}
    BY <1>2, <2>1, <2>4, WorkersStay DEF Entries
  <2>6. <<"pending", 0>> \in Entries(d)
    BY <2>1, EntryIs
  <2>7. FitsIn(Entries(d)', Costs(d)', Nexts(d)', setup'.max, Budget(d)')
    BY <1>2, <1>4, <1>5, <2>1, <2>3, <2>5, <2>6, Appended DEF Accounted
  <2>8. ~Early(d)
    BY <1>5, <2>6 DEF Accounted
  <2>9. Accounted(d)'
    BY <1>5, <2>1, <2>2, <2>7, <2>8 DEF Accounted
  <2> QED BY <1>3, <2>9
<1> QED BY <1>6, <1>7, <1>8, <1>9, <1>10 DEF B!SenderStep

\* Of a deploy task whose entry a worker's step leaves as it is.
LEMMA WorkerElsewhere ==
  ASSUME CallbackType, CallbackType', NEW e \in CallbackTasks, Accounted(e), NEW w \in CallbackWorkers,
         UNCHANGED <<setup, sender, late, manual>>,
         e \in pending' <=> e \in pending, attempts'[e] = attempts[e], received'[e] = received[e],
         history'[e] = history[e] \/ history'[e] = 0, QueuedAt(e)' = QueuedAt(e),
         \A v \in CallbackWorkers \ {w} : worker'[v] = worker[v],
         Retries(w, e)' <=> Retries(w, e), Retries(w, e) => worker[w].pc # "bump" /\ worker'[w].pc # "bump"
  PROVE  Accounted(e)'
<1>1. (Fresh(e)' <=> Fresh(e)) /\ (Early(e)' <=> Early(e)) /\ ByHand' = ByHand
  BY DEF Fresh, Early, ByHand
<1>2. ASSUME NEW v \in CallbackWorkers
      PROVE  /\ Retries(v, e)' <=> Retries(v, e)
             /\ Retries(v, e) => /\ worker'[v].pc = "bump" <=> worker[v].pc = "bump"
                                 /\ worker[v].pc = "bump" => worker'[v].count = worker[v].count
  <2>1. CASE v = w
    BY <2>1
  <2>2. CASE v # w
    BY <2>2 DEF Retries
  <2> QED BY <2>1, <2>2
<1> QED BY <1>1, <1>2, Untouched

\* A worker takes what is first in the channel: the entry moves to the worker.
LEMMA TakeAccounts ==
  ASSUME CallbackType, CallbackType', NEW e \in CallbackTasks, Accounted(e), NEW w \in CallbackWorkers,
         B!Take(w)
  PROVE  Accounted(e)'
<1>1. /\ worker \in [CallbackWorkers -> {B!Free} \union BusyWorkers] /\ queue \in Seq(CallbackTasks)
      /\ queue # <<>> /\ queue' = Tail(queue) /\ worker[w].pc = "idle"
      /\ worker'[w] = [pc |-> "record", task |-> Head(queue), ok |-> FALSE, count |-> 0, status |-> "retrying"]
      /\ \A v \in CallbackWorkers \ {w} : worker'[v] = worker[v]
      /\ UNCHANGED <<setup, sender, late, history, pending, attempts, manual, received>>
  BY DEF CallbackType, B!Take
<1>2. /\ Fresh(e)' <=> Fresh(e)
      /\ Early(e)' <=> Early(e)
      /\ First(e)' = First(e) /\ ByHand' = ByHand
  BY <1>1 DEF Fresh, Early, First, ByHand
<1>3. Budget(e) \in Int /\ Budget(e)' \in Int /\ Budget(e) <= Budget(e)' /\ setup.max \in Nat
      /\ Triangle(setup.max) \in Nat
  BY <1>1, <1>2, BudgetSame, BudgetType, LaterFacts, SetupFacts
<1>4. \A i \in QueuedAt(e)' : i \in Nat /\ i >= 1 /\ i + 1 \in QueuedAt(e)
  BY <1>1 DEF QueuedAt
<1>5. /\ ~Retries(w, e)
      /\ Retries(w, e)' => 1 \in QueuedAt(e)
      /\ \A v \in CallbackWorkers \ {w} : Retries(v, e)' <=> Retries(v, e)
  BY <1>1 DEF Retries, QueuedAt
<1> DEFINE F(t) == IF t[1] = "queue" THEN <<"queue", t[2] + 1>>
                   ELSE IF t = <<"worker", w>> THEN <<"queue", 1>> ELSE t
<1>6. ASSUME NEW t \in Entries(e)'
      PROVE  \/ t[1] = "queue" /\ t[2] \in Nat /\ t[2] >= 1 /\ t = <<"queue", t[2]>> /\ t[2] + 1 \in QueuedAt(e)
             \/ t = <<"worker", w>> /\ 1 \in QueuedAt(e)
             \/ t \in {<<"pending", 0>>, <<"offer", 0>>} /\ t \in Entries(e)
             \/ \E v \in CallbackWorkers \ {w} : t = <<"worker", v>> /\ Retries(v, e)
  <2>1. CASE \E i \in QueuedAt(e)' : t = <<"queue", i>>
    BY <1>4, <2>1
  <2>2. CASE \E v \in CallbackWorkers : Retries(v, e)' /\ t = <<"worker", v>>
    BY <1>5, <2>2
  <2>3. CASE t \in {<<"pending", 0>>, <<"offer", 0>>}
    BY <1>1, <2>3 DEF Entries
  <2> QED BY <2>1, <2>2, <2>3 DEF Entries
<1>7. ASSUME NEW t \in Entries(e)'
      PROVE  F(t) \in Entries(e) /\ (Stalled(t)' <=> Stalled(F(t)))
             /\ (Stalled(t)' => worker'[t[2]].count = worker[F(t)[2]].count)
  <2>1. CASE t[1] = "queue" /\ t[2] \in Nat /\ t[2] >= 1 /\ t = <<"queue", t[2]>> /\ t[2] + 1 \in QueuedAt(e)
    BY <2>1 DEF Entries, Stalled
  <2>2. CASE t = <<"worker", w>> /\ 1 \in QueuedAt(e)
    BY <1>1, <2>2 DEF Entries, Stalled
  <2>3. CASE t \in {<<"pending", 0>>, <<"offer", 0>>} /\ t \in Entries(e)
    BY <2>3 DEF Stalled
  <2>4. CASE \E v \in CallbackWorkers \ {w} : t = <<"worker", v>> /\ Retries(v, e)
    BY <1>1, <2>4 DEF Entries, Stalled
  <2> QED BY <1>6, <2>1, <2>2, <2>3, <2>4
<1>8. ASSUME NEW s \in Entries(e)', NEW t \in Entries(e)', F(s) = F(t) PROVE s = t
  <2>1. ASSUME NEW u \in Entries(e)'
        PROVE  \/ u[1] = "queue" /\ u[2] \in Nat /\ u[2] >= 1 /\ u = <<"queue", u[2]>> /\ F(u) = <<"queue", u[2] + 1>>
               \/ u = <<"worker", w>> /\ F(u) = <<"queue", 1>>
               \/ u[1] # "queue" /\ F(u) = u
    BY <1>6, <2>1
  <2>2. CASE s[1] = "queue"
    BY <1>8, <2>1, <2>2
  <2>3. CASE t[1] = "queue"
    BY <1>8, <2>1, <2>3
  <2>4. CASE s[1] # "queue" /\ t[1] # "queue"
    BY <1>8, <2>1, <2>4
  <2> QED BY <2>2, <2>3, <2>4
<1> HIDE DEF F
<1> DEFINE Us == Entries(e)'
           f == [t \in Us |-> F(t)]
           c == Costs(e)'
           x == Nexts(e)'
           b == Budget(e)'
<1>9. f \in [Us -> Entries(e)] /\ \A s, t \in Us : f[s] = f[t] => s = t
  BY <1>7, <1>8
<1>10. \A t \in Us : c[t] = Costs(e)[f[t]] /\ x[t] = Nexts(e)[f[t]]
  BY <1>1, <1>7 DEF Costs, Nexts
<1>11. b \in Int /\ Budget(e) <= b
  BY <1>3
<1>12. Early(e) => Us = {}
  BY <1>9 DEF Accounted
<1> HIDE DEF Us, f, c, x, b
<1>13. FitsIn(Us, c, x, setup.max, b)
  BY <1>3, <1>9, <1>10, <1>11, Moved DEF Accounted
<1>14. (e \in late' => ~Fresh(e)')
  BY <1>1, <1>2 DEF Accounted
<1>15. Early(e)' => /\ history'[e] = 0 /\ attempts'[e] = 0 /\ Us = {} /\ 1 + Triangle(setup'.max) <= b
  BY <1>1, <1>2, <1>3, <1>11, <1>12 DEF Accounted
<1> QED BY <1>1, <1>13, <1>14, <1>15 DEF Accounted, Us, c, x, b

\* A worker sends: what was to be sent for its entry is sent.
LEMMA ResendAccounts ==
  ASSUME CallbackType, CallbackType', NEW e \in CallbackTasks, Accounted(e), NEW w \in CallbackWorkers,
         B!Resend(w)
  PROVE  Accounted(e)'
<1> DEFINE d == worker[w].task
<1>1. PICK o \in B!Outcomes :
        /\ worker[w].pc = "send" /\ B!Arrives(d, o)
        /\ worker' = [worker EXCEPT ![w].pc = IF o.ok THEN "sent" ELSE "bump",
                                    ![w].count = IF o.ok THEN 0 ELSE attempts[d] + 1]
        /\ UNCHANGED <<setup, sender, late, history, queue, pending, attempts, manual>>
  BY DEF B!Resend
<1>2. worker \in [CallbackWorkers -> {B!Free} \union BusyWorkers] /\ worker[w] \in BusyWorkers
      /\ d \in CallbackTasks /\ attempts[d] \in Nat
  BY <1>1 DEF CallbackType, B!Free, BusyWorkers
<1>3. /\ worker'[w].pc = IF o.ok THEN "sent" ELSE "bump"
      /\ worker'[w].count = IF o.ok THEN 0 ELSE attempts[d] + 1
      /\ worker'[w].task = d
      /\ \A v \in CallbackWorkers \ {w} : worker'[v] = worker[v]
  BY <1>1, <1>2 DEF BusyWorkers
<1>4. /\ received'[d] <= received[d] + 1
      /\ \A a \in CallbackTasks \ {d} : received'[a] = received[a]
  BY <1>1, <1>2, Arrived
<1> HIDE DEF d
<1>5. CASE e # d
  <2>1. ~Retries(w, e) /\ ~Retries(w, e)'
    BY <1>3, <1>5 DEF Retries, d
  <2>2. QueuedAt(e)' = QueuedAt(e)
    BY <1>1 DEF QueuedAt
  <2> QED BY <1>1, <1>3, <1>4, <1>5, <2>1, <2>2, WorkerElsewhere
<1>6. CASE e = d
  <2> DEFINE z == <<"worker", w>>
             T == Entries(e)
             Us == Entries(e)'
             c == Costs(e)
             c2 == Costs(e)'
             x == Nexts(e)
             x2 == Nexts(e)'
             b == Budget(e)
             b2 == Budget(e)'
  <2>1. z \in T /\ ~Stalled(z) /\ c[z] = 1 /\ x[z] = attempts[e] + 1
    BY <1>1, <1>6 DEF Entries, Retries, Stalled, Costs, Nexts, d
  <2>2. (Fresh(e)' <=> Fresh(e)) /\ (Early(e)' <=> Early(e)) /\ First(e)' = First(e) /\ ByHand' = ByHand
    BY <1>1 DEF Fresh, Early, First, ByHand
  <2>3. b \in Int /\ b2 \in Int /\ b - 1 <= b2 /\ setup.max \in Nat
    <3>1. b \in Int /\ b2 \in Int /\ setup.max \in Nat
      BY <1>1, BudgetType, LaterFacts, SetupFacts
    <3>2. received[e] \in Nat /\ received'[e] \in Nat /\ First(e) \in {0, 1} /\ Cardinality(ByHand) \in Nat
          /\ Limit \in Nat
      BY <1>1, BudgetType, LaterFacts, SetupFacts
    <3>3. Limit' = Limit
      BY <1>1 DEF Limit
    <3>4. received'[e] <= received[e] + 1
      BY <1>4, <1>6
    <3> QED BY <2>2, <3>1, <3>2, <3>3, <3>4 DEF Budget
  <2>4. QueuedAt(e)' = QueuedAt(e)
        /\ \A v \in CallbackWorkers \ {w} : Retries(v, e)' <=> Retries(v, e)
    BY <1>1, <1>3 DEF QueuedAt, Retries
  <2>5. Us \subseteq T /\ (z \in Us => worker'[w].pc = "bump")
    <3>1. Us \subseteq T
      BY <1>1, <2>1, <2>4 DEF Entries
    <3>2. z \in Us => Retries(w, e)'
      BY DEF Entries
    <3> QED BY <1>3, <3>1, <3>2 DEF Retries
  <2>6. ASSUME NEW t \in Us
        PROVE  x2[t] = x[t] /\ c2[t] = IF t = z THEN 0 ELSE c[t]
    <3>1. CASE t = z
      <4>1. Stalled(t)' /\ worker'[w].count = attempts[e] + 1
        BY <1>3, <1>6, <2>5, <3>1 DEF Stalled
      <4> QED BY <2>1, <3>1, <4>1 DEF Costs, Nexts
    <3>2. CASE t # z
      <4>1. (Stalled(t)' <=> Stalled(t)) /\ (Stalled(t) => worker'[t[2]].count = worker[t[2]].count)
        <5>1. CASE \E v \in CallbackWorkers : t = <<"worker", v>>
          BY <1>3, <3>2, <5>1 DEF Stalled
        <5>2. CASE t[1] # "worker"
          BY <5>2 DEF Stalled
        <5>3. (\E v \in CallbackWorkers : t = <<"worker", v>>) \/ t[1] # "worker"
          BY <2>5, EntryIs
        <5> QED BY <5>1, <5>2, <5>3
      <4> QED BY <1>1, <2>5, <3>2, <4>1 DEF Costs, Nexts
    <3> QED BY <3>1, <3>2
  <2>7. FitsIn(T, c, x, setup.max, b)
    BY DEF Accounted
  <2>8. ~Early(e)'
    BY <2>1, <2>2 DEF Accounted
  <2> HIDE DEF z, T, Us, c, c2, x, x2, b, b2
  <2>9. FitsIn(Us, c2, x2, setup.max, b2)
    <3>1. Us \in SUBSET T /\ z \in T /\ c[z] = 1 /\ b2 \in Int /\ b - 1 <= b2 /\ setup.max \in Nat
      BY <2>1, <2>3, <2>5
    <3>2. \A t \in Us : x2[t] = x[t] /\ c2[t] = IF t = z THEN 0 ELSE c[t]
      BY <2>6
    <3> QED BY <2>7, <3>1, <3>2, SentOne
  <2>10. e \in late' => ~Fresh(e)'
    BY <1>1, <2>2 DEF Accounted
  <2> QED BY <1>1, <2>8, <2>9, <2>10 DEF Accounted, Us, c2, x2, b2
<1> QED BY <1>5, <1>6

\* A worker whose attempt has failed writes the count it read, and waits again
\* or gives up.
LEMMA AgainAccounts ==
  ASSUME CallbackType, CallbackType', NEW e \in CallbackTasks, Accounted(e), NEW w \in CallbackWorkers,
         B!Again(w)
  PROVE  Accounted(e)'
<1> DEFINE d == worker[w].task
           n == worker[w].count
<1>1. /\ worker[w].pc = "bump" /\ attempts' = [attempts EXCEPT ![d] = n]
      /\ UNCHANGED <<setup, sender, late, queue, manual, received>>
  BY DEF B!Again
<1>2. worker \in [CallbackWorkers -> {B!Free} \union BusyWorkers] /\ worker[w] \in BusyWorkers
      /\ d \in CallbackTasks /\ n \in Nat /\ attempts \in [CallbackTasks -> Nat]
      /\ history \in [CallbackTasks -> 0 .. 1] /\ setup.max \in Nat
  <2>1. worker \in [CallbackWorkers -> {B!Free} \union BusyWorkers] /\ worker[w] \in BusyWorkers
    BY <1>1 DEF CallbackType, B!Free
  <2>2. d \in CallbackTasks /\ n \in Nat
    BY <2>1 DEF BusyWorkers
  <2>3. attempts \in [CallbackTasks -> Nat] /\ history \in [CallbackTasks -> 0 .. 1]
    BY DEF CallbackType
  <2> QED BY <2>1, <2>2, <2>3, SetupFacts
<1>3. attempts'[d] = n /\ \A a \in CallbackTasks \ {d} : attempts'[a] = attempts[a]
  BY <1>1, <1>2
<1>4. /\ worker'[w].pc = "update"
      /\ \A v \in CallbackWorkers \ {w} : worker'[v] = worker[v]
      /\ \A a \in CallbackTasks : history'[a] = history[a] \/ history'[a] = 0
      /\ \A a \in CallbackTasks \ {d} : history'[a] = history[a]
      /\ pending' = IF n < setup.max THEN pending \union {d} ELSE pending
  <2>1. CASE n >= setup.max
    <3>1. B!Retire(w, "failed") /\ UNCHANGED pending
      BY <1>3, <2>1 DEF B!Again
    <3>2. worker' = [worker EXCEPT ![w] = [worker[w] EXCEPT !.pc = "update", !.status = "failed"]]
          /\ history' = [history EXCEPT ![d] = 0]
      BY <3>1 DEF B!Retire
    <3>3. [worker[w] EXCEPT !.pc = "update", !.status = "failed"].pc = "update"
      BY <1>2 DEF BusyWorkers
    <3>4. ~(n < setup.max)
      BY <1>2, <2>1
    <3> QED BY <1>2, <3>1, <3>2, <3>3, <3>4
  <2>2. CASE ~(n >= setup.max)
    <3>1. pending' = pending \union {d} /\ B!At(w, "update") /\ UNCHANGED history
      BY <1>3, <2>2 DEF B!Again
    <3>2. worker' = [worker EXCEPT ![w] = [worker[w] EXCEPT !.pc = "update"]]
      BY <3>1 DEF B!At
    <3>3. [worker[w] EXCEPT !.pc = "update"].pc = "update"
      BY <1>2 DEF BusyWorkers
    <3>4. n < setup.max
      BY <1>2, <2>2
    <3> QED BY <1>2, <3>1, <3>2, <3>3, <3>4
  <2> QED BY <2>1, <2>2
<1>5. QueuedAt(e)' = QueuedAt(e)
  BY <1>1 DEF QueuedAt
<1> HIDE DEF d, n
<1>6. CASE e # d
  <2>1. ~Retries(w, e) /\ ~Retries(w, e)'
    BY <1>4, <1>6 DEF Retries, d
  <2> QED BY <1>1, <1>3, <1>4, <1>5, <1>6, <2>1, WorkerElsewhere
<1>7. CASE e = d
  <2> DEFINE z == <<"worker", w>>
             p == <<"pending", 0>>
             T == Entries(e)
             Us == Entries(e)'
             c == Costs(e)
             c2 == Costs(e)'
             x == Nexts(e)
             x2 == Nexts(e)'
             b == Budget(e)
             b2 == Budget(e)'
  <2>1. z \in T /\ Stalled(z) /\ c[z] = 0 /\ x[z] = n /\ p # z
    BY <1>1, <1>7 DEF Entries, Retries, Stalled, Costs, Nexts, d, n
  <2>2. (Fresh(e)' <=> Fresh(e)) /\ (Early(e)' <=> Early(e)) /\ First(e)' = First(e) /\ ByHand' = ByHand
    BY <1>1 DEF Fresh, Early, First, ByHand
  <2>3. b \in Int /\ b2 \in Int /\ b <= b2
    BY <1>1, <2>2, BudgetSame, BudgetType, LaterFacts
  <2>4. ~Retries(w, e)' /\ \A v \in CallbackWorkers \ {w} : Retries(v, e)' <=> Retries(v, e)
    BY <1>4 DEF Retries
  <2>5. Us = IF n < setup.max THEN (T \ {z}) \union {p} ELSE T \ {z}
    <3>1. ASSUME NEW t PROVE t \in Us <=> (n < setup.max /\ t = p) \/ (t \in T /\ t # z)
      <4>1. t = p => (t \in Us <=> n < setup.max \/ t \in T)
        BY <1>4, <1>7 DEF Entries
      <4>2. t # p => (t \in Us <=> t \in T /\ t # z)
        BY <1>1, <1>5, <2>4 DEF Entries
      <4> QED BY <2>1, <4>1, <4>2
    <3> QED BY <3>1
  <2>6. \A t \in T \ {z} : /\ Stalled(t)' <=> Stalled(t)
                           /\ Stalled(t) => worker'[t[2]].count = worker[t[2]].count
    <3>1. SUFFICES ASSUME NEW t \in T \ {z}
                   PROVE  /\ Stalled(t)' <=> Stalled(t)
                          /\ Stalled(t) => worker'[t[2]].count = worker[t[2]].count
      OBVIOUS
    <3>2. (\E v \in CallbackWorkers : t = <<"worker", v>>) \/ t[1] # "worker"
      BY EntryIs
    <3>3. CASE \E v \in CallbackWorkers : t = <<"worker", v>>
      BY <1>4, <3>3 DEF Stalled
    <3>4. CASE t[1] # "worker"
      BY <3>4 DEF Stalled
    <3> QED BY <3>2, <3>3, <3>4
  <2>7. p \in Us => c2[p] = 1 /\ x2[p] = n + 1
    BY <1>3, <1>7 DEF Costs, Nexts, Stalled
  <2>8. \A t \in T \ {z} : t \in Us /\ c2[t] = c[t] /\ x2[t] = IF c[t] = 0 THEN x[t] ELSE n + 1
    <3>1. \A t \in T \ {z} : t \in Us
      BY <2>5
    <3> QED BY <1>3, <1>7, <2>6, <3>1 DEF Costs, Nexts
  <2>9. FitsIn(T, c, x, setup.max, b)
    BY DEF Accounted
  <2>10. ~Early(e)'
    BY <2>1, <2>2 DEF Accounted
  <2> HIDE DEF z, p, T, Us, c, c2, x, x2, b, b2
  <2>11. FitsIn(Us, c2, x2, setup.max, b)
    <3>1. Bumps(T, c, x, setup.max, z, p, Us, c2, x2)
      BY <2>1, <2>5, <2>7, <2>8 DEF Bumps
    <3> QED BY <1>2, <2>9, <3>1, Bumped
  <2>12. FitsIn(Us, c2, x2, setup.max, b2)
    <3> DEFINE f == [t \in Us |-> t]
    <3>1. f \in [Us -> Us] /\ (\A s, t \in Us : f[s] = f[t] => s = t)
          /\ \A t \in Us : c2[t] = c2[f[t]] /\ x2[t] = x2[f[t]]
      OBVIOUS
    <3> HIDE DEF f
    <3> QED BY <1>2, <2>3, <2>11, <3>1, Moved
  <2>13. e \in late' => ~Fresh(e)'
    BY <1>1, <2>2 DEF Accounted
  <2> QED BY <1>1, <2>10, <2>12, <2>13 DEF Accounted, Us, c2, x2, b2
<1> QED BY <1>6, <1>7

\* Each step of a worker keeps the accounts of every deploy task.
LEMMA WorkerAccounts ==
  ASSUME CallbackType, CallbackType', \A e \in CallbackTasks : Accounted(e), NEW w \in CallbackWorkers,
         B!WorkerStep(w)
  PROVE  \A e \in CallbackTasks : Accounted(e)'
<1> SUFFICES ASSUME NEW e \in CallbackTasks PROVE Accounted(e)'
  OBVIOUS
<1>1. worker \in [CallbackWorkers -> {B!Free} \union BusyWorkers] /\ history \in [CallbackTasks -> 0 .. 1]
      /\ (worker[w].pc # "idle" => worker[w] \in BusyWorkers)
  BY DEF CallbackType, B!Free
<1>2. CASE B!RecordRetryHistory(w) \/ B!Succeed(w) \/ B!UpdateHistoryStatus(w)
  <2>1. UNCHANGED <<setup, sender, late, manual, pending, attempts, received, queue>>
    BY <1>2 DEF B!RecordRetryHistory, B!Succeed, B!UpdateHistoryStatus
  <2>2. history'[e] = history[e] \/ history'[e] = 0
    BY <1>1, <1>2 DEF B!RecordRetryHistory, B!Succeed, B!UpdateHistoryStatus, B!Retire
  <2>3. \A v \in CallbackWorkers \ {w} : worker'[v] = worker[v]
    BY <1>1, <1>2 DEF B!RecordRetryHistory, B!Succeed, B!UpdateHistoryStatus, B!Retire, B!At
  <2>4. (Retries(w, e)' <=> Retries(w, e)) /\ (Retries(w, e) => worker[w].pc # "bump" /\ worker'[w].pc # "bump")
    <3>1. CASE B!RecordRetryHistory(w)
      <4>1. worker'[w].pc = "send" /\ worker'[w].task = worker[w].task /\ worker[w].pc = "record"
        BY <1>1, <3>1 DEF B!RecordRetryHistory, B!At, BusyWorkers
      <4> QED BY <4>1 DEF Retries
    <3>2. CASE B!Succeed(w)
      <4>1. worker'[w].pc = "update" /\ worker[w].pc = "sent"
        BY <1>1, <3>2 DEF B!Succeed, B!Retire, BusyWorkers
      <4> QED BY <4>1 DEF Retries
    <3>3. CASE B!UpdateHistoryStatus(w)
      <4>1. worker'[w].pc = "idle" /\ worker[w].pc = "update"
        BY <1>1, <3>3 DEF B!UpdateHistoryStatus, B!Free
      <4> QED BY <4>1 DEF Retries
    <3> QED BY <1>2, <3>1, <3>2, <3>3
  <2>5. QueuedAt(e)' = QueuedAt(e)
    BY <2>1 DEF QueuedAt
  <2> QED BY <2>1, <2>2, <2>3, <2>4, <2>5, WorkerElsewhere
<1> QED BY <1>2, TakeAccounts, ResendAccounts, AgainAccounts DEF B!WorkerStep

\* Each request by hand keeps them: it was counted from the start.
LEMMA HandlerAccounts ==
  ASSUME CallbackType, CallbackType', \A e \in CallbackTasks : Accounted(e),
         \/ \E x \in B!Manuals : B!RetryCallbackHistory(x) \/ B!RetriedByHand(x)
         \/ B!UpdateCallbackConfig \/ B!DeleteCallbackConfig
  PROVE  \A e \in CallbackTasks : Accounted(e)'
<1> SUFFICES ASSUME NEW e \in CallbackTasks PROVE Accounted(e)'
  OBVIOUS
<1>1. UNCHANGED <<setup, sender, late, history, queue, pending, attempts, worker>>
  BY DEF B!RetryCallbackHistory, B!RetriedByHand, B!UpdateCallbackConfig, B!DeleteCallbackConfig
<1>2. (Fresh(e)' <=> Fresh(e)) /\ (Early(e)' <=> Early(e)) /\ First(e)' = First(e)
  BY <1>1 DEF Fresh, Early, First
<1>3. SameEntries(e)
  BY <1>1, WorkersStay DEF SameEntries
<1>4. received[e] \in Nat /\ First(e) \in {0, 1} /\ Cardinality(ByHand) \in Nat
  BY BudgetType, SetupFacts
<1>5. received'[e] + Cardinality(ByHand') <= received[e] + Cardinality(ByHand)
  <2>1. CASE B!UpdateCallbackConfig \/ B!DeleteCallbackConfig
    <3>1. UNCHANGED received /\ ByHand' = ByHand
      BY <2>1 DEF B!UpdateCallbackConfig, B!DeleteCallbackConfig, ByHand
    <3> QED BY <1>4, <3>1
  <2>2. ASSUME NEW x \in B!Manuals, B!RetryCallbackHistory(x)
        PROVE  received'[e] + Cardinality(ByHand') <= received[e] + Cardinality(ByHand)
    <3>1. /\ UNCHANGED received /\ manual[x].pc = "idle" /\ manual'[x].pc = "send"
          /\ \A y \in B!Manuals \ {x} : manual'[y] = manual[y]
      BY <2>2 DEF B!RetryCallbackHistory, CallbackType
    <3>2. ByHand' = ByHand
      BY <1>1, <3>1, SetupFacts DEF ByHand
    <3> QED BY <1>4, <3>1, <3>2
  <2>3. ASSUME NEW x \in B!Manuals, B!RetriedByHand(x)
        PROVE  received'[e] + Cardinality(ByHand') <= received[e] + Cardinality(ByHand)
    <3>1. PICK o \in B!Outcomes : manual[x].pc = "send" /\ B!Arrives(manual[x].task, o)
            /\ manual' = [manual EXCEPT ![x] = [pc |-> "done"]]
      BY <2>3 DEF B!RetriedByHand
    <3>2. manual[x].task \in CallbackTasks /\ x <= setup.manual /\ x \in Nat /\ x >= 1
      <4>1. manual[x].task \in CallbackTasks /\ x <= setup.manual
        BY <3>1 DEF CallbackType, Asked
      <4>2. PICK c \in CallbackSetups : x \in 1 .. c.manual
        BY DEF B!Manuals
      <4>3. c.manual \in Nat
        BY CallbackAssumption DEF B!IsSetup
      <4> QED BY <4>1, <4>2, <4>3
    <3>3. manual'[x].pc = "done" /\ \A y \in B!Manuals \ {x} : manual'[y] = manual[y]
      BY <3>1 DEF CallbackType
    <3>4. x \in ByHand /\ ByHand' = ByHand \ {x}
      <4>1. x \in ByHand
        BY <3>1, <3>2, SetupFacts DEF ByHand
      <4>2. ByHand' = ByHand \ {x}
        BY <1>1, <3>3, SetupFacts DEF ByHand
      <4> QED BY <4>1, <4>2
    <3>5. Cardinality(ByHand') = Cardinality(ByHand) - 1
      BY <3>4, SetupFacts, FS_RemoveElement
    <3>6. received'[e] <= received[e] + 1
      BY <1>4, <3>1, <3>2, Arrived
    <3>7. received'[e] \in Nat
      BY <1>1, LaterFacts
    <3> QED BY <1>4, <3>5, <3>6, <3>7
  <2> QED BY <2>1, <2>2, <2>3
<1>6. Budget(e) <= Budget(e)'
  <2>1. received'[e] \in Nat /\ Cardinality(ByHand') \in Nat
    BY <1>1, LaterFacts
  <2> QED BY <1>1, <1>2, <1>4, <1>5, <2>1, BudgetKeeps
<1>7. Onward(e)
  BY <1>1, <1>2, <1>6 DEF Onward, Accounted
<1> QED BY <1>1, <1>3, <1>7, Keeps

\* Each step keeps all of it.
LEMMA CallbackStep == CallbackInv /\ [B!Next]_(B!vars) => CallbackInv'
<1> SUFFICES ASSUME CallbackInv, [B!Next]_(B!vars) PROVE CallbackInv'
  OBVIOUS
<1> USE DEF CallbackInv
<1>1. ASSUME NEW d \in CallbackTasks,
             B!TriggerCallback(d) \/ B!SenderStep(d) \/ B!LateAnswer(d) \/ B!CheckPendingTasks(d)
      PROVE  CallbackInv'
  <2>1. CallbackType'
    BY <1>1, SenderTypes
  <2>2. Successes'
    BY <1>1, SenderSuccess
  <2>3. \A e \in CallbackTasks : Accounted(e)'
    BY <1>1, <2>1, SenderAccounts
  <2> QED BY <2>1, <2>2, <2>3
<1>2. ASSUME NEW w \in CallbackWorkers, B!WorkerStep(w) PROVE CallbackInv'
  <2>1. CallbackType'
    BY <1>2, WorkerTypes
  <2>2. Successes'
    BY <1>2, WorkerSuccess
  <2>3. \A e \in CallbackTasks : Accounted(e)'
    BY <1>2, <2>1, WorkerAccounts
  <2> QED BY <2>1, <2>2, <2>3
<1>3. ASSUME \/ \E x \in B!Manuals : B!RetryCallbackHistory(x) \/ B!RetriedByHand(x)
             \/ B!UpdateCallbackConfig \/ B!DeleteCallbackConfig
      PROVE  CallbackInv'
  <2>1. CallbackType'
    BY <1>3, HandlerTypes
  <2>2. Successes'
    BY <1>3, HandlerSuccess
  <2>3. \A e \in CallbackTasks : Accounted(e)'
    BY <1>3, <2>1, HandlerAccounts
  <2> QED BY <2>1, <2>2, <2>3
<1>4. CASE UNCHANGED B!vars
  <2>1. CallbackType'
    BY <1>4 DEF B!vars, CallbackType, Asked
  <2>2. Successes'
    BY <1>4 DEF B!vars, Successes, RowsTrue, SendersTrue, WorkersTrue, Told
  <2>3. \A e \in CallbackTasks : Accounted(e)'
    BY <1>4, <2>1, Untouched, WorkersStay DEF B!vars, Fresh, Early
  <2> QED BY <2>1, <2>2, <2>3
<1> QED BY <1>1, <1>2, <1>3, <1>4 DEF B!Next

\* What it shows: the types, the bound on the messages, and that success is true.
LEMMA CallbackShows == CallbackInv => B!TypeOK /\ B!MessagesBounded /\ B!SuccessWasReceived
<1> SUFFICES ASSUME CallbackInv PROVE B!TypeOK /\ B!MessagesBounded /\ B!SuccessWasReceived
  OBVIOUS
<1> USE DEF CallbackInv
<1>1. B!TypeOK
  <2>1. setup \in CallbackSetups /\ B!IsSetup(setup) /\ config \in {"enabled", "disabled", "deleted"}
    BY CallbackAssumption DEF CallbackType
  <2>2. \A d \in CallbackTasks :
          /\ sender[d].pc \in {"idle", "wait", "send", "failed", "offer", "save", "done"}
          /\ sender[d].row \in 0 .. Len(rows)
          /\ sender[d].status \in B!RowStatuses
    BY DEF CallbackType, Senders
  <2>3. \A i \in DOMAIN rows : rows[i] \in B!Rows
    BY DEF CallbackType
  <2>4. Len(queue) <= RetryQueueSize /\ B!ToSet(queue) \subseteq CallbackTasks
    BY DEF CallbackType, B!ToSet
  <2>5. \A w \in B!Busy : worker[w].pc \in {"record", "send", "sent", "bump", "update"}
                          /\ worker[w].task \in CallbackTasks
    BY DEF CallbackType, B!Busy, B!Free, BusyWorkers
  <2>6. \A x \in B!Manuals : manual[x].pc \in {"idle", "send", "done"}
    BY DEF CallbackType, Asked
  <2> QED BY <2>1, <2>2, <2>3, <2>4, <2>5, <2>6 DEF CallbackType, B!TypeOK
<1>2. B!MessagesBounded
  <2> SUFFICES ASSUME NEW d \in CallbackTasks
               PROVE  received[d] <= 2 + setup.manual + (setup.max * (setup.max + 1)) \div 2
    BY DEF B!MessagesBounded
  <2>1. Budget(d) \in Nat
    BY DEF Accounted, FitsIn
  <2>2. received[d] \in Nat /\ First(d) \in {0, 1} /\ Cardinality(ByHand) \in Nat /\ Limit \in Nat
    BY BudgetType, SetupFacts
  <2>3. received[d] <= Limit
    BY <2>1, <2>2 DEF Budget
  <2> QED BY <2>3 DEF Limit, Triangle
<1>3. B!SuccessWasReceived
  BY DEF Successes, RowsTrue, Told, B!SuccessWasReceived
<1> QED BY <1>1, <1>2, <1>3

-----------------------------------------------------------------------------
(* The parts together.                                                     *)

DeliveriesInv ==
  /\ part = "callback" => CallbackInv
  /\ part = "webhook" => WebhookInv
  /\ part = "limit" => LimitInv

LEMMA DeliveriesInit == Init => DeliveriesInv
BY CallbackInit, WebhookInit, LimitInit DEF Init, DeliveriesInv

LEMMA DeliveriesStep == DeliveriesInv /\ [Next]_vars => DeliveriesInv'
<1> SUFFICES ASSUME DeliveriesInv, [Next]_vars PROVE DeliveriesInv'
  OBVIOUS
<1>1. UNCHANGED part
  BY DEF Next, vars
<1>2. CASE part = "callback"
  <2>1. [B!Next]_(B!vars)
    BY <1>2 DEF Next, vars, callbackVars, B!vars
  <2> QED BY <1>1, <1>2, <2>1, CallbackStep DEF DeliveriesInv
<1>3. CASE part = "webhook"
  <2>1. [W!Next]_(W!vars)
    BY <1>3 DEF Next, vars, webhookVars, W!vars
  <2> QED BY <1>1, <1>3, <2>1, WebhookStep DEF DeliveriesInv
<1>4. CASE part = "limit"
  <2>1. [L!Next]_(L!vars)
    BY <1>4 DEF Next, vars, limitVars, L!vars
  <2> QED BY <1>1, <1>4, <2>1, LimitStep DEF DeliveriesInv
<1> QED BY <1>1, <1>2, <1>3, <1>4 DEF DeliveriesInv

\* The invariant of the callbacks, the webhooks and the rate limit holds
\* throughout (TriggerCallback, RetryQueue, IncomingWebhook, RateLimiter.Allow).
THEOREM DeliveriesInvHolds == Spec => []DeliveriesInv
<1>1. Init => DeliveriesInv
  BY DeliveriesInit
<1>2. DeliveriesInv /\ [Next]_vars => DeliveriesInv'
  BY DeliveriesStep
<1> QED BY <1>1, <1>2, PTL DEF Spec

\* The messages of a deploy task stay within the square of its attempts although
\* its retry entry is in two places and its counter unguarded; no row says
\* success before a message got through; a webhook's count has its records, and
\* a deploy task its delivery; and no window lets more requests in than its
\* limit (RetryQueue.Enqueue, processTask, IncomingWebhook, RateLimiter.Allow).
THEOREM DeliveriesAccounted == Spec => []DeliveriesAreAccounted
<1>1. DeliveriesInv => DeliveriesAreAccounted
  BY CallbackShows, WebhookShows, LimitShows DEF DeliveriesInv, DeliveriesAreAccounted
<1> QED BY <1>1, DeliveriesInvHolds, PTL
=============================================================================
