------------------------ MODULE RemoteAccessProofs ------------------------
(***************************************************************************)
(* What an operator reaches a client through keeps its promises, whatever  *)
(* the plans, the sizes of the queues and the number of sessions.  Each    *)
(* part has an inductive invariant and a lemma for every step of it; the   *)
(* last section puts them together.                                        *)
(***************************************************************************)
EXTENDS RemoteAccess, FiniteSetTheorems, SequenceTheorems, WellFoundedInduction, TLAPS

-----------------------------------------------------------------------------
(* The parts count with one Cardinality, each through its instance.        *)

\* An instance's Cardinality and the library's are one operator.
LEMMA SameCount ==
  \A S : /\ H!Cardinality(S) = Cardinality(S) /\ A!Cardinality(S) = Cardinality(S)
         /\ F!Cardinality(S) = Cardinality(S) /\ M!Cardinality(S) = Cardinality(S)
         /\ F!IsFiniteSet(S) = IsFiniteSet(S)
BY DEF H!Cardinality, A!Cardinality, F!Cardinality, M!Cardinality, Cardinality, F!IsFiniteSet,
   IsFiniteSet

-----------------------------------------------------------------------------
(* Notices (TaskHub).  A notice has the number of its turn, so the shown  *)
(* and the waiting ones of a browser are the numbers from its first on.    *)

\* The queue holds the numbers that follow what was handled.
Numbered ==
  /\ broadcast \in Seq(Nat) /\ sent \in Nat /\ handled \in Nat
  /\ handled + Len(broadcast) = sent
  /\ \A i \in 1 .. Len(broadcast) : broadcast[i] = handled + i

\* Who has not come yet has nothing, and who has is shown one number after the other.
Fresh(c) ==
  client[c].reader = "none" => /\ ~client[c].conn /\ c \notin clients
                               /\ send[c] = <<>> /\ received[c] = <<>>

\* What a browser has read and what waits for it follow its first notice.
Shown(c) ==
  client[c].conn =>
    /\ \A i \in 1 .. Len(received[c]) : received[c][i] = since[c] + i
    /\ \A i \in 1 .. Len(send[c]) : send[c][i] = since[c] + Len(received[c]) + i
    /\ c \in clients => since[c] + Len(received[c]) + Len(send[c]) = handled

\* What the hub keeps.
HubInv ==
  /\ W!TypeOK
  /\ send \in [Browsers -> Seq(Nat)] /\ received \in [Browsers -> Seq(Nat)]
  /\ since \in [Browsers -> Nat]
  /\ Numbered
  /\ \A c \in Browsers : Fresh(c) /\ Shown(c)

\* An element at the end of a sequence.
LEMMA AppendFacts ==
  ASSUME NEW S, NEW s \in Seq(S), NEW x \in S
  PROVE  /\ Append(s, x) \in Seq(S) /\ Len(s) \in Nat /\ Len(Append(s, x)) = Len(s) + 1
         /\ \A i \in 1 .. Len(s) : Append(s, x)[i] = s[i]
         /\ Append(s, x)[Len(s) + 1] = x
OBVIOUS

\* A sequence without its first element.
LEMMA TailFacts ==
  ASSUME NEW S, NEW s \in Seq(S), s # <<>>
  PROVE  /\ Head(s) = s[1] /\ Head(s) \in S /\ Len(s) \in Nat /\ Len(s) > 0
         /\ Tail(s) \in Seq(S) /\ Len(Tail(s)) = Len(s) - 1
         /\ \A i \in 1 .. Len(s) - 1 : Tail(s)[i] = s[i + 1]
OBVIOUS

\* The places of two sequences one behind the other.
LEMMA Shift ==
  ASSUME NEW t \in Nat, NEW r \in Nat, NEW n \in Nat
  PROVE  /\ t + r + n - t = r + n
         /\ t + (r + 1) + (n - 1) = t + r + n
         /\ \A i \in 1 .. r + n : i > r => i - r \in 1 .. n /\ t + r + (i - r) = t + i
OBVIOUS

\* A concatenation, place by place.
LEMMA ConcatIs ==
  ASSUME NEW S, NEW s \in Seq(S), NEW u \in Seq(S)
  PROVE  s \o u = [i \in 1 .. Len(s) + Len(u) |-> IF i <= Len(s) THEN s[i] ELSE u[i - Len(s)]]
<1> DEFINE q == s \o u
           m == Len(s) + Len(u)
<1>1. q \in Seq(S) /\ Len(q) = m /\ m \in Nat
  OBVIOUS
<1>2. q \in [1 .. m -> S]
  BY <1>1, LenProperties
<1>3. ASSUME NEW i \in 1 .. m PROVE q[i] = IF i <= Len(s) THEN s[i] ELSE u[i - Len(s)]
  OBVIOUS
<1> HIDE DEF q, m
<1>4. q = [i \in 1 .. m |-> q[i]]
  BY <1>2
<1>5. q = [i \in 1 .. m |-> IF i <= Len(s) THEN s[i] ELSE u[i - Len(s)]]
  BY <1>3, <1>4
<1> QED BY <1>5 DEF q, m

\* The hub starts without browsers.
LEMMA HubInit == W!Init => HubInv
<1> SUFFICES ASSUME W!Init PROVE HubInv
  OBVIOUS
<1> USE HubAssumption DEF W!Init
<1>1. W!TypeOK
  BY DEF W!TypeOK, W!ClientState
<1> QED BY <1>1 DEF HubInv, Numbered, Fresh, Shown

\* A notice is numbered and queued (BroadcastTaskStatus).
LEMMA BroadcastKeeps == HubInv /\ W!Broadcast => HubInv'
<1> SUFFICES ASSUME HubInv, W!Broadcast PROVE HubInv'
  OBVIOUS
<1> USE HubAssumption DEF HubInv, W!Broadcast
<1>1. broadcast \in Seq(Nat) /\ sent \in Nat /\ handled \in Nat
  BY DEF Numbered
<1>a. /\ broadcast' \in Seq(Nat) /\ Len(broadcast) \in Nat
      /\ Len(broadcast') = Len(broadcast) + 1
      /\ \A i \in 1 .. Len(broadcast) : broadcast'[i] = broadcast[i]
      /\ broadcast'[Len(broadcast) + 1] = sent + 1
  BY <1>1, AppendFacts
<1>2. Numbered'
  <2>1. ASSUME NEW i \in 1 .. Len(broadcast') PROVE broadcast'[i] = handled' + i
    <3>1. CASE i \in 1 .. Len(broadcast)
      BY <3>1, <1>a DEF Numbered
    <3>2. CASE i = Len(broadcast) + 1
      <4>1. PICK n \in Nat : n = Len(broadcast)
        BY <1>a
      <4>2. broadcast'[i] = sent + 1 /\ handled' = handled /\ handled + n = sent /\ i = n + 1
        BY <3>2, <4>1, <1>a DEF Numbered
      <4>3. handled \in Nat
        BY <1>1
      <4> HIDE DEF HubInv
      <4> QED BY <4>2, <4>3
    <3> QED BY <3>1, <3>2, <1>a
  <2> QED BY <1>1, <1>a, <2>1 DEF Numbered
<1>3. W!TypeOK'
  BY <1>1, <1>a DEF W!TypeOK
<1>4. \A c \in Browsers : Fresh(c)' /\ Shown(c)'
  BY DEF Fresh, Shown
<1> QED BY <1>2, <1>3, <1>4

\* A browser joins with the notices handed on so far behind it (register).
LEMMA RegisterKeeps == ASSUME NEW c \in Browsers, HubInv, W!Register(c) PROVE HubInv'
<1> USE HubAssumption DEF HubInv, W!Register
<1>1. Numbered'
  BY DEF Numbered
<1>2. W!TypeOK'
  BY DEF W!TypeOK, W!ClientState
<1>3. since' \in [Browsers -> Nat] /\ send' \in [Browsers -> Seq(Nat)] /\ received' \in [Browsers -> Seq(Nat)]
  BY DEF Numbered
<1>4. ASSUME NEW d \in Browsers PROVE Fresh(d)' /\ Shown(d)'
  <2>1. CASE d = c
    <3>1. send'[c] = <<>> /\ received'[c] = <<>> /\ since'[c] = handled /\ handled \in Nat
      BY <1>3 DEF Fresh, Numbered
    <3>2. client'[c].reader # "none"
      BY DEF W!TypeOK
    <3> QED BY <2>1, <3>1, <3>2 DEF Fresh, Shown
  <2>2. CASE d # c
    BY <2>2, <1>3 DEF Fresh, Shown, W!TypeOK, W!ClientState
  <2> QED BY <2>1, <2>2
<1> QED BY <1>1, <1>2, <1>3, <1>4

\* A browser that leaves loses what waits for it (unregister).
LEMMA UnregisterKeeps == ASSUME NEW c \in Browsers, HubInv, W!Unregister(c) PROVE HubInv'
<1> USE HubAssumption DEF HubInv, W!Unregister
<1>1. Numbered'
  BY DEF Numbered
<1>2. W!TypeOK'
  BY DEF W!TypeOK, W!ClientState
<1>4. ASSUME NEW d \in Browsers PROVE Fresh(d)' /\ Shown(d)'
  <2>1. CASE d = c
    BY <2>1 DEF Fresh, Shown, W!TypeOK, W!ClientState, Numbered
  <2>2. CASE d # c
    BY <2>2 DEF Fresh, Shown, W!TypeOK, W!ClientState
  <2> QED BY <2>1, <2>2
<1> QED BY <1>1, <1>2, <1>4

\* The hub hands a notice to every browser, or drops the one that is full (run).
LEMMA HandOnKeeps == HubInv /\ W!HandOn => HubInv'
<1> SUFFICES ASSUME HubInv, W!HandOn PROVE HubInv'
  OBVIOUS
<1> USE HubAssumption DEF HubInv, W!HandOn
<1>1. broadcast \in Seq(Nat) /\ Len(broadcast) > 0 /\ sent \in Nat /\ handled \in Nat
  BY DEF Numbered
<1>2. Head(broadcast) = handled + 1 /\ handled' = handled + 1
  BY <1>1 DEF Numbered
<1>a. /\ broadcast' \in Seq(Nat) /\ Len(broadcast') = Len(broadcast) - 1
      /\ \A i \in 1 .. Len(broadcast) - 1 : broadcast'[i] = broadcast[i + 1]
  BY <1>1, TailFacts
<1>3. Numbered'
  <2>1. ASSUME NEW i \in 1 .. Len(broadcast') PROVE broadcast'[i] = handled' + i
    BY <1>1, <1>2, <1>a DEF Numbered
  <2> QED BY <1>1, <1>2, <1>a, <2>1 DEF Numbered
<1>4. send' \in [Browsers -> Seq(Nat)]
  BY <1>1, <1>2
<1>5. ASSUME NEW c \in Browsers PROVE Len(send'[c]) <= SendSize
  BY <1>1, <1>2 DEF W!TypeOK, W!Full
<1>6. W!TypeOK'
  BY <1>1, <1>2, <1>3, <1>5 DEF W!TypeOK, W!Full, Numbered
<1>7. ASSUME NEW c \in Browsers PROVE Fresh(c)' /\ Shown(c)'
  <2>1. CASE c \in clients \ W!Full
    <3>1. send'[c] = Append(send[c], handled + 1) /\ send[c] \in Seq(Nat) /\ received[c] \in Seq(Nat) /\ since[c] \in Nat
      BY <2>1, <1>2
    <3>2. Fresh(c)'
      BY <2>1 DEF Fresh
    <3>4. /\ send'[c] \in Seq(Nat) /\ Len(send'[c]) = Len(send[c]) + 1
          /\ \A i \in 1 .. Len(send[c]) : send'[c][i] = send[c][i]
          /\ send'[c][Len(send[c]) + 1] = handled + 1
      BY <3>1, <1>1, AppendFacts
    <3>3. Shown(c)'
      <4>1. SUFFICES ASSUME client[c].conn
                     PROVE /\ \A i \in 1 .. Len(send'[c]) : send'[c][i] = since[c] + Len(received[c]) + i
                           /\ since[c] + Len(received[c]) + Len(send'[c]) = handled'
        BY DEF Shown
      <4>2. since[c] + Len(received[c]) + Len(send[c]) = handled
        BY <2>1, <4>1 DEF Shown
      <4>3. ASSUME NEW i \in 1 .. Len(send'[c]) PROVE send'[c][i] = since[c] + Len(received[c]) + i
        <5>1. CASE i \in 1 .. Len(send[c])
          BY <4>1, <5>1, <3>4 DEF Shown
        <5>2. CASE i = Len(send[c]) + 1
          BY <4>2, <5>2, <3>1, <3>4, <1>1
        <5> QED BY <5>1, <5>2, <3>1, <3>4
      <4> QED BY <4>2, <4>3, <3>1, <3>4, <1>1, <1>2
    <3> QED BY <3>2, <3>3
  <2>2. CASE c \notin clients \ W!Full
    <3>1. send'[c] = send[c] /\ c \notin clients'
      BY <2>2
    <3> QED BY <3>1 DEF Fresh, Shown
  <2> QED BY <2>1, <2>2
<1> QED BY <1>3, <1>4, <1>6, <1>7

\* A browser reads its notices in order (writePump).
LEMMA WritePumpKeeps == ASSUME NEW c \in Browsers, HubInv, W!WritePump(c) PROVE HubInv'
<1> USE HubAssumption DEF HubInv
<1>0. Numbered'
  BY DEF Numbered, W!WritePump
<1>1. CASE send[c] # <<>> /\ client[c].conn
  <2>1. /\ send' = [send EXCEPT ![c] = Tail(@)]
        /\ received' = [received EXCEPT ![c] = Append(@, Head(send[c]))]
        /\ UNCHANGED <<client, clients, broadcast, sent, handled, closed, since>>
    BY <1>1 DEF W!WritePump
  <2>2. send[c] \in Seq(Nat) /\ Len(send[c]) > 0 /\ received[c] \in Seq(Nat) /\ since[c] \in Nat
    BY <1>1
  <2>3. Head(send[c]) = since[c] + Len(received[c]) + 1
    BY <1>1, <2>2 DEF Shown
  <2>4. send' \in [Browsers -> Seq(Nat)] /\ received' \in [Browsers -> Seq(Nat)]
    BY <2>1, <2>2
  <2>5. W!TypeOK'
    BY <2>1, <2>2 DEF W!TypeOK
  <2>6. ASSUME NEW d \in Browsers PROVE Fresh(d)' /\ Shown(d)'
    <3>1. CASE d = c
      <4>1. /\ send'[c] = Tail(send[c]) /\ received'[c] = Append(received[c], Head(send[c]))
        BY <2>1
      <4>a. /\ Len(received[c]) \in Nat /\ Len(send[c]) \in Nat
            /\ Len(received'[c]) = Len(received[c]) + 1 /\ Len(send'[c]) = Len(send[c]) - 1
            /\ \A i \in 1 .. Len(received[c]) : received'[c][i] = received[c][i]
            /\ received'[c][Len(received[c]) + 1] = Head(send[c])
            /\ \A i \in 1 .. Len(send[c]) - 1 : send'[c][i] = send[c][i + 1]
        BY <4>1, <2>2, AppendFacts, TailFacts
      <4>b. ASSUME NEW i \in 1 .. Len(received'[c]) PROVE received'[c][i] = since[c] + i
        <5>1. CASE i \in 1 .. Len(received[c])
          BY <5>1, <4>a, <1>1 DEF Shown
        <5>2. CASE i = Len(received[c]) + 1
          BY <5>2, <4>a, <2>2, <2>3
        <5> QED BY <5>1, <5>2, <4>a, <2>2
      <4>d. PICK r \in Nat, n \in Nat, t \in Nat : r = Len(received[c]) /\ n = Len(send[c]) /\ t = since[c]
        BY <4>a, <2>2
      <4>e. Len(received'[c]) = r + 1 /\ Len(send'[c]) = n - 1 /\ n > 0
        BY <4>a, <4>d, <2>2
      <4>c. ASSUME NEW i \in 1 .. Len(send'[c])
            PROVE send'[c][i] = since[c] + Len(received'[c]) + i
        <5>1. i \in 1 .. n - 1 /\ i + 1 \in 1 .. n
          BY <4>e, <4>d
        <5>2. send'[c][i] = send[c][i + 1] /\ send[c][i + 1] = t + r + (i + 1)
          BY <5>1, <4>a, <4>d, <1>1 DEF Shown
        <5>3. t + r + (i + 1) = t + (r + 1) + i
          BY <5>1, <4>d
        <5> QED BY <5>2, <5>3, <4>d, <4>e
      <4>f. c \in clients => since[c] + Len(received'[c]) + Len(send'[c]) = handled
        <5>1. t + (r + 1) + (n - 1) = t + r + n
          BY Shift
        <5> QED BY <5>1, <4>d, <4>e, <1>1 DEF Shown
      <4>2. Shown(c)'
        BY <4>b, <4>c, <4>f, <2>1 DEF Shown
      <4> QED BY <3>1, <4>2, <1>1, <2>1 DEF Fresh
    <3>2. CASE d # c
      BY <3>2, <2>1 DEF Fresh, Shown
    <3> QED BY <3>1, <3>2
  <2> QED BY <1>0, <2>1, <2>4, <2>5, <2>6
<1>2. CASE send[c] # <<>> /\ ~client[c].conn
  <2>1. /\ send' = [send EXCEPT ![c] = Tail(@)]
        /\ client' = [client EXCEPT ![c].writer = "done"]
        /\ UNCHANGED <<received, clients, broadcast, sent, handled, closed, since>>
    BY <1>2 DEF W!WritePump
  <2>2. send[c] \in Seq(Nat) /\ Len(send[c]) > 0
    BY <1>2
  <2>4. send' \in [Browsers -> Seq(Nat)]
    BY <2>1, <2>2
  <2>a. client' \in [Browsers -> W!ClientState]
    BY <2>1 DEF W!TypeOK, W!ClientState
  <2>5. W!TypeOK'
    BY <2>1, <2>2, <2>a DEF W!TypeOK
  <2>6. ASSUME NEW d \in Browsers PROVE Fresh(d)' /\ Shown(d)'
    BY <1>2, <2>1 DEF Fresh, Shown, W!TypeOK, W!ClientState
  <2> QED BY <1>0, <2>1, <2>4, <2>5, <2>6
<1>3. CASE send[c] = <<>>
  <2>1. /\ client' = [client EXCEPT ![c].writer = "done", ![c].conn = FALSE]
        /\ UNCHANGED <<send, received, clients, broadcast, sent, handled, closed, since>>
    BY <1>3 DEF W!WritePump
  <2>2. W!TypeOK'
    BY <2>1 DEF W!TypeOK, W!ClientState
  <2>a. ASSUME NEW d \in Browsers
        PROVE /\ client'[d].reader = "none" => client[d].reader = "none"
              /\ client'[d].conn => client[d].conn
    BY <2>1 DEF W!TypeOK, W!ClientState
  <2>3. ASSUME NEW d \in Browsers PROVE Fresh(d)' /\ Shown(d)'
    BY <2>1, <2>a DEF Fresh, Shown
  <2> QED BY <1>0, <2>1, <2>2, <2>3
<1> QED BY <1>1, <1>2, <1>3

\* A socket ends under either pump (readPump).
LEMMA SocketEndsKeeps == ASSUME NEW c \in Browsers, HubInv, W!ReadPump(c) \/ W!Disconnect(c) PROVE HubInv'
<1> USE HubAssumption DEF HubInv, W!ReadPump, W!Disconnect
<1>1. Numbered'
  BY DEF Numbered
<1>2. client' \in [Browsers -> W!ClientState]
  <2>1. CASE W!ReadPump(c)
    BY <2>1 DEF W!TypeOK, W!ClientState
  <2>2. CASE W!Disconnect(c)
    BY <2>2 DEF W!TypeOK, W!ClientState
  <2> QED BY <2>1, <2>2
<1>3. UNCHANGED <<clients, broadcast, sent, handled, send, closed, since, received>>
  OBVIOUS
<1>4. W!TypeOK'
  BY <1>2, <1>3 DEF W!TypeOK
<1>5. ASSUME NEW d \in Browsers
      PROVE /\ client'[d].reader = "none" => client[d].reader = "none"
            /\ client'[d].conn => client[d].conn
  <2>1. CASE W!ReadPump(c)
    BY <2>1 DEF W!TypeOK, W!ClientState
  <2>2. CASE W!Disconnect(c)
    BY <2>2 DEF W!TypeOK, W!ClientState
  <2> QED BY <2>1, <2>2
<1>6. ASSUME NEW d \in Browsers PROVE Fresh(d)' /\ Shown(d)'
  BY <1>3, <1>5 DEF Fresh, Shown, W!TypeOK, W!ClientState
<1> QED BY <1>1, <1>3, <1>4, <1>6

\* Every step of the hub keeps its invariant.
LEMMA HubNext == HubInv /\ [W!Next]_(W!vars) => HubInv'
<1> SUFFICES ASSUME HubInv, [W!Next]_(W!vars) PROVE HubInv'
  OBVIOUS
<1>1. CASE UNCHANGED W!vars
  BY <1>1 DEF W!vars, HubInv, W!TypeOK, Numbered, Fresh, Shown
<1> QED BY <1>1, BroadcastKeeps, HandOnKeeps, RegisterKeeps, UnregisterKeeps, WritePumpKeeps,
   SocketEndsKeeps DEF W!Next

\* A browser misses no notice between two that it is shown.
LEMMA HubShows == HubInv => W!NoGaps
<1> SUFFICES ASSUME HubInv, NEW c \in Browsers, client[c].conn
             PROVE LET upto == since[c] + Len(received[c]) + Len(send[c])
                   IN /\ received[c] \o send[c] = [i \in 1 .. upto - since[c] |-> since[c] + i]
                      /\ c \in clients => upto = handled
  BY DEF W!NoGaps
<1>1. received[c] \in Seq(Nat) /\ send[c] \in Seq(Nat) /\ since[c] \in Nat /\ Shown(c)
      /\ Len(received[c]) \in Nat /\ Len(send[c]) \in Nat
  BY DEF HubInv
<1>2. PICK r \in Nat, n \in Nat, t \in Nat : r = Len(received[c]) /\ n = Len(send[c]) /\ t = since[c]
  BY <1>1
<1>3. t + r + n - t = r + n
  BY Shift
<1>4. received[c] \o send[c] = [i \in 1 .. r + n |-> IF i <= r THEN received[c][i] ELSE send[c][i - r]]
  <2>1. ASSUME NEW s \in Seq(Nat), NEW u \in Seq(Nat), r = Len(s), n = Len(u)
        PROVE  s \o u = [i \in 1 .. r + n |-> IF i <= r THEN s[i] ELSE u[i - r]]
    BY <2>1, ConcatIs
  <2> QED BY <1>1, <1>2, <2>1
<1>5. ASSUME NEW i \in 1 .. r + n
      PROVE (IF i <= r THEN received[c][i] ELSE send[c][i - r]) = t + i
  <2>1. CASE i <= r
    BY <2>1, <1>1, <1>2 DEF Shown
  <2>2. CASE i > r
    <3>1. i - r \in 1 .. n /\ t + r + (i - r) = t + i
      BY <2>2, Shift
    <3>2. send[c][i - r] = t + r + (i - r)
      BY <3>1, <1>1, <1>2 DEF Shown
    <3> QED BY <3>1, <3>2, <2>2, <1>2
  <2> QED BY <2>1, <2>2, <1>2
<1>6. received[c] \o send[c] = [i \in 1 .. r + n |-> t + i]
  BY <1>4, <1>5
<1>7. c \in clients => t + r + n = handled
  BY <1>1, <1>2 DEF Shown
<1>8. LET upto == t + r + n
      IN /\ received[c] \o send[c] = [i \in 1 .. upto - t |-> t + i]
         /\ c \in clients => upto = handled
  BY <1>3, <1>6, <1>7
<1> QED BY <1>2, <1>8

-----------------------------------------------------------------------------
(* ssh over QUIC (SSHConnections).  Who holds a connection's mutex stands  *)
(* between its Lock and its Unlock, and nobody else does.                  *)

\* The calls that have opened a connection.
Openers == {d \in SshCalls : sshCall[d].conn # 0 /\ sshPlan[d] \in {"connect", "oneshot"}}

\* Where a call of the manager can stand.
Positions == {"idle", "handshake", "save", "lock", "run", "running", "hangup", "unlock", "clear", "done"}

\* Where a call holds the mutex of a connection.
Holding == {"run", "running", "hangup", "unlock"}

\* The types, with the calls' positions.
SshTyped ==
  /\ H!TypeOK
  /\ sshPlan \in [SshCalls -> H!Operations]
  /\ sshCall \in [SshCalls -> [pc : Positions, conn : {0} \cup H!Conns]]

\* Every connection that is in use was opened by one of the calls so far.
Opened ==
  /\ sshListed <= Cardinality(Openers)
  /\ \A c \in SshCalls : sshCall[c].conn <= Cardinality(Openers)

\* A one-shot command has its connection for itself.
OwnConnection ==
  \A c \in SshCalls : sshPlan[c] = "oneshot" /\ sshCall[c].conn # 0 =>
    sshListed # sshCall[c].conn /\ \A d \in SshCalls \ {c} : sshCall[d].conn # sshCall[c].conn

\* Who uses a connection of the map holds its mutex.
HoldersSound ==
  \A c \in SshCalls :
    /\ sshCall[c].pc = "idle" => sshCall[c].conn = 0
    /\ sshCall[c].pc = "handshake" => sshPlan[c] \in {"connect", "oneshot"}
    /\ sshCall[c].pc = "save" => sshPlan[c] = "connect"
    /\ sshCall[c].pc \in Holding \cup {"handshake", "save", "lock"} => sshCall[c].conn \in H!Conns
    /\ sshCall[c].pc \in Holding /\ sshPlan[c] # "oneshot" => holder[sshCall[c].conn] = c

\* Stop cancels the context before anything else.
StopCancels == stopper # "idle" => device.cancelled

\* What the ssh manager and the client's ssh server keep.
SshInv ==
  /\ SshTyped
  /\ Opened
  /\ OwnConnection
  /\ HoldersSound
  /\ StopCancels
  /\ H!NothingRunsAfterStop

\* Connections are counted.
LEMMA OpenersFinite == IsFiniteSet(Openers) /\ Cardinality(Openers) \in Nat
<1>1. Openers \subseteq SshCalls
  BY DEF Openers
<1> QED BY <1>1, SshAssumption, FS_Subset, FS_CardinalityType

\* No call has begun, and no connection is open.
LEMMA SshInit == H!Init => SshInv
<1> SUFFICES ASSUME H!Init PROVE SshInv
  OBVIOUS
<1> USE SshAssumption DEF H!Init
<1>1. SshTyped
  BY DEF SshTyped, H!TypeOK, Positions, H!Jobs
<1>2. Openers = {}
  BY DEF Openers
<1>3. Opened
  BY <1>2, FS_EmptySet DEF Opened
<1>4. OwnConnection /\ HoldersSound /\ StopCancels /\ H!NothingRunsAfterStop
  BY DEF OwnConnection, HoldersSound, StopCancels, H!NothingRunsAfterStop, Holding
<1> QED BY <1>1, <1>3, <1>4 DEF SshInv

\* A step that leaves the openers as they were, and gives nobody a connection that was
\* not in use or the map's.
LEMMA SameOpeners ==
  ASSUME SshInv, SshTyped', UNCHANGED sshPlan, NEW c \in SshCalls,
         \A d \in SshCalls \ {c} : sshCall'[d] = sshCall[d],
         \/ sshCall'[c].conn = sshCall[c].conn
         \/ sshCall'[c].conn = sshListed /\ sshPlan[c] \notin {"connect", "oneshot"},
         \/ sshListed' \in {0, sshListed}
         \/ sshListed' = sshCall[c].conn /\ sshPlan[c] = "connect"
  PROVE  Opened' /\ OwnConnection'
<1>1. Openers' = Openers
  BY DEF Openers, SshInv, SshTyped
<1>2. Cardinality(Openers) \in Nat
  BY OpenersFinite
<1>3. Opened'
  <2>1. \A d \in SshCalls : sshCall'[d].conn <= Cardinality(Openers)
    BY <1>2 DEF SshInv, SshTyped, Opened
  <2>2. sshListed' <= Cardinality(Openers)
    BY <1>2 DEF SshInv, SshTyped, Opened
  <2> QED BY <1>1, <2>1, <2>2 DEF Opened
<1>4. OwnConnection'
  <2>1. SUFFICES ASSUME NEW o \in SshCalls, sshPlan[o] = "oneshot", sshCall'[o].conn # 0
                 PROVE  sshListed' # sshCall'[o].conn /\ \A d \in SshCalls \ {o} : sshCall'[d].conn # sshCall'[o].conn
    BY DEF OwnConnection
  <2>2. sshCall'[o].conn = sshCall[o].conn
    BY <2>1
  <2>3. sshListed # sshCall[o].conn /\ \A d \in SshCalls \ {o} : sshCall[d].conn # sshCall[o].conn
    BY <2>1, <2>2 DEF SshInv, OwnConnection
  <2>4. sshListed' # sshCall[o].conn
    BY <2>1, <2>2, <2>3
  <2>5. ASSUME NEW d \in SshCalls \ {o} PROVE sshCall'[d].conn # sshCall[o].conn
    BY <2>3
  <2> QED BY <2>2, <2>4, <2>5
<1> QED BY <1>3, <1>4

\* A call opens the next connection (Connect, ExecuteCommandOneShot).
LEMMA OpenKeeps == ASSUME SshInv, NEW c \in SshCalls, H!Open(c) PROVE SshInv'
<1> USE SshAssumption
<1>0. /\ sshCall \in [SshCalls -> [pc : Positions, conn : {0} \cup H!Conns]] /\ sshCall[c].pc = "idle"
      /\ UNCHANGED <<sshPlan, sshListed, sshMu, holder, served, sshJob, device, stopper>>
      /\ sshPlan[c] \in {"connect", "oneshot"}
  BY DEF SshInv, SshTyped, H!Open, H!At, H!deviceVars
<1>1. sshCall[c].conn = 0
  BY <1>0 DEF SshInv, HoldersSound
<1>2. CASE sshPlan[c] = "connect" /\ sshListed # 0
  <2>1. sshCall' = [sshCall EXCEPT ![c] = [pc |-> "done", conn |-> 0]] /\ UNCHANGED up
    BY <1>2 DEF H!Open, H!Go
  <2>2. SshTyped'
    BY <1>0, <2>1 DEF SshInv, SshTyped, H!TypeOK, Positions
  <2>3. Opened' /\ OwnConnection'
    BY <1>0, <1>1, <2>1, <2>2, SameOpeners
  <2>4. HoldersSound'
    BY <1>0, <2>1 DEF SshInv, HoldersSound, Holding
  <2> QED BY <1>0, <2>2, <2>3, <2>4 DEF SshInv, StopCancels, H!NothingRunsAfterStop
<1>3. CASE ~(sshPlan[c] = "connect" /\ sshListed # 0)
  <2> DEFINE k == Cardinality(Openers)
  <2>0. k \in Nat /\ IsFiniteSet(Openers) /\ c \notin Openers
    BY <1>1, OpenersFinite DEF Openers
  <2>1. sshCall' = [sshCall EXCEPT ![c] = [pc |-> "handshake", conn |-> 1 + k]]
        /\ up' = [up EXCEPT ![1 + k] = TRUE]
    BY <1>3, SameCount DEF H!Open, H!Go, Openers
  <2>2. 1 + k \in H!Conns
    <3>1. Openers \cup {c} \subseteq SshCalls
      BY DEF Openers
    <3>2. Cardinality(Openers \cup {c}) = k + 1
      BY <2>0, FS_AddElement
    <3>3. k + 1 <= Cardinality(SshCalls) /\ Cardinality(SshCalls) \in Nat
      BY <3>1, <3>2, FS_Subset, FS_CardinalityType
    <3> QED BY <2>0, <3>3, SameCount DEF H!Conns
  <2> HIDE DEF k
  <2>3. SshTyped'
    BY <1>0, <2>0, <2>1, <2>2 DEF SshInv, SshTyped, H!TypeOK, Positions
  <2>4. Openers' = Openers \cup {c}
    BY <1>0, <2>0, <2>1 DEF Openers
  <2>5. Cardinality(Openers') = k + 1
    BY <2>0, <2>4, FS_AddElement DEF k
  <2>6. /\ sshListed <= k /\ \A d \in SshCalls : sshCall[d].conn <= k
        /\ sshListed \in {0} \cup H!Conns /\ \A d \in SshCalls : sshCall[d].conn \in {0} \cup H!Conns
    BY DEF k, SshInv, Opened, SshTyped, H!TypeOK
  <2>7. /\ sshCall'[c].conn = 1 + k /\ sshListed # 1 + k
        /\ \A d \in SshCalls \ {c} : sshCall'[d] = sshCall[d] /\ sshCall[d].conn # 1 + k
    BY <1>0, <2>0, <2>1, <2>6 DEF H!Conns
  <2>8. Opened'
    BY <1>0, <2>0, <2>5, <2>6, <2>7 DEF Opened, H!Conns
  <2>9. OwnConnection'
    BY <1>0, <2>7 DEF SshInv, OwnConnection
  <2>10. HoldersSound'
    BY <1>0, <2>1, <2>2 DEF SshInv, HoldersSound, Holding
  <2> QED BY <1>0, <2>3, <2>8, <2>9, <2>10 DEF SshInv, StopCancels, H!NothingRunsAfterStop
<1> QED BY <1>2, <1>3

\* The steps of a call that keep its connection, and change the mutex of no other.
LEMMA MovesOn ==
  ASSUME SshInv, SshTyped', NEW c \in SshCalls, NEW pc \in Positions,
         sshCall' = [sshCall EXCEPT ![c] = [pc |-> pc, conn |-> sshCall[c].conn]],
         UNCHANGED <<sshPlan, holder>>, sshListed' \in {0, sshListed} \/ (sshListed' = sshCall[c].conn /\ sshPlan[c] = "connect"),
         pc \notin {"idle", "handshake"}, sshCall[c].pc # "idle", pc = "save" => sshPlan[c] = "connect",
         pc \in Holding \cup {"handshake", "save", "lock"} =>
           sshCall[c].pc \in Holding \cup {"handshake", "save", "lock"},
         pc \in Holding /\ sshPlan[c] # "oneshot" => sshCall[c].pc \in Holding
  PROVE  Opened' /\ OwnConnection' /\ HoldersSound'
<1>1. sshCall \in [SshCalls -> [pc : Positions, conn : {0} \cup H!Conns]]
  BY DEF SshInv, SshTyped
<1>2. Opened' /\ OwnConnection'
  BY <1>1, SameOpeners
<1>3. HoldersSound'
  BY <1>1 DEF SshInv, HoldersSound
<1> QED BY <1>2, <1>3

\* The handshake succeeds or fails (Connect).
LEMMA HandshakeKeeps == ASSUME SshInv, NEW c \in SshCalls, H!Handshake(c) PROVE SshInv'
<1>0. /\ sshCall \in [SshCalls -> [pc : Positions, conn : {0} \cup H!Conns]] /\ sshCall[c].pc = "handshake"
      /\ UNCHANGED <<sshPlan, sshListed, sshMu, holder, up, sshJob, device, stopper>>
      /\ sshCall[c].conn \in H!Conns
  BY DEF SshInv, SshTyped, H!Handshake, HoldersSound
<1>1. PICK pc \in {"done", "save", "run"} :
        sshCall' = [sshCall EXCEPT ![c] = [pc |-> pc, conn |-> sshCall[c].conn]] /\ (pc = "run" => sshPlan[c] = "oneshot")
          /\ (pc = "save" => sshPlan[c] = "connect")
  BY DEF H!Handshake, H!Go, SshInv, HoldersSound
<1>2. SshTyped'
  <2>1. served' \in [H!Conns -> {"none", "checked", "handshake", "listed", "gone"}]
    BY DEF H!Handshake, SshInv, SshTyped, H!TypeOK
  <2> QED BY <1>0, <1>1, <2>1 DEF SshInv, SshTyped, H!TypeOK, Positions
<1>3. Opened' /\ OwnConnection' /\ HoldersSound'
  BY <1>0, <1>1, <1>2, MovesOn DEF Holding, Positions
<1> QED BY <1>0, <1>2, <1>3 DEF SshInv, StopCancels, H!NothingRunsAfterStop

\* Connect lists its connection, or finds another one listed.
LEMMA SaveConnectionKeeps == ASSUME SshInv, NEW c \in SshCalls, H!SaveConnection(c) PROVE SshInv'
<1>0. /\ sshCall \in [SshCalls -> [pc : Positions, conn : {0} \cup H!Conns]] /\ sshCall[c].pc = "save"
      /\ UNCHANGED <<sshPlan, sshMu, holder, up, served, sshJob, device, stopper>>
      /\ sshListed' = sshCall[c].conn /\ sshCall[c].conn \in H!Conns /\ sshPlan[c] = "connect"
      /\ sshCall' = [sshCall EXCEPT ![c] = [pc |-> "done", conn |-> sshCall[c].conn]]
  BY DEF SshInv, SshTyped, H!SaveConnection, HoldersSound, H!deviceVars, H!Go
<1>1. SshTyped'
  BY <1>0 DEF SshInv, SshTyped, H!TypeOK, Positions
<1>2. Opened' /\ OwnConnection' /\ HoldersSound'
  BY <1>0, <1>1, MovesOn DEF Holding, Positions
<1> QED BY <1>0, <1>1, <1>2 DEF SshInv, StopCancels, H!NothingRunsAfterStop

\* A call of the manager takes the connection of the map.
LEMMA LooksUp ==
  ASSUME SshInv, NEW c \in SshCalls, NEW pc \in {"done", "clear", "lock"},
         sshCall' = [sshCall EXCEPT ![c] = [pc |-> pc, conn |-> sshListed]], sshCall[c].pc = "idle",
         pc = "lock" => sshListed # 0, sshPlan[c] \notin {"connect", "oneshot"},
         UNCHANGED <<sshPlan, holder, up, served, sshJob, device, stopper>>,
         sshListed' \in {0, sshListed}, sshMu' \in {sshMu, c}
  PROVE  SshInv'
<1>0. sshCall \in [SshCalls -> [pc : Positions, conn : {0} \cup H!Conns]] /\ sshListed \in {0} \cup H!Conns
  BY DEF SshInv, SshTyped, H!TypeOK
<1>1. SshTyped'
  BY <1>0 DEF SshInv, SshTyped, H!TypeOK, Positions
<1>2. Opened' /\ OwnConnection'
  BY <1>0, <1>1, SameOpeners
<1>3. HoldersSound'
  BY <1>0 DEF SshInv, HoldersSound, Holding
<1> QED BY <1>1, <1>2, <1>3 DEF SshInv, StopCancels, H!NothingRunsAfterStop

\* A call looks the connection up; Disconnect takes it out, Close takes the
\* mutex.
LEMMA FindKeeps == ASSUME SshInv, NEW c \in SshCalls, H!Find(c) \/ H!Close(c) PROVE SshInv'
<1>1. CASE H!Find(c)
  BY <1>1, LooksUp DEF H!Find, H!At, H!Go, H!deviceVars
<1>2. CASE H!Close(c)
  BY <1>2, LooksUp DEF H!Close, H!At, H!Go, H!deviceVars
<1> QED BY <1>1, <1>2

\* A call waits for the mutex of the connection.
LEMMA LockClientKeeps == ASSUME SshInv, NEW c \in SshCalls, H!LockClient(c) PROVE SshInv'
<1> DEFINE n == sshCall[c].conn
<1>0. /\ sshCall \in [SshCalls -> [pc : Positions, conn : {0} \cup H!Conns]] /\ sshCall[c].pc = "lock"
      /\ UNCHANGED <<sshPlan, sshListed, sshMu, up, served, sshJob, device, stopper>>
      /\ n \in H!Conns /\ holder[n] = H!Nobody /\ holder' = [holder EXCEPT ![n] = c]
      /\ holder \in [H!Conns -> SshCalls \cup {H!Nobody}]
  BY DEF SshInv, SshTyped, H!TypeOK, H!LockClient, HoldersSound, H!deviceVars
<1>1. PICK pc \in {"hangup", "run"} : sshCall' = [sshCall EXCEPT ![c] = [pc |-> pc, conn |-> n]]
  BY DEF H!LockClient, H!Go
<1>2. SshTyped'
  BY <1>0, <1>1 DEF SshInv, SshTyped, H!TypeOK, Positions
<1>3. Opened' /\ OwnConnection'
  BY <1>0, <1>1, <1>2, SameOpeners
<1>4. HoldersSound'
  <2>1. ASSUME NEW d \in SshCalls, d # c
        PROVE  sshCall[d].pc \in Holding /\ sshPlan[d] # "oneshot" => holder'[sshCall[d].conn] = d
    BY <1>0, <2>1, SshAssumption DEF SshInv, HoldersSound
  <2>2. holder'[n] = c
    BY <1>0
  <2> QED BY <1>0, <1>1, <2>1, <2>2 DEF SshInv, HoldersSound, Holding
<1> QED BY <1>0, <1>2, <1>3, <1>4 DEF SshInv, StopCancels, H!NothingRunsAfterStop

\* A command or a shell is asked for on the connection.
LEMMA RunKeeps == ASSUME SshInv, NEW c \in SshCalls, H!Run(c) PROVE SshInv'
<1> DEFINE n == sshCall[c].conn
<1>0. /\ sshCall \in [SshCalls -> [pc : Positions, conn : {0} \cup H!Conns]] /\ sshCall[c].pc = "run"
      /\ UNCHANGED <<sshPlan, sshListed, sshMu, holder, up, served, device, stopper>>
      /\ sshJob' \in {sshJob, [sshJob EXCEPT ![n] = "asked"]} /\ sshJob \in [H!Conns -> H!Jobs]
  BY DEF SshInv, SshTyped, H!TypeOK, H!Run
<1>1. PICK pc \in {"running", "unlock"} : sshCall' = [sshCall EXCEPT ![c] = [pc |-> pc, conn |-> n]]
  BY DEF H!Run, H!Go
<1>a. sshJob' \in [H!Conns -> H!Jobs] /\ \A m \in H!Conns : sshJob'[m] = "running" => sshJob[m] = "running"
  BY <1>0 DEF H!Jobs
<1>2. SshTyped'
  BY <1>0, <1>1, <1>a DEF SshInv, SshTyped, H!TypeOK, Positions
<1>3. Opened' /\ OwnConnection' /\ HoldersSound'
  BY <1>0, <1>1, <1>2, MovesOn DEF Holding, Positions
<1> QED BY <1>0, <1>2, <1>3, <1>a DEF SshInv, StopCancels, H!NothingRunsAfterStop

\* A command ends, or a call hangs up.
LEMMA FinishedKeeps == ASSUME SshInv, NEW c \in SshCalls, H!Finished(c) \/ H!HangUp(c) PROVE SshInv'
<1> DEFINE n == sshCall[c].conn
<1>0. /\ sshCall \in [SshCalls -> [pc : Positions, conn : {0} \cup H!Conns]]
      /\ sshCall[c].pc \in {"running", "hangup"}
      /\ UNCHANGED <<sshPlan, sshListed, sshMu, holder, served, sshJob, device, stopper>>
      /\ up' \in [H!Conns -> BOOLEAN]
  <2>1. up \in [H!Conns -> BOOLEAN] /\ sshCall \in [SshCalls -> [pc : Positions, conn : {0} \cup H!Conns]]
    BY DEF SshInv, SshTyped, H!TypeOK
  <2>2. CASE H!Finished(c)
    BY <2>1, <2>2 DEF H!Finished, H!deviceVars
  <2>3. CASE H!HangUp(c)
    BY <2>1, <2>3 DEF H!HangUp, H!deviceVars
  <2> QED BY <2>2, <2>3
<1>1. PICK pc \in {"hangup", "unlock"} : sshCall' = [sshCall EXCEPT ![c] = [pc |-> pc, conn |-> n]]
  BY DEF H!Finished, H!HangUp, H!Go
<1>2. SshTyped'
  BY <1>0, <1>1 DEF SshInv, SshTyped, H!TypeOK, Positions
<1>3. Opened' /\ OwnConnection' /\ HoldersSound'
  BY <1>0, <1>1, <1>2, MovesOn DEF Holding, Positions
<1> QED BY <1>0, <1>2, <1>3 DEF SshInv, StopCancels, H!NothingRunsAfterStop

\* A call gives the mutex of the connection back.
LEMMA UnlockKeeps == ASSUME SshInv, NEW c \in SshCalls, H!Unlock(c) PROVE SshInv'
<1> DEFINE n == sshCall[c].conn
<1>0. /\ sshCall \in [SshCalls -> [pc : Positions, conn : {0} \cup H!Conns]] /\ sshCall[c].pc = "unlock"
      /\ UNCHANGED <<sshPlan, sshListed, sshMu, up, served, sshJob, device, stopper>>
      /\ n \in H!Conns /\ holder' = [holder EXCEPT ![n] = IF holder[n] = c THEN H!Nobody ELSE holder[n]]
      /\ holder \in [H!Conns -> SshCalls \cup {H!Nobody}]
  BY DEF SshInv, SshTyped, H!TypeOK, H!Unlock, HoldersSound, H!deviceVars, Holding
<1>1. PICK pc \in {"clear", "done"} : sshCall' = [sshCall EXCEPT ![c] = [pc |-> pc, conn |-> n]]
  BY DEF H!Unlock, H!Go
<1>2. SshTyped'
  BY <1>0, <1>1 DEF SshInv, SshTyped, H!TypeOK, Positions
<1>3. Opened' /\ OwnConnection'
  BY <1>0, <1>1, <1>2, SameOpeners
<1>4. HoldersSound'
  <2>1. ASSUME NEW d \in SshCalls, d # c
        PROVE  sshCall[d].pc \in Holding /\ sshPlan[d] # "oneshot" => holder'[sshCall[d].conn] = d
    BY <1>0, <2>1 DEF SshInv, HoldersSound
  <2> QED BY <1>0, <1>1, <2>1 DEF SshInv, HoldersSound, Holding
<1> QED BY <1>0, <1>2, <1>3, <1>4 DEF SshInv, StopCancels, H!NothingRunsAfterStop

\* Close empties the map and gives the manager's mutex back.
LEMMA ClearKeeps == ASSUME SshInv, NEW c \in SshCalls, H!Clear(c) PROVE SshInv'
<1>0. /\ sshCall \in [SshCalls -> [pc : Positions, conn : {0} \cup H!Conns]] /\ sshCall[c].pc = "clear"
      /\ UNCHANGED <<sshPlan, holder, up, served, sshJob, device, stopper>>
      /\ sshListed' = 0 /\ sshMu' = H!Nobody
      /\ sshCall' = [sshCall EXCEPT ![c] = [pc |-> "done", conn |-> sshCall[c].conn]]
  BY DEF SshInv, SshTyped, H!Clear, H!deviceVars, H!Go
<1>1. SshTyped'
  BY <1>0 DEF SshInv, SshTyped, H!TypeOK, Positions
<1>2. Opened' /\ OwnConnection' /\ HoldersSound'
  BY <1>0, <1>1, MovesOn DEF Holding, Positions
<1> QED BY <1>0, <1>1, <1>2 DEF SshInv, StopCancels, H!NothingRunsAfterStop

\* What the client and the network do leaves the manager alone.
LEMMA DeviceKeeps ==
  ASSUME SshInv, UNCHANGED H!managerVars, H!TypeOK', StopCancels', H!NothingRunsAfterStop'
  PROVE  SshInv'
<1>1. Openers' = Openers
  BY DEF Openers, H!managerVars
<1>2. SshTyped' /\ Opened' /\ OwnConnection' /\ HoldersSound'
  BY <1>1 DEF SshInv, SshTyped, Opened, OwnConnection, HoldersSound, H!managerVars
<1> QED BY <1>2 DEF SshInv

\* The client serves a stream, or loses it (HandleStream).
LEMMA DeviceStepKeeps == ASSUME SshInv, NEW n \in H!Conns, H!DeviceStep(n) \/ H!Lose(n) PROVE SshInv'
<1> USE DEF SshInv, SshTyped, H!TypeOK, StopCancels, H!NothingRunsAfterStop, H!managerVars, H!Jobs
<1>1. CASE H!HandleStream(n)
  <2>1. up' \in [H!Conns -> BOOLEAN] /\ served' \in [H!Conns -> {"none", "checked", "handshake", "listed", "gone"}]
    BY <1>1 DEF H!HandleStream
  <2> QED BY <1>1, <2>1, DeviceKeeps DEF H!HandleStream
<1>2. CASE H!StartHandshake(n)
  BY <1>2, DeviceKeeps DEF H!StartHandshake
<1>3. CASE H!StartJob(n)
  BY <1>3, DeviceKeeps DEF H!StartJob
<1>4. CASE H!EndJob(n)
  BY <1>4, DeviceKeeps DEF H!EndJob
<1>5. CASE H!EndSession(n)
  BY <1>5, DeviceKeeps DEF H!EndSession
<1>6. CASE H!Lose(n)
  BY <1>6, DeviceKeeps DEF H!Lose
<1> QED BY <1>1, <1>2, <1>3, <1>4, <1>5, <1>6 DEF H!DeviceStep

\* Stop and Start of the client's ssh server.
LEMMA StopperKeeps == SshInv /\ (H!Stop \/ H!CloseSessions \/ H!Stopped \/ H!Start) => SshInv'
<1> SUFFICES ASSUME SshInv, H!Stop \/ H!CloseSessions \/ H!Stopped \/ H!Start PROVE SshInv'
  OBVIOUS
<1> USE DEF SshInv, SshTyped, H!TypeOK, StopCancels, H!NothingRunsAfterStop, H!managerVars
<1>1. CASE H!Stop
  BY <1>1, DeviceKeeps DEF H!Stop
<1>2. CASE H!CloseSessions
  BY <1>2, DeviceKeeps DEF H!CloseSessions
<1>3. CASE H!Stopped
  BY <1>3, DeviceKeeps DEF H!Stopped
<1>4. CASE H!Start
  BY <1>4, DeviceKeeps DEF H!Start
<1> QED BY <1>1, <1>2, <1>3, <1>4

\* Every step of the manager and of the client keeps the invariant.
LEMMA SshNext == SshInv /\ [H!Next]_(H!vars) => SshInv'
<1> SUFFICES ASSUME SshInv, [H!Next]_(H!vars) PROVE SshInv'
  OBVIOUS
<1>1. ASSUME NEW c \in SshCalls, H!ManagerStep(c) PROVE SshInv'
  BY <1>1, OpenKeeps, HandshakeKeeps, SaveConnectionKeeps, FindKeeps, LockClientKeeps, RunKeeps,
     FinishedKeeps, UnlockKeeps, ClearKeeps DEF H!ManagerStep
<1>2. CASE UNCHANGED H!vars
  <2>1. H!TypeOK' /\ StopCancels' /\ H!NothingRunsAfterStop'
    BY <1>2 DEF SshInv, SshTyped, H!TypeOK, StopCancels, H!NothingRunsAfterStop, H!vars
  <2> QED BY <1>2, <2>1, DeviceKeeps DEF H!vars, H!managerVars
<1> QED BY <1>1, <1>2, DeviceStepKeeps, StopperKeeps DEF H!Next

\* Two calls are never at work on one connection.
LEMMA SshExcludes ==
  ASSUME SshInv, NEW c \in SshCalls, NEW d \in SshCalls \ {c}, sshCall[c].pc = "running", sshCall[d].pc = "hangup"
  PROVE  sshCall[d].conn # sshCall[c].conn
<1>1. sshCall[c].conn \in H!Conns /\ sshCall[d].conn \in H!Conns
  BY DEF SshInv, HoldersSound, Holding
<1>2. CASE sshPlan[c] = "oneshot" \/ sshPlan[d] = "oneshot"
  BY <1>1, <1>2 DEF SshInv, OwnConnection, H!Conns
<1>3. CASE sshPlan[c] # "oneshot" /\ sshPlan[d] # "oneshot"
  BY <1>3 DEF SshInv, HoldersSound, Holding
<1> QED BY <1>2, <1>3

-----------------------------------------------------------------------------
(* Terminals (TerminalSessions).  Whoever waits for a cleanup has left one *)
(* that somebody is to do.                                                 *)

\* The types of the PTY sessions.
PtyTyped ==
  /\ terminalListed \subseteq Terminals
  /\ shell \in [Terminals -> {"none", "running", "ended"}]
  /\ marked \in [Terminals -> BOOLEAN] /\ done \in [Terminals -> BOOLEAN]
  /\ cleanup \in [Terminals -> {"none", "wait", "done", "unlist", "close", "end"}]
  /\ cleaned \in [Terminals -> BOOLEAN] /\ remote \in [Terminals -> BOOLEAN]
  /\ closer \in [Terminals \X P!Closers ->
                   {"idle", "take", "mark", "close", "wait", "waitcleaned", "end"}]

\* The types of the bridge to the browser.
BridgeTyped ==
  /\ storeKind \in StoreKinds
  /\ handler \in [Terminals -> {"idle", "lookup", "loop", "finish", "close", "done"}]
  /\ socket \in [Terminals -> BOOLEAN] /\ sessions \subseteq Terminals

\* The types of the command log.
AuditTyped ==
  /\ buffer \in [Terminals -> BOOLEAN] /\ typed \in [Terminals -> 0 .. MaxLines]
  /\ saving \subseteq [term : Terminals, line : Nat]
  /\ cancelled \in [Terminals -> BOOLEAN] /\ log \in [Terminals -> SUBSET Nat]
  /\ recording \in [Terminals -> {"none", "open", "saved"}]

\* How far the cleanup of a PTY session is, and who is to end its shell.
Cleaning(t) ==
  /\ handler[t] = "idle" => cleanup[t] = "none"
  /\ handler[t] \in {"idle", "lookup", "loop", "finish"} => closer[<<t, "handler">>] = "idle"
  /\ cleanup[t] = "none" => t \notin terminalListed /\ ~marked[t]
  /\ cleanup[t] = "end" => cleaned[t]
  /\ cleanup[t] = "wait" /\ marked[t] =>
       shell[t] = "ended" \/ \E q \in P!Closers : closer[<<t, q>>] = "close"

\* A caller of ClosePTYSession that waits has left a cleanup to do.
Closing(t, p) ==
  /\ closer[<<t, p>>] \in {"mark", "close", "wait", "waitcleaned"} => cleanup[t] # "none"
  /\ closer[<<t, p>>] \in {"close", "wait", "waitcleaned"} => marked[t]

\* What terminals keep.
TerminalInv ==
  /\ PtyTyped /\ BridgeTyped /\ AuditTyped
  /\ \A t \in Terminals : Cleaning(t) /\ \A p \in P!Closers : Closing(t, p)
  /\ P!CommandsAreLogged

\* No terminal is open.
LEMMA TerminalInit == P!Init => TerminalInv
BY TerminalAssumption DEF P!Init, TerminalInv, PtyTyped, BridgeTyped, AuditTyped, Cleaning,
   Closing, P!CommandsAreLogged, P!Closers

\* A step of the PTY sessions, and one that leaves them alone.
LEMMA PtyKeeps ==
  ASSUME TerminalInv, UNCHANGED <<storeKind, buffer, typed, saving, log>>,
         PtyTyped', BridgeTyped', cancelled' \in [Terminals -> BOOLEAN],
         \A t \in Terminals : cancelled[t] => cancelled'[t],
         recording' \in [Terminals -> {"none", "open", "saved"}],
         \A t \in Terminals : Cleaning(t)' /\ \A p \in P!Closers : Closing(t, p)'
  PROVE  TerminalInv'
<1>1. AuditTyped'
  BY DEF TerminalInv, AuditTyped
<1>2. P!CommandsAreLogged'
  BY DEF TerminalInv, P!CommandsAreLogged
<1> QED BY <1>1, <1>2 DEF TerminalInv

\* A terminal starts, or its shell does not (StartPTYSession).
LEMMA StartKeeps ==
  ASSUME TerminalInv, NEW t \in Terminals, P!StartPTYSession(t)
  PROVE  TerminalInv'
<1>1. PtyTyped' /\ BridgeTyped'
  BY DEF TerminalInv, PtyTyped, BridgeTyped, P!StartPTYSession
<1>2. ASSUME NEW u \in Terminals PROVE Cleaning(u)' /\ \A p \in P!Closers : Closing(u, p)'
  <2>1. Cleaning(u) /\ (\A p \in P!Closers : Closing(u, p)) /\ PtyTyped /\ BridgeTyped
    BY DEF TerminalInv
  <2>2. CASE handler'[t] = "done"
    <3>1. UNCHANGED <<terminalListed, shell, cleanup, marked, cleaned, closer>>
          /\ (handler'[u] = "idle" => handler[u] = "idle")
          /\ (handler'[u] \in {"idle", "lookup", "loop", "finish"} => handler[u] \in {"idle", "lookup", "loop", "finish"})
      BY <2>1, <2>2 DEF P!StartPTYSession, BridgeTyped
    <3> QED BY <2>1, <3>1 DEF Cleaning, Closing
  <2>3. CASE handler'[t] # "done"
    <3>1. /\ u # t => (u \in terminalListed' <=> u \in terminalListed) /\ cleanup'[u] = cleanup[u] /\ shell'[u] = shell[u]
                       /\ handler'[u] = handler[u]
          /\ cleanup'[t] = "wait" /\ handler'[t] = "lookup" /\ handler[t] = "idle"
          /\ UNCHANGED <<marked, cleaned, closer>>
      BY <2>1, <2>3 DEF P!StartPTYSession, BridgeTyped, PtyTyped
    <3> QED BY <2>1, <3>1 DEF Cleaning, Closing
  <2> QED BY <2>2, <2>3
<1> QED BY <1>1, <1>2, PtyKeeps DEF P!StartPTYSession, P!auditVars, TerminalInv, AuditTyped

\* A closer is a pair of a terminal and a caller.
LEMMA CloserIs ==
  ASSUME TerminalInv, NEW t \in Terminals, NEW p \in P!Closers,
         NEW s \in {"idle", "take", "mark", "close", "wait", "waitcleaned", "end"},
         closer' = [closer EXCEPT ![<<t, p>>] = s]
  PROVE  /\ closer' \in [Terminals \X P!Closers ->
                           {"idle", "take", "mark", "close", "wait", "waitcleaned", "end"}]
         /\ closer'[<<t, p>>] = s
         /\ \A u \in Terminals, q \in P!Closers : <<u, q>> # <<t, p>> => closer'[<<u, q>>] = closer[<<u, q>>]
BY DEF TerminalInv, PtyTyped

\* A caller sets out, or is done, without a close under way.
LEMMA CallerMoves ==
  ASSUME TerminalInv, NEW t \in Terminals, NEW p \in P!Closers, NEW s \in {"take", "end", "wait", "mark", "waitcleaned"},
         closer' = [closer EXCEPT ![<<t, p>>] = s],
         closer[<<t, p>>] = "close" => shell'[t] = "ended",
         s = "mark" => cleanup[t] # "none",
         s = "wait" => closer[<<t, p>>] \in {"close", "wait"},
         s = "waitcleaned" => cleanup[t] # "none" /\ marked[t],
         p = "handler" => handler'[t] \in {"close", "done"},
         \A u \in Terminals : /\ handler'[u] = "idle" => handler[u] = "idle"
                              /\ u # t => handler'[u] = handler[u],
         p # "handler" => handler' = handler,
         UNCHANGED <<marked, cleanup, cleaned>>, terminalListed' \subseteq terminalListed,
         \A u \in Terminals : shell[u] = "ended" => shell'[u] = "ended"
  PROVE  \A u \in Terminals : Cleaning(u)' /\ \A q \in P!Closers : Closing(u, q)'
<1> SUFFICES ASSUME NEW u \in Terminals PROVE Cleaning(u)' /\ \A q \in P!Closers : Closing(u, q)'
  OBVIOUS
<1>1. /\ closer'[<<t, p>>] = s
      /\ \A v \in Terminals, q \in P!Closers : <<v, q>> # <<t, p>> => closer'[<<v, q>>] = closer[<<v, q>>]
  BY CloserIs
<1>2. Cleaning(u) /\ (\A q \in P!Closers : Closing(u, q)) /\ Closing(t, p) /\ "handler" \in P!Closers
  BY DEF TerminalInv, P!Closers
<1>3. ASSUME NEW q \in P!Closers PROVE Closing(u, q)'
  BY <1>1, <1>2 DEF Closing
<1>4. handler'[u] \in {"idle", "lookup", "loop", "finish"} => closer'[<<u, "handler">>] = "idle"
  BY <1>1, <1>2 DEF Cleaning
<1>5. cleanup'[u] = "wait" /\ marked'[u] =>
       shell'[u] = "ended" \/ \E q \in P!Closers : closer'[<<u, q>>] = "close"
  BY <1>1, <1>2 DEF Cleaning
<1> QED BY <1>2, <1>3, <1>4, <1>5 DEF Cleaning

\* A step that leaves callers, marks and cleanups alone.
LEMMA HandlerMoves ==
  ASSUME TerminalInv, UNCHANGED <<terminalListed, marked, cleanup, cleaned, closer>>,
         \A u \in Terminals : shell[u] = "ended" => shell'[u] = "ended",
         \A u \in Terminals : /\ handler'[u] = "idle" => handler[u] = "idle"
                              /\ handler'[u] \in {"lookup", "loop", "finish"} =>
                                   handler[u] \in {"lookup", "loop", "finish"}
  PROVE  \A u \in Terminals : Cleaning(u)' /\ \A q \in P!Closers : Closing(u, q)'
<1> SUFFICES ASSUME NEW u \in Terminals PROVE Cleaning(u)' /\ \A q \in P!Closers : Closing(u, q)'
  OBVIOUS
<1>1. Cleaning(u) /\ (\A q \in P!Closers : Closing(u, q))
  BY DEF TerminalInv
<1> QED BY <1>1 DEF Cleaning, Closing

\* The handler of the browser looks the session up, leaves and cleans up.
LEMMA HandlerKeeps ==
  ASSUME TerminalInv, NEW t \in Terminals, P!LookUp(t) \/ P!Leave(t) \/ P!Finish(t) \/ P!Return(t)
  PROVE  TerminalInv'
<1>0. PtyTyped /\ BridgeTyped /\ AuditTyped /\ Cleaning(t) /\ "handler" \in P!Closers
  BY DEF TerminalInv, P!Closers
<1>1. CASE P!LookUp(t) /\ t \in terminalListed
  <2>1. PtyTyped' /\ BridgeTyped' /\ recording' \in [Terminals -> {"none", "open", "saved"}]
    BY <1>0, <1>1 DEF PtyTyped, BridgeTyped, AuditTyped, P!LookUp
  <2>2. \A u \in Terminals : /\ handler'[u] = "idle" => handler[u] = "idle"
                             /\ handler'[u] \in {"lookup", "loop", "finish"} =>
                                  handler[u] \in {"lookup", "loop", "finish"}
    BY <1>0, <1>1 DEF P!LookUp, BridgeTyped
  <2>3. \A u \in Terminals : Cleaning(u)' /\ \A q \in P!Closers : Closing(u, q)'
    BY <1>1, <2>2, HandlerMoves DEF P!LookUp
  <2> QED BY <1>0, <1>1, <2>1, <2>3, PtyKeeps DEF P!LookUp, AuditTyped
<1>2. CASE P!LookUp(t) /\ t \notin terminalListed
  <2>1. closer' = [closer EXCEPT ![<<t, "handler">>] = "take"] /\ closer[<<t, "handler">>] = "idle"
    BY <1>0, <1>2 DEF P!LookUp, Cleaning
  <2>2. PtyTyped' /\ BridgeTyped'
    <3>1. PtyTyped'
      BY <1>0, <1>2, <2>1, CloserIs DEF PtyTyped, P!LookUp
    <3>2. BridgeTyped'
      BY <1>0, <1>2 DEF BridgeTyped, P!LookUp
    <3> QED BY <3>1, <3>2
  <2>3. handler'[t] = "close" /\ \A u \in Terminals : u # t => handler'[u] = handler[u]
    BY <1>0, <1>2 DEF P!LookUp, BridgeTyped
  <2>4. \A u \in Terminals : Cleaning(u)' /\ \A q \in P!Closers : Closing(u, q)'
    BY <1>0, <1>2, <2>1, <2>3, CallerMoves DEF P!LookUp
  <2> QED BY <1>0, <1>2, <2>2, <2>4, PtyKeeps DEF P!LookUp, AuditTyped
<1>3. CASE P!Leave(t)
  <2>1. PtyTyped' /\ BridgeTyped'
    BY <1>0, <1>3 DEF PtyTyped, BridgeTyped, P!Leave, P!ptyVars
  <2>2. \A u \in Terminals : /\ handler'[u] = "idle" => handler[u] = "idle"
                             /\ handler'[u] \in {"lookup", "loop", "finish"} =>
                                  handler[u] \in {"lookup", "loop", "finish"}
    BY <1>0, <1>3 DEF P!Leave, BridgeTyped
  <2>3. \A u \in Terminals : Cleaning(u)' /\ \A q \in P!Closers : Closing(u, q)'
    BY <1>3, <2>2, HandlerMoves DEF P!Leave, P!ptyVars
  <2> QED BY <1>0, <1>3, <2>1, <2>3, PtyKeeps DEF P!Leave, P!auditVars, AuditTyped
<1>4. CASE P!Finish(t)
  <2>1. closer' = [closer EXCEPT ![<<t, "handler">>] = "take"] /\ closer[<<t, "handler">>] = "idle"
    BY <1>0, <1>4 DEF P!Finish, Cleaning
  <2>2. PtyTyped' /\ BridgeTyped' /\ cancelled' \in [Terminals -> BOOLEAN]
        /\ recording' \in [Terminals -> {"none", "open", "saved"}]
        /\ \A u \in Terminals : cancelled[u] => cancelled'[u]
    <3>1. PtyTyped'
      BY <1>0, <1>4, <2>1, CloserIs DEF PtyTyped, P!Finish
    <3>2. BridgeTyped'
      BY <1>0, <1>4 DEF BridgeTyped, P!Finish
    <3>3. cancelled' \in [Terminals -> BOOLEAN]
          /\ recording' \in [Terminals -> {"none", "open", "saved"}]
          /\ \A u \in Terminals : cancelled[u] => cancelled'[u]
      BY <1>0, <1>4 DEF AuditTyped, P!Finish
    <3> QED BY <3>1, <3>2, <3>3
  <2>3. handler'[t] = "close" /\ \A u \in Terminals : u # t => handler'[u] = handler[u]
    BY <1>0, <1>4 DEF P!Finish, BridgeTyped
  <2>4. \A u \in Terminals : Cleaning(u)' /\ \A q \in P!Closers : Closing(u, q)'
    BY <1>0, <1>4, <2>1, <2>3, CallerMoves DEF P!Finish
  <2> QED BY <1>0, <1>4, <2>2, <2>4, PtyKeeps DEF P!Finish
<1>5. CASE P!Return(t)
  <2>1. PtyTyped' /\ BridgeTyped'
    BY <1>0, <1>5 DEF PtyTyped, BridgeTyped, P!Return, P!ptyVars
  <2>2. \A u \in Terminals : /\ handler'[u] = "idle" => handler[u] = "idle"
                             /\ handler'[u] \in {"lookup", "loop", "finish"} =>
                                  handler[u] \in {"lookup", "loop", "finish"}
    BY <1>0, <1>5 DEF P!Return, BridgeTyped
  <2>3. \A u \in Terminals : Cleaning(u)' /\ \A q \in P!Closers : Closing(u, q)'
    BY <1>5, <2>2, HandlerMoves DEF P!Return, P!ptyVars
  <2> QED BY <1>0, <1>5, <2>1, <2>3, PtyKeeps DEF P!Return, P!auditVars, AuditTyped
<1> QED BY <1>1, <1>2, <1>3, <1>4, <1>5

\* A caller of ClosePTYSession goes on to the next part of it.
LEMMA CallersKeep ==
  ASSUME TerminalInv, NEW t \in Terminals, NEW p \in P!Closers,
         (p = "operator" /\ P!CloseSession(t)) \/ P!Take(t, p) \/ P!CloseShell(t, p) \/ P!Wait(t, p)
  PROVE  TerminalInv'
<1>0. /\ PtyTyped /\ BridgeTyped /\ AuditTyped /\ Cleaning(t) /\ Closing(t, p)
      /\ p = "handler" \/ p = "operator"
      /\ closer[<<t, p>>] # "idle" /\ p = "handler" => handler[t] \in {"close", "done"}
  BY DEF TerminalInv, P!Closers, Cleaning, BridgeTyped
<1> DEFINE s == IF P!CloseSession(t) /\ p = "operator" THEN "take" ELSE closer'[<<t, p>>]
<1>1. CASE p = "operator" /\ P!CloseSession(t)
  <2>1. closer' = [closer EXCEPT ![<<t, p>>] = "take"] /\ closer[<<t, p>>] = "idle"
    BY <1>1 DEF P!CloseSession
  <2>2. PtyTyped'
    BY <1>0, <1>1, <2>1, CloserIs DEF PtyTyped, P!CloseSession
  <2>3. BridgeTyped'
    BY <1>0, <1>1 DEF BridgeTyped, P!CloseSession
  <2>4. \A u \in Terminals : Cleaning(u)' /\ \A q \in P!Closers : Closing(u, q)'
    BY <1>0, <1>1, <2>1, CallerMoves DEF P!CloseSession
  <2> QED BY <1>0, <1>1, <2>2, <2>3, <2>4, PtyKeeps DEF P!CloseSession, P!auditVars, AuditTyped
<1>2. CASE P!Take(t, p) /\ t \in terminalListed
  <2>1. closer' = [closer EXCEPT ![<<t, p>>] = "mark"] /\ closer[<<t, p>>] = "take"
    BY <1>2 DEF P!Take, P!Step
  <2>2. PtyTyped'
    BY <1>0, <1>2, <2>1, CloserIs DEF PtyTyped, P!Take
  <2>3. BridgeTyped'
    BY <1>0, <1>2 DEF BridgeTyped, P!Take
  <2>4. \A u \in Terminals : Cleaning(u)' /\ \A q \in P!Closers : Closing(u, q)'
    BY <1>0, <1>2, <2>1, CallerMoves DEF P!Take, Cleaning
  <2> QED BY <1>0, <1>2, <2>2, <2>3, <2>4, PtyKeeps DEF P!Take, P!auditVars, AuditTyped
<1>3. CASE P!Take(t, p) /\ t \notin terminalListed
  <2>1. closer' = [closer EXCEPT ![<<t, p>>] = "end"] /\ closer[<<t, p>>] = "take"
    BY <1>3 DEF P!Take, P!Step
  <2>2. PtyTyped'
    BY <1>0, <1>3, <2>1, CloserIs DEF PtyTyped, P!Take
  <2>3. BridgeTyped'
    BY <1>0, <1>3 DEF BridgeTyped, P!Take
  <2>4. \A u \in Terminals : Cleaning(u)' /\ \A q \in P!Closers : Closing(u, q)'
    BY <1>0, <1>3, <2>1, CallerMoves DEF P!Take
  <2> QED BY <1>0, <1>3, <2>2, <2>3, <2>4, PtyKeeps DEF P!Take, P!auditVars, AuditTyped
<1>4. CASE P!CloseShell(t, p)
  <2>1. closer' = [closer EXCEPT ![<<t, p>>] = "wait"] /\ closer[<<t, p>>] = "close"
        /\ shell'[t] = "ended" /\ \A u \in Terminals : shell[u] = "ended" => shell'[u] = "ended"
    BY <1>0, <1>4 DEF P!CloseShell, P!Step, PtyTyped
  <2>2. PtyTyped'
    BY <1>0, <1>4, <2>1, CloserIs DEF PtyTyped, P!CloseShell
  <2>3. BridgeTyped'
    BY <1>0, <1>4 DEF BridgeTyped, P!CloseShell
  <2>4. \A u \in Terminals : Cleaning(u)' /\ \A q \in P!Closers : Closing(u, q)'
    BY <1>0, <1>4, <2>1, CallerMoves DEF P!CloseShell
  <2> QED BY <1>0, <1>4, <2>2, <2>3, <2>4, PtyKeeps DEF P!CloseShell, P!auditVars, AuditTyped
<1>5. CASE P!Wait(t, p)
  <2>1. closer' = [closer EXCEPT ![<<t, p>>] = "end"] /\ closer[<<t, p>>] \in {"wait", "waitcleaned"}
    BY <1>5 DEF P!Wait, P!Step
  <2>2. PtyTyped'
    <3>1. closer' \in [Terminals \X P!Closers ->
                         {"idle", "take", "mark", "close", "wait", "waitcleaned", "end"}]
      BY <2>1, CloserIs
    <3>2. remote' \in [Terminals -> BOOLEAN]
      BY <1>0, <1>5 DEF PtyTyped, P!Wait
    <3> QED BY <1>0, <1>5, <3>1, <3>2 DEF PtyTyped, P!Wait
  <2>3. BridgeTyped'
    BY <1>0, <1>5 DEF BridgeTyped, P!Wait
  <2>4. \A u \in Terminals : Cleaning(u)' /\ \A q \in P!Closers : Closing(u, q)'
    BY <1>0, <1>5, <2>1, CallerMoves DEF P!Wait
  <2> QED BY <1>0, <1>5, <2>2, <2>3, <2>4, PtyKeeps DEF P!Wait, P!auditVars, AuditTyped
<1> QED BY <1>1, <1>2, <1>3, <1>4, <1>5

\* One of the callers marks the session as closed.
LEMMA MarkKeeps ==
  ASSUME TerminalInv, NEW t \in Terminals, NEW p \in P!Closers, P!Mark(t, p)
  PROVE  TerminalInv'
<1>0. /\ PtyTyped /\ BridgeTyped /\ AuditTyped /\ Cleaning(t) /\ Closing(t, p)
      /\ closer[<<t, p>>] = "mark" /\ p = "handler" => handler[t] \in {"close", "done"}
  BY DEF TerminalInv, P!Closers, Cleaning, BridgeTyped
<1>1. CASE marked[t]
  <2>1. closer' = [closer EXCEPT ![<<t, p>>] = "waitcleaned"] /\ closer[<<t, p>>] = "mark" /\ marked' = marked
    BY <1>0, <1>1 DEF P!Mark, P!Step, PtyTyped
  <2>2. PtyTyped' /\ BridgeTyped'
    <3>1. PtyTyped'
      BY <1>0, <2>1, CloserIs DEF PtyTyped, P!Mark
    <3> QED BY <1>0, <3>1 DEF BridgeTyped, P!Mark
  <2>3. \A u \in Terminals : Cleaning(u)' /\ \A q \in P!Closers : Closing(u, q)'
    BY <1>0, <1>1, <2>1, CallerMoves DEF P!Mark, Closing
  <2> QED BY <1>0, <2>2, <2>3, PtyKeeps DEF P!Mark, P!auditVars, AuditTyped
<1>2. CASE ~marked[t]
  <2>1. closer' = [closer EXCEPT ![<<t, p>>] = "close"] /\ closer[<<t, p>>] = "mark"
    BY <1>2 DEF P!Mark, P!Step
  <2>2. /\ closer'[<<t, p>>] = "close"
        /\ \A u \in Terminals, q \in P!Closers : <<u, q>> # <<t, p>> => closer'[<<u, q>>] = closer[<<u, q>>]
    BY <2>1, CloserIs
  <2>3. marked'[t] /\ \A u \in Terminals : u # t => marked'[u] = marked[u]
    BY <1>0 DEF P!Mark, PtyTyped
  <2>4. PtyTyped' /\ BridgeTyped'
    <3>1. PtyTyped'
      BY <1>0, <2>1, CloserIs DEF PtyTyped, P!Mark
    <3> QED BY <1>0, <3>1 DEF BridgeTyped, P!Mark
  <2>5. ASSUME NEW u \in Terminals PROVE Cleaning(u)' /\ \A q \in P!Closers : Closing(u, q)'
    <3>1. Cleaning(u) /\ (\A q \in P!Closers : Closing(u, q)) /\ "handler" \in P!Closers
      BY DEF TerminalInv, P!Closers
    <3>2. UNCHANGED <<handler, terminalListed, cleanup, cleaned, shell>>
      BY DEF P!Mark
    <3>3. ASSUME NEW q \in P!Closers PROVE Closing(u, q)'
      BY <1>0, <2>1, <2>2, <2>3, <3>1, <3>2 DEF Closing
    <3>4. handler'[u] \in {"idle", "lookup", "loop", "finish"} => closer'[<<u, "handler">>] = "idle"
      BY <1>0, <2>1, <2>2, <3>1, <3>2 DEF Cleaning
    <3>5. cleanup'[u] = "wait" /\ marked'[u] =>
            shell'[u] = "ended" \/ \E q \in P!Closers : closer'[<<u, q>>] = "close"
      BY <2>1, <2>2, <2>3, <3>1, <3>2 DEF Cleaning
    <3>6. cleanup'[u] = "none" => u \notin terminalListed' /\ ~marked'[u]
      BY <1>0, <2>1, <2>3, <3>1, <3>2 DEF Cleaning, Closing
    <3> QED BY <3>1, <3>2, <3>3, <3>4, <3>5, <3>6 DEF Cleaning
  <2> QED BY <1>0, <2>4, <2>5, PtyKeeps DEF P!Mark, P!auditVars, AuditTyped
<1> QED BY <1>1, <1>2

\* The cleanup of the session itself (cleanup).
LEMMA CleanUpKeeps ==
  ASSUME TerminalInv, NEW t \in Terminals, P!CleanUp(t)
  PROVE  TerminalInv'
<1>0. PtyTyped /\ BridgeTyped /\ AuditTyped
  BY DEF TerminalInv
<1>1. PtyTyped' /\ BridgeTyped'
  <2>1. PtyTyped'
    <3>1. CASE P!ShellReaped(t)
      BY <1>0, <3>1 DEF PtyTyped, P!CleanUp, P!ShellReaped
    <3>2. CASE P!Clean(t)
      BY <1>0, <3>2 DEF PtyTyped, P!CleanUp, P!Clean
    <3> QED BY <3>1, <3>2 DEF P!CleanUp
  <2> QED BY <1>0, <2>1 DEF BridgeTyped, P!CleanUp
<1>2. ASSUME NEW u \in Terminals PROVE Cleaning(u)' /\ \A q \in P!Closers : Closing(u, q)'
  <2>1. Cleaning(u) /\ (\A q \in P!Closers : Closing(u, q)) /\ Cleaning(t)
    BY DEF TerminalInv
  <2>2. UNCHANGED <<handler, closer, shell>>
    BY DEF P!CleanUp
  <2>3. CASE P!ShellReaped(t)
    BY <1>0, <2>1, <2>2, <2>3 DEF Cleaning, Closing, P!ShellReaped, PtyTyped
  <2>4. CASE P!Clean(t)
    BY <1>0, <2>1, <2>2, <2>4 DEF Cleaning, Closing, P!Clean, PtyTyped
  <2> QED BY <2>3, <2>4 DEF P!CleanUp
<1> QED BY <1>0, <1>1, <1>2, PtyKeeps DEF P!CleanUp, P!auditVars, AuditTyped

\* The user types and the shell answers.
LEMMA UserKeeps ==
  ASSUME TerminalInv, NEW t \in Terminals, P!User(t)
  PROVE  TerminalInv'
<1>0. PtyTyped /\ BridgeTyped /\ AuditTyped /\ P!CommandsAreLogged
  BY DEF TerminalInv
<1>1. PtyTyped' /\ BridgeTyped'
  BY <1>0 DEF PtyTyped, BridgeTyped, P!User, P!TypeText, P!Clear, P!Enter, P!Hangup,
     P!ShellEnds, P!ptyVars
<1>2. \A u \in Terminals : Cleaning(u)' /\ \A q \in P!Closers : Closing(u, q)'
  <2>1. UNCHANGED <<handler, terminalListed, marked, cleanup, cleaned, closer>>
    BY DEF P!User, P!TypeText, P!Clear, P!Enter, P!Hangup, P!ShellEnds, P!ptyVars
  <2>2. \A u \in Terminals : shell[u] = "ended" => shell'[u] = "ended"
    BY <1>0 DEF PtyTyped, P!User, P!TypeText, P!Clear, P!Enter, P!Hangup, P!ShellEnds, P!ptyVars
  <2> QED BY <2>1, <2>2, HandlerMoves
<1>3. AuditTyped' /\ P!CommandsAreLogged'
  <2>1. CASE UNCHANGED <<storeKind, typed, saving, cancelled, log,
                         recording>> /\ buffer' \in [Terminals -> BOOLEAN]
    BY <1>0, <2>1 DEF AuditTyped, P!CommandsAreLogged
  <2>2. CASE P!Enter(t)
    <3>1. typed[t] \in Nat /\ typed[t] + 1 \in 0 .. MaxLines
      BY <1>0, <2>2, TerminalAssumption DEF AuditTyped, P!Enter
    <3>2. AuditTyped'
      BY <1>0, <2>2, <3>1 DEF AuditTyped, P!Enter
    <3>3. ASSUME NEW u \in Terminals, storeKind # "none", NEW n \in 1 .. typed'[u]
          PROVE  n \in log[u] \/ [term |-> u, line |-> n] \in saving' \/ (storeKind = "postgres" /\ cancelled[u])
      <4>1. CASE u = t /\ n = typed[t] + 1
        BY <2>2, <4>1 DEF P!Enter
      <4>2. CASE ~(u = t /\ n = typed[t] + 1)
        <5>1. n \in 1 .. typed[u]
          BY <1>0, <2>2, <3>1, <3>3, <4>2, TerminalAssumption DEF AuditTyped, P!Enter
        <5> QED BY <1>0, <2>2, <3>3, <5>1 DEF P!CommandsAreLogged, P!Enter
      <4> QED BY <4>1, <4>2
    <3>4. P!CommandsAreLogged'
      BY <2>2, <3>3 DEF P!CommandsAreLogged, P!Enter
    <3> QED BY <3>2, <3>4
  <2> QED BY <1>0, <2>1, <2>2 DEF P!User, P!TypeText, P!Clear, P!Hangup, P!ShellEnds,
     P!auditVars, AuditTyped
<1> QED BY <1>1, <1>2, <1>3 DEF TerminalInv

\* A command line on its way is stored (saveCommand).
LEMMA SaveKeeps ==
  ASSUME TerminalInv, P!Save
  PROVE  TerminalInv'
<1>0. PtyTyped /\ BridgeTyped /\ AuditTyped /\ P!CommandsAreLogged
  BY DEF TerminalInv
<1>1. PtyTyped' /\ BridgeTyped'
  BY <1>0 DEF PtyTyped, BridgeTyped, P!Save, P!ptyVars
<1>2. \A u \in Terminals : Cleaning(u)' /\ \A q \in P!Closers : Closing(u, q)'
  BY HandlerMoves DEF P!Save, P!ptyVars
<1>3. PICK s \in saving : P!SaveCommand(s)
  BY DEF P!Save
<1>4. s.term \in Terminals /\ s.line \in Nat /\ s = [term |-> s.term, line |-> s.line]
  BY <1>0, <1>3 DEF AuditTyped
<1>5. AuditTyped'
  BY <1>0, <1>3, <1>4 DEF AuditTyped, P!Save, P!SaveCommand
<1>6. ASSUME NEW u \in Terminals, storeKind # "none", NEW n \in 1 .. typed[u]
      PROVE  n \in log'[u] \/ [term |-> u, line |-> n] \in saving' \/ (storeKind = "postgres" /\ cancelled[u])
  <2>1. n \in log[u] \/ [term |-> u, line |-> n] \in saving \/ (storeKind = "postgres" /\ cancelled[u])
    BY <1>0, <1>6 DEF P!CommandsAreLogged
  <2>2. \A v \in Terminals : log[v] \subseteq log'[v]
    BY <1>0, <1>3, <1>4 DEF P!SaveCommand, AuditTyped
  <2>3. CASE s = [term |-> u, line |-> n]
    BY <1>0, <1>3, <2>3 DEF P!SaveCommand, AuditTyped
  <2>4. CASE s # [term |-> u, line |-> n]
    BY <1>3, <2>1, <2>2, <2>4 DEF P!SaveCommand
  <2> QED BY <2>3, <2>4
<1>7. P!CommandsAreLogged'
  BY <1>6 DEF P!CommandsAreLogged, P!Save
<1> QED BY <1>1, <1>2, <1>5, <1>7 DEF TerminalInv

\* Every step of a terminal keeps the invariant.
LEMMA TerminalNext == TerminalInv /\ [P!Next]_(P!vars) => TerminalInv'
<1> SUFFICES ASSUME TerminalInv, [P!Next]_(P!vars) PROVE TerminalInv'
  OBVIOUS
<1>1. CASE UNCHANGED P!vars
  <2>1. /\ UNCHANGED <<storeKind, handler, socket, sessions>>
        /\ UNCHANGED <<terminalListed, shell, marked, done, cleanup, cleaned, remote, closer>>
        /\ UNCHANGED <<buffer, typed, saving, cancelled, log, recording>>
    BY <1>1 DEF P!vars, P!ptyVars, P!auditVars
  <2>2. \A u \in Terminals : Cleaning(u)' /\ \A q \in P!Closers : Closing(u, q)'
    BY <2>1, HandlerMoves
  <2> QED BY <2>1, <2>2 DEF TerminalInv, PtyTyped, BridgeTyped, AuditTyped, P!CommandsAreLogged
<1>2. ASSUME NEW t \in Terminals, P!HandlerStep(t) PROVE TerminalInv'
  BY <1>2, StartKeeps, HandlerKeeps DEF P!HandlerStep
<1>3. ASSUME NEW t \in Terminals, P!CloseSession(t) PROVE TerminalInv'
  BY <1>3, CallersKeep DEF P!Closers
<1>4. ASSUME NEW t \in Terminals, NEW p \in P!Closers, P!CloserStep(t, p) PROVE TerminalInv'
  BY <1>4, CallersKeep, MarkKeeps DEF P!CloserStep
<1> QED BY <1>1, <1>2, <1>3, <1>4, UserKeeps, CleanUpKeeps, SaveKeeps DEF P!Next

\* What the invariant says of who waits and of the log.
LEMMA TerminalShows == TerminalInv => P!TypeOK /\ P!WaitersAreServed /\ P!CommandsAreLogged
<1> SUFFICES ASSUME TerminalInv PROVE P!TypeOK /\ P!WaitersAreServed
  BY DEF TerminalInv
<1>1. P!TypeOK
  BY DEF TerminalInv, PtyTyped, BridgeTyped, AuditTyped, P!TypeOK
<1>2. P!WaitersAreServed
  <2>1. SUFFICES ASSUME NEW t \in Terminals, NEW p \in P!Closers, closer[<<t, p>>] = "waitcleaned"
                 PROVE  \/ cleaned[t]
                        \/ cleanup[t] \in {"done", "unlist", "close"}
                        \/ /\ cleanup[t] = "wait"
                           /\ shell[t] = "ended" \/ \E q \in P!Closers : closer[<<t, q>>] = "close"
    BY DEF P!WaitersAreServed
  <2>2. Cleaning(t) /\ Closing(t, p)
        /\ cleanup[t] \in {"none", "wait", "done", "unlist", "close", "end"}
    BY DEF TerminalInv, PtyTyped
  <2> QED BY <2>1, <2>2 DEF Cleaning, Closing
<1> QED BY <1>1, <1>2

-----------------------------------------------------------------------------
(* The audit log (AuditStores).  No line is younger than its file says,    *)
(* and no cutoff has passed a line of the days to keep.                    *)

\* What a cleanup removes by the age of a file is at least as old as the file.
NoneIsYounger ==
  \A f \in A!Files : /\ touched[f] <= auditNow
                     /\ kind = "sessions" => \A l \in auditDisk[f] : l.at <= touched[f]

\* What the stores of the audit log keep: nothing is written to a file that
\* is gone.
AuditInv ==
  /\ A!TypeOK /\ IsFiniteSet(saved)
  /\ \A f \in A!Files : handle[f] # "orphan"
  /\ NoneIsYounger
  /\ A!RecentIsKept

\* The stores start empty.
LEMMA AuditInit == A!Init => AuditInv
<1> SUFFICES ASSUME A!Init PROVE AuditInv
  OBVIOUS
<1>1. A!TypeOK
  BY AuditAssumption DEF A!Init, A!TypeOK, A!Files
<1>2. IsFiniteSet(saved)
  BY FS_EmptySet DEF A!Init
<1> QED BY <1>1, <1>2 DEF A!Init, AuditInv, NoneIsYounger, A!RecentIsKept

\* Every session has its file.
LEMMA FileIs == \A s \in AuditSessions : A!File(s) \in A!Files
BY DEF A!File, A!Files

\* A line is appended, or the write fails (SaveCommand).
LEMMA SaveCommandKeeps ==
  ASSUME AuditInv, NEW s \in AuditSessions, A!SaveCommand(s)
  PROVE  AuditInv'
<1>1. PICK age \in {0, 1} :
        /\ Cardinality(saved) < MaxRecords /\ age <= auditNow
        /\ handle' = [handle EXCEPT ![A!File(s)] = IF handle[A!File(s)] = "none" THEN "open" ELSE handle[A!File(s)]]
        /\ \/ UNCHANGED <<auditDisk, touched, saved>>
           \/ LET line == [session |-> s, at |-> auditNow - age, n |-> Cardinality(saved) + 1]
              IN /\ saved' = saved \cup {line}
                 /\ auditDisk' = [auditDisk EXCEPT ![A!File(s)] = @ \cup {line}]
                 /\ touched' = [touched EXCEPT ![A!File(s)] = auditNow]
        /\ UNCHANGED <<kind, auditNow, cutoff>>
  BY FileIs, SameCount DEF A!SaveCommand, AuditInv
<1>2. /\ A!TypeOK /\ IsFiniteSet(saved) /\ NoneIsYounger /\ A!RecentIsKept
      /\ A!File(s) \in A!Files /\ Cardinality(saved) \in Nat
      /\ \A f \in A!Files : handle[f] # "orphan"
  BY FileIs, FS_CardinalityType DEF AuditInv
<1>3. \A f \in A!Files : handle'[f] # "orphan"
  BY <1>1, <1>2 DEF A!TypeOK
<1>4. handle' \in [A!Files -> {"none", "open", "closed", "orphan"}]
  BY <1>1, <1>2 DEF A!TypeOK
<1>5. CASE UNCHANGED <<auditDisk, touched, saved>>
  BY <1>1, <1>2, <1>3, <1>4, <1>5 DEF AuditInv, A!TypeOK, NoneIsYounger, A!RecentIsKept, A!File
<1>6. CASE ~ UNCHANGED <<auditDisk, touched, saved>>
  <2> DEFINE line == [session |-> s, at |-> auditNow - age, n |-> Cardinality(saved) + 1]
  <2>1. /\ saved' = saved \cup {line}
        /\ auditDisk' = [auditDisk EXCEPT ![A!File(s)] = @ \cup {line}]
        /\ touched' = [touched EXCEPT ![A!File(s)] = auditNow]
    BY <1>1, <1>6
  <2>2. auditNow - age \in 0 .. MaxTime /\ auditNow - age <= auditNow /\ auditNow \in 0 .. MaxTime
    BY <1>1, <1>2, AuditAssumption DEF A!TypeOK
  <2>3. Cardinality(saved) + 1 \in 1 .. MaxRecords
    BY <1>1, <1>2, AuditAssumption
  <2>4. line \in A!Lines /\ line.session = s /\ line.at = auditNow - age
    BY <2>2, <2>3 DEF A!Lines
  <2> HIDE DEF line
  <2>5. A!TypeOK'
    BY <1>1, <1>2, <1>4, <2>1, <2>2, <2>4 DEF A!TypeOK
  <2>6. IsFiniteSet(saved')
    BY <1>2, <2>1, FS_AddElement
  <2>7. NoneIsYounger'
    <3> SUFFICES ASSUME NEW f \in A!Files
                 PROVE  touched'[f] <= auditNow /\ (kind = "sessions" => \A l \in auditDisk'[f] : l.at <= touched'[f])
      BY <1>1 DEF NoneIsYounger
    <3>1. touched[f] \in Int /\ touched[f] <= auditNow /\ (kind = "sessions" => \A l \in auditDisk[f] : l.at <= touched[f])
          /\ auditDisk[f] \subseteq A!Lines
      BY <1>2 DEF A!TypeOK, NoneIsYounger
    <3>2. CASE f = A!File(s)
      <4>1. touched'[f] = auditNow /\ auditDisk'[f] = auditDisk[f] \cup {line}
        BY <1>2, <2>1, <3>2 DEF A!TypeOK
      <4>2. \A l \in auditDisk[f] : l.at \in Int
        BY <3>1 DEF A!Lines
      <4> QED BY <2>2, <2>4, <3>1, <4>1, <4>2
    <3>3. CASE f # A!File(s)
      BY <1>2, <2>1, <3>1, <3>3 DEF A!TypeOK
    <3> QED BY <3>2, <3>3
  <2>8. A!RecentIsKept'
    BY <1>1, <1>2, <2>1, <2>4 DEF A!RecentIsKept, A!TypeOK, A!File
  <2> QED BY <1>3, <2>5, <2>6, <2>7, <2>8 DEF AuditInv
<1> QED BY <1>5, <1>6

\* What a cleanup deletes is older than the days it is to keep.
LEMMA CleanupKeeps ==
  ASSUME AuditInv, A!CleanupOldRecords
  PROVE  AuditInv'
<1>0. /\ A!TypeOK /\ IsFiniteSet(saved) /\ NoneIsYounger /\ A!RecentIsKept /\ "log" \in A!Files
      /\ \A f \in A!Files : handle[f] # "orphan"
  BY DEF AuditInv, A!Files
<1>1. PICK days \in AuditDays :
        /\ A!DeleteOldRows(days) \/ A!DeleteOldLines(days) \/ A!DeleteOldFiles(days)
        /\ cutoff' = IF auditNow - days > cutoff THEN auditNow - days ELSE cutoff
        /\ UNCHANGED <<kind, auditNow, saved>>
  BY DEF A!CleanupOldRecords
<1>2. auditNow \in 0 .. MaxTime /\ auditNow - days \in Int /\ cutoff' \in Int /\ cutoff <= cutoff' /\ auditNow - days <= cutoff'
  BY <1>0, <1>1, AuditAssumption DEF A!TypeOK
<1>3. ASSUME auditDisk' \in [A!Files -> SUBSET A!Lines], touched' \in [A!Files -> 0 .. MaxTime],
             \A f \in A!Files : auditDisk'[f] \subseteq auditDisk[f],
             \A f \in A!Files : touched'[f] = touched[f] \/ (touched'[f] = auditNow /\ kind # "sessions"),
             handle' \in [A!Files -> {"none", "open", "closed", "orphan"}],
             \A f \in A!Files : handle'[f] # "orphan",
             \A s \in AuditSessions : \A l \in auditDisk[A!File(s)] \ auditDisk'[A!File(s)] : l.at < auditNow - days
      PROVE  AuditInv'
  <2>1. A!TypeOK'
    BY <1>0, <1>1, <1>2, <1>3 DEF A!TypeOK
  <2>2. NoneIsYounger'
    BY <1>0, <1>1, <1>2, <1>3 DEF NoneIsYounger, A!TypeOK
  <2>3. ASSUME NEW l \in saved PROVE l.at < cutoff' \/ l \in auditDisk'[A!File(l.session)]
    <3>1. l.session \in AuditSessions /\ l.at \in Int /\ (l.at < cutoff \/ l \in auditDisk[A!File(l.session)])
      BY <1>0 DEF A!TypeOK, A!Lines, A!RecentIsKept
    <3>2. CASE l \in auditDisk[A!File(l.session)]
      BY <1>2, <1>3, <3>1, <3>2
    <3>3. CASE l.at < cutoff
      BY <1>0, <1>2, <3>1, <3>3 DEF A!TypeOK
    <3> QED BY <3>1, <3>2, <3>3
  <2>4. A!RecentIsKept'
    BY <1>1, <2>3 DEF A!RecentIsKept, A!File
  <2> QED BY <1>0, <1>1, <1>3, <2>1, <2>2, <2>4 DEF AuditInv
<1>4. CASE A!DeleteOldRows(days)
  <2>1. \A f \in A!Files : auditDisk'[f] \subseteq auditDisk[f]
    BY <1>0, <1>4 DEF A!DeleteOldRows, A!TypeOK
  <2>2. auditDisk' \in [A!Files -> SUBSET A!Lines]
    BY <1>0, <1>4 DEF A!DeleteOldRows, A!TypeOK
  <2>3. \A s \in AuditSessions : \A l \in auditDisk[A!File(s)] \ auditDisk'[A!File(s)] : l.at < auditNow - days
    BY <1>0, <1>4 DEF A!DeleteOldRows, A!Old, A!TypeOK, A!File
  <2> QED BY <1>0, <1>3, <1>4, <2>1, <2>2, <2>3 DEF A!DeleteOldRows, A!TypeOK
<1>5. CASE A!DeleteOldLines(days)
  <2>1. auditDisk' \in [A!Files -> SUBSET A!Lines] /\ \A f \in A!Files : auditDisk'[f] \subseteq auditDisk[f]
    BY <1>0, <1>5 DEF A!DeleteOldLines, A!TypeOK
  <2>2. touched' \in [A!Files -> 0 .. MaxTime]
        /\ \A f \in A!Files : touched'[f] = touched[f] \/ (touched'[f] = auditNow /\ kind # "sessions")
    BY <1>0, <1>2, <1>5 DEF A!DeleteOldLines, A!TypeOK
  <2>3. handle' \in [A!Files -> {"none", "open", "closed", "orphan"}]
        /\ \A f \in A!Files : handle'[f] # "orphan"
    BY <1>0, <1>5 DEF A!DeleteOldLines, A!TypeOK
  <2>4. \A s \in AuditSessions : \A l \in auditDisk[A!File(s)] \ auditDisk'[A!File(s)] : l.at < auditNow - days
    BY <1>0, <1>5 DEF A!DeleteOldLines, A!Old, A!TypeOK, A!File
  <2> QED BY <1>3, <2>1, <2>2, <2>3, <2>4
<1>6. CASE A!DeleteOldFiles(days)
  <2>1. PICK removed \in SUBSET A!Stale(days) : auditDisk' = [f \in A!Files |-> IF f \in removed THEN {} ELSE auditDisk[f]]
    BY <1>6 DEF A!DeleteOldFiles
  <2>2. auditDisk' \in [A!Files -> SUBSET A!Lines] /\ \A f \in A!Files : auditDisk'[f] \subseteq auditDisk[f]
    BY <1>0, <2>1 DEF A!TypeOK
  <2>3. UNCHANGED touched /\ kind = "sessions"
        /\ handle' \in [A!Files -> {"none", "open", "closed", "orphan"}]
        /\ \A f \in A!Files : handle'[f] # "orphan"
    BY <1>0, <1>6 DEF A!DeleteOldFiles, A!TypeOK
  <2>4. ASSUME NEW s \in AuditSessions, NEW l \in auditDisk[A!File(s)] \ auditDisk'[A!File(s)] PROVE l.at < auditNow - days
    <3>1. A!File(s) \in A!Files /\ A!File(s) \in removed /\ touched[A!File(s)] < auditNow - days
      BY <2>1, FileIs DEF A!Stale
    <3>2. l.at \in Int /\ touched[A!File(s)] \in Int /\ l.at <= touched[A!File(s)]
      BY <1>0, <2>3, <3>1 DEF A!TypeOK, A!Lines, NoneIsYounger
    <3> QED BY <1>2, <3>1, <3>2
  <2> QED BY <1>0, <1>3, <2>2, <2>3, <2>4 DEF A!TypeOK
<1> QED BY <1>1, <1>4, <1>5, <1>6

\* Every step of the stores keeps the invariant.
LEMMA AuditNext == AuditInv /\ [A!Next]_(A!vars) => AuditInv'
<1> SUFFICES ASSUME AuditInv, [A!Next]_(A!vars) PROVE AuditInv'
  OBVIOUS
<1>0. A!TypeOK /\ IsFiniteSet(saved) /\ NoneIsYounger /\ A!RecentIsKept /\ \A f \in A!Files : handle[f] # "orphan"
  BY DEF AuditInv
<1>1. CASE UNCHANGED A!vars
  BY <1>0, <1>1 DEF A!vars, AuditInv, A!TypeOK, NoneIsYounger, A!RecentIsKept, A!File
<1>2. CASE A!Tick
  <2>1. auditNow \in Nat /\ auditNow' = auditNow + 1 /\ auditNow' \in 0 .. MaxTime
    BY <1>0, <1>2, AuditAssumption DEF A!Tick, A!TypeOK
  <2>2. NoneIsYounger'
    BY <1>0, <1>2, <2>1 DEF A!Tick, NoneIsYounger, A!TypeOK
  <2> QED BY <1>0, <1>2, <2>1, <2>2 DEF A!Tick, AuditInv, A!TypeOK, A!RecentIsKept, A!File
<1>3. CASE A!Restart \/ \E s \in AuditSessions : A!CloseSession(s)
  <2>1. UNCHANGED <<kind, auditNow, auditDisk, touched, saved, cutoff>>
        /\ handle' \in [A!Files -> {"none", "open", "closed", "orphan"}]
        /\ \A f \in A!Files : handle'[f] # "orphan"
    BY <1>0, <1>3 DEF A!Restart, A!CloseSession, A!TypeOK
  <2> QED BY <1>0, <2>1 DEF AuditInv, A!TypeOK, NoneIsYounger, A!RecentIsKept, A!File
<1> QED BY <1>1, <1>2, <1>3, SaveCommandKeeps, CleanupKeeps DEF A!Next

\* What the invariant says of the records.
LEMMA AuditShows == AuditInv => A!TypeOK /\ A!RecentIsKept
BY DEF AuditInv

-----------------------------------------------------------------------------
(* Recordings (Recordings).  The store's mutex excludes its requests.      *)

\* What the requests at work know of the lock, and the cleanup of the recorders.
LockIsHeld ==
  \A c \in RecordingCalls :
    recordingCall[c] = "locked" \/ (recordingCall[c] = "walking" /\ recordingPlan[c].request = "delete") => recordingMu = c

\* The metadata of a recording is written when it has ended.
UnfinishedIsUndescribed ==
  \A i \in RecordingIds : recorder[i] \in {"none", "open", "flushed"} => i \notin meta

\* What the recordings keep.
RecordingInv == R!TypeOK /\ LockIsHeld /\ UnfinishedIsUndescribed /\ R!RunningIsKept

\* Nothing has been recorded.
LEMMA RecordingInit == R!Init => RecordingInv
BY RecordingAssumption, AuditAssumption DEF R!Init, RecordingInv, R!TypeOK, LockIsHeld,
   UnfinishedIsUndescribed, R!RunningIsKept

\* A recording starts, or ends (NewRecorder, Close).
LEMMA RecorderKeeps ==
  ASSUME RecordingInv, NEW i \in RecordingIds, R!NewRecorder(i) \/ R!Close(i)
  PROVE  RecordingInv'
<1>0. R!TypeOK /\ LockIsHeld /\ UnfinishedIsUndescribed /\ R!RunningIsKept
  BY DEF RecordingInv
<1>1. UNCHANGED <<recordingPlan, recordingNow, recordingCall, recordingMu>> /\ LockIsHeld'
  BY <1>0 DEF R!NewRecorder, R!Close, LockIsHeld
<1>2. CASE R!NewRecorder(i)
  <2>1. R!TypeOK'
    BY <1>0, <1>2 DEF R!NewRecorder, R!Becomes, R!TypeOK
  <2>2. UnfinishedIsUndescribed' /\ R!RunningIsKept'
    BY <1>0, <1>2 DEF R!NewRecorder, R!Becomes, R!TypeOK, UnfinishedIsUndescribed, R!RunningIsKept
  <2> QED BY <1>1, <2>1, <2>2 DEF RecordingInv
<1>3. CASE R!Close(i)
  <2>1. R!TypeOK'
    BY <1>0, <1>3 DEF R!Close, R!Becomes, R!TypeOK
  <2>2. UnfinishedIsUndescribed' /\ R!RunningIsKept'
    BY <1>0, <1>3 DEF R!Close, R!Becomes, R!TypeOK, UnfinishedIsUndescribed, R!RunningIsKept
  <2> QED BY <1>1, <2>1, <2>2 DEF RecordingInv
<1> QED BY <1>2, <1>3

\* A request to the store, one step of it (Get, GetStream, Delete,
\* DeleteOldRecordings).
LEMMA StoreKeeps ==
  ASSUME RecordingInv, NEW c \in RecordingCalls, R!ApiStep(c)
  PROVE  RecordingInv'
<1>0. /\ R!TypeOK /\ LockIsHeld /\ UnfinishedIsUndescribed /\ R!RunningIsKept
      /\ UNCHANGED <<recordingPlan, recordingNow, recorder, started>>
  BY DEF RecordingInv, R!ApiStep, R!Read, R!LockStore, R!GetFilePath, R!DeleteOldRecordings,
     R!storeVars
<1>1. CASE R!Read(c) \/ R!LockStore(c)
  <2>1. UNCHANGED R!fileVars /\ R!TypeOK'
    BY <1>0, <1>1 DEF R!Read, R!LockStore, R!Go, R!TypeOK, R!fileVars
  <2>2. LockIsHeld'
    BY <1>0, <1>1, RecordingAssumption, AuditAssumption DEF R!Read, R!LockStore, R!Go,
       R!Doing, LockIsHeld, R!TypeOK
  <2> QED BY <1>0, <2>1, <2>2 DEF RecordingInv, UnfinishedIsUndescribed, R!RunningIsKept, R!fileVars
<1>2. CASE R!GetFilePath(c)
  <2>1. recordingPlan[c].request # "delete" /\ UNCHANGED <<rows, recordingMu>>
    BY <1>0, <1>2, RecordingAssumption, AuditAssumption DEF R!GetFilePath, R!Doing, LockIsHeld
  <2>2. cast' = cast /\ meta' = meta
    BY <1>2, <2>1 DEF R!GetFilePath
  <2>3. R!TypeOK' /\ LockIsHeld'
    BY <1>0, <1>2, <2>1, <2>2 DEF R!GetFilePath, R!Go, R!TypeOK, LockIsHeld
  <2> QED BY <1>0, <2>2, <2>3 DEF RecordingInv, UnfinishedIsUndescribed, R!RunningIsKept
<1>3. CASE R!DeleteOldRecordings(c)
  <2>1. recordingMu = c /\ recordingCall' = [recordingCall EXCEPT ![c] = "done"] /\ recordingMu' = R!Nobody
    BY <1>0, <1>3 DEF R!DeleteOldRecordings, R!Doing, R!Go, LockIsHeld
  <2>2. R!TypeOK' /\ LockIsHeld'
    BY <1>0, <1>3, <2>1, RecordingAssumption, AuditAssumption DEF R!DeleteOldRecordings,
       R!TypeOK, LockIsHeld
  <2>3. UnfinishedIsUndescribed' /\ R!RunningIsKept'
    BY <1>0, <1>3 DEF R!DeleteOldRecordings, UnfinishedIsUndescribed, R!RunningIsKept
  <2> QED BY <2>2, <2>3 DEF RecordingInv
<1> QED BY <1>1, <1>2, <1>3 DEF R!ApiStep

\* Every step of the recordings keeps the invariant.
LEMMA RecordingNext == RecordingInv /\ [R!Next]_(R!vars) => RecordingInv'
<1> SUFFICES ASSUME RecordingInv, [R!Next]_(R!vars) PROVE RecordingInv'
  OBVIOUS
<1>1. CASE UNCHANGED R!vars
  BY <1>1 DEF R!vars, RecordingInv, R!TypeOK, LockIsHeld, UnfinishedIsUndescribed, R!RunningIsKept
<1>2. CASE R!Tick
  <2>1. recordingNow' \in 0 .. MaxTime
    BY <1>2, RecordingAssumption, AuditAssumption DEF R!Tick, RecordingInv, R!TypeOK
  <2> QED BY <1>2, <2>1 DEF R!Tick, RecordingInv, R!TypeOK, LockIsHeld,
     UnfinishedIsUndescribed, R!RunningIsKept
<1> QED BY <1>1, <1>2, RecorderKeeps, StoreKeeps DEF R!Next

\* What the invariant says of a recording under way.
LEMMA RecordingShows == RecordingInv => R!TypeOK /\ R!RunningIsKept
BY DEF RecordingInv

-----------------------------------------------------------------------------
(* File transfer (FileTransfer).  The quota adds sizes up with a fold over *)
(* a finite set, and a sum is what a smallest counterexample allows.       *)

\* Sizes added up, as the fold of the community modules does it.
AddsUp(it, S) ==
  it = [s \in SUBSET S |-> IF s = {} THEN 0
                           ELSE (CHOOSE x \in s : TRUE).size + it[s \ {CHOOSE x \in s : TRUE}]]

\* A finite set of sized things.
Sized(S) == IsFiniteSet(S) /\ \A x \in S : x.size \in Nat

\* Their sum.
Total(S) == (CHOOSE it : AddsUp(it, S))[S]

\* A finite set has, among some of its subsets, a smallest one.
LEMMA LeastSet ==
  ASSUME NEW S, IsFiniteSet(S), NEW T, T \subseteq SUBSET S, T # {}
  PROVE  \E s \in T : \A x \in s : \A y : s \ {x} # y \/ y \notin T
<1>1. IsWellFoundedOn(StrictSubsetOrdering(S), SUBSET S)
  BY FS_StrictSubsetOrderingWellFounded, FS_FiniteSubsetsOfFinite
<1>2. PICK s \in T : \A y \in T : <<y, s>> \notin StrictSubsetOrdering(S)
  BY <1>1, WFMin, Zenon
<1>3. \A x \in s : s \ {x} \in T => <<s \ {x}, s>> \in StrictSubsetOrdering(S)
  BY DEF StrictSubsetOrdering
<1> QED BY <1>2, <1>3

\* The sum does not depend on the set it is defined over.
LEMMA SumsAgree ==
  ASSUME NEW S, IsFiniteSet(S), NEW U, NEW V, S \subseteq U, S \subseteq V,
         NEW it, NEW iu, AddsUp(it, U), AddsUp(iu, V)
  PROVE  it[S] = iu[S]
<1> DEFINE T == {s \in SUBSET S : it[s] # iu[s]}
<1>1. SUFFICES ASSUME T # {} PROVE FALSE
  OBVIOUS
<1>0. T \subseteq SUBSET S
  OBVIOUS
<1>2. PICK s \in T : \A x \in s : \A y : s \ {x} # y \/ y \notin T
  <2> HIDE DEF T
  <2> QED BY <1>0, <1>1, LeastSet, Zenon
<1>3. s \in SUBSET U /\ s \in SUBSET V
  OBVIOUS
<1>4. CASE s = {}
  BY <1>2, <1>3, <1>4 DEF AddsUp
<1>5. CASE s # {}
  <2> DEFINE x == CHOOSE x \in s : TRUE
  <2>1. x \in s
    BY <1>5
  <2>2. it[s] = x.size + it[s \ {x}] /\ iu[s] = x.size + iu[s \ {x}]
    BY <1>3, <1>5 DEF AddsUp
  <2>3. it[s \ {x}] = iu[s \ {x}]
    BY <1>2, <2>1
  <2> QED BY <2>2, <2>3
<1> QED BY <1>4, <1>5

\* There is such a sum: by the smallest set that would have none.
LEMMA SumExists ==
  ASSUME NEW S, IsFiniteSet(S)
  PROVE  \E it : AddsUp(it, S)
<1> DEFINE T == {s \in SUBSET S : ~ \E it : AddsUp(it, s)}
<1>1. SUFFICES ASSUME T # {} PROVE FALSE
  BY <1>1
<1>0. T \subseteq SUBSET S
  OBVIOUS
<1>2. PICK s \in T : \A x \in s : \A y : s \ {x} # y \/ y \notin T
  <2> HIDE DEF T
  <2> QED BY <1>0, <1>1, LeastSet, Zenon
<1>3. CASE s = {}
  <2> DEFINE it == [u \in SUBSET {} |-> 0]
  <2>1. AddsUp(it, {})
    BY DEF AddsUp
  <2> QED BY <2>1, <1>2, <1>3
<1>4. CASE s # {}
  <2> DEFINE Fits(v, w) == \E x \in s : \E it : x \notin v /\ AddsUp(it, s \ {x}) /\ w = it[v]
             h(v) == CHOOSE w : Fits(v, w)
             any(v) == CHOOSE x \in v : TRUE
             f == [v \in SUBSET s |-> IF v = {} THEN 0 ELSE any(v).size + h(v \ {any(v)})]
  <2>1. \A x \in s : \E it : AddsUp(it, s \ {x})
    BY <1>2
  <2>2. ASSUME NEW v \in SUBSET s, v # s PROVE Fits(v, h(v))
    <3>1. PICK x \in s : x \notin v
      BY <2>2
    <3>2. PICK it : AddsUp(it, s \ {x})
      BY <2>1
    <3>3. Fits(v, it[v])
      BY <3>1, <3>2
    <3> QED BY <3>3
  <2>3. ASSUME NEW v \in SUBSET s, v # s, NEW x \in s, NEW it, x \notin v, AddsUp(it, s \ {x})
        PROVE  h(v) = it[v]
    <3>0. PICK y \in s : \E iu : y \notin v /\ AddsUp(iu, s \ {y}) /\ h(v) = iu[v]
      BY <2>2, <2>3
    <3>1. PICK iu : y \notin v /\ AddsUp(iu, s \ {y}) /\ h(v) = iu[v]
      BY <3>0
    <3>2. IsFiniteSet(v) /\ v \subseteq s \ {x} /\ v \subseteq s \ {y}
      BY <2>3, <3>1, FS_Subset
    <3>3. iu[v] = it[v]
      BY <2>3, <3>1, <3>2, SumsAgree
    <3> QED BY <3>1, <3>3
  <2>4. ASSUME NEW v \in SUBSET s, v # s PROVE f[v] = h(v)
    <3>0. PICK x \in s : \E it : x \notin v /\ AddsUp(it, s \ {x}) /\ h(v) = it[v]
      BY <2>2, <2>4
    <3>1. PICK it : x \notin v /\ AddsUp(it, s \ {x}) /\ h(v) = it[v]
      BY <3>0
    <3>2. CASE v = {}
      <4>1. it[v] = 0
        BY <3>1, <3>2 DEF AddsUp
      <4> QED BY <4>1, <3>1, <3>2
    <3>3. CASE v # {}
      <4>1. any(v) \in v
        BY <3>3
      <4>2. it[v] = any(v).size + it[v \ {any(v)}]
        BY <3>1, <3>3 DEF AddsUp
      <4>3. h(v \ {any(v)}) = it[v \ {any(v)}]
        BY <2>3, <3>1, <4>1
      <4>4. f[v] = any(v).size + h(v \ {any(v)})
        BY <3>3
      <4> QED BY <4>2, <4>3, <4>4, <3>1
    <3> QED BY <3>2, <3>3
  <2>5. ASSUME NEW v \in SUBSET s, v # {} PROVE any(v) \in v /\ f[v \ {any(v)}] = h(v \ {any(v)})
    <3>1. any(v) \in v
      BY <2>5
    <3>2. v \ {any(v)} \in SUBSET s /\ v \ {any(v)} # s
      BY <3>1
    <3> QED BY <3>1, <3>2, <2>4
  <2>6. f = [v \in SUBSET s |-> IF v = {} THEN 0 ELSE any(v).size + f[v \ {any(v)}]]
    <3> DEFINE g == [v \in SUBSET s |-> IF v = {} THEN 0 ELSE any(v).size + f[v \ {any(v)}]]
    <3>1. ASSUME NEW v \in SUBSET s PROVE f[v] = g[v]
      <4>1. CASE v = {}
        BY <4>1
      <4>2. CASE v # {}
        <5>1. f[v] = any(v).size + h(v \ {any(v)})
          BY <4>2
        <5>2. g[v] = any(v).size + f[v \ {any(v)}]
          BY <4>2
        <5> QED BY <5>1, <5>2, <4>2, <2>5
      <4> QED BY <4>1, <4>2
    <3> QED BY <3>1
  <2>7. AddsUp(f, s)
    BY <2>6 DEF AddsUp
  <2> QED BY <2>7, <1>2
<1> QED BY <1>3, <1>4

\* A sum is one element more than the sum of the rest.
LEMMA TotalStep ==
  ASSUME NEW S, Sized(S)
  PROVE  /\ S = {} => Total(S) = 0
         /\ S # {} => \E x \in S : Total(S) = x.size + Total(S \ {x})
<1> DEFINE it == CHOOSE it : AddsUp(it, S)
           x == CHOOSE x \in S : TRUE
           iu == CHOOSE iu : AddsUp(iu, S \ {x})
<1>1. AddsUp(it, S) /\ Total(S) = it[S]
  BY SumExists DEF Sized, Total
<1>2. CASE S = {}
  BY <1>1, <1>2 DEF AddsUp
<1>3. CASE S # {}
  <2>1. x \in S
    BY <1>3
  <2>2. it[S] = x.size + it[S \ {x}]
    BY <1>1, <1>3 DEF AddsUp
  <2>3. IsFiniteSet(S \ {x})
    BY FS_Subset DEF Sized
  <2>4. AddsUp(iu, S \ {x}) /\ Total(S \ {x}) = iu[S \ {x}]
    BY SumExists, <2>3 DEF Total
  <2>5. it[S \ {x}] = iu[S \ {x}]
    BY SumsAgree, <1>1, <2>3, <2>4
  <2> QED BY <2>1, <2>2, <2>4, <2>5, <1>1, <1>3
<1> QED BY <1>2, <1>3

\* A sum is a number.
LEMMA TotalIsNat ==
  ASSUME NEW S, Sized(S)
  PROVE  Total(S) \in Nat
<1> DEFINE T == {s \in SUBSET S : Total(s) \notin Nat}
<1>0. T \subseteq SUBSET S /\ IsFiniteSet(S)
  BY DEF Sized
<1>1. SUFFICES ASSUME T # {} PROVE FALSE
  OBVIOUS
<1>2. PICK s \in T : \A x \in s : \A y : s \ {x} # y \/ y \notin T
  <2> HIDE DEF T
  <2> QED BY <1>0, <1>1, LeastSet, Zenon
<1>3. Sized(s)
  BY FS_Subset DEF Sized
<1>4. PICK x \in s : Total(s) = x.size + Total(s \ {x})
  BY <1>3, TotalStep
<1>5. x.size \in Nat /\ Total(s \ {x}) \in Nat
  BY <1>2 DEF Sized
<1> QED BY <1>4, <1>5

\* Any element can be taken out of a sum.
LEMMA TotalRemove ==
  ASSUME NEW S, Sized(S), NEW y \in S
  PROVE  Total(S) = y.size + Total(S \ {y})
<1> DEFINE T == {s \in SUBSET S : \E z \in s : Total(s) # z.size + Total(s \ {z})}
<1>0. T \subseteq SUBSET S /\ IsFiniteSet(S)
  BY DEF Sized
<1>1. SUFFICES ASSUME T # {} PROVE FALSE
  OBVIOUS
<1>2. PICK s \in T : \A x \in s : \A u : s \ {x} # u \/ u \notin T
  <2> HIDE DEF T
  <2> QED BY <1>0, <1>1, LeastSet, Zenon
<1>3. PICK z \in s : Total(s) # z.size + Total(s \ {z})
  OBVIOUS
<1>4. Sized(s) /\ Sized(s \ {z})
  BY FS_Subset DEF Sized
<1>5. PICK x \in s : Total(s) = x.size + Total(s \ {x})
  BY <1>3, <1>4, TotalStep
<1>6. x # z
  BY <1>3, <1>5
<1>7. Total(s \ {x}) = z.size + Total((s \ {x}) \ {z})
  BY <1>2, <1>3, <1>6
<1>8. Total(s \ {z}) = x.size + Total((s \ {z}) \ {x})
  BY <1>2, <1>5, <1>6
<1>9. (s \ {x}) \ {z} = (s \ {z}) \ {x} /\ Sized((s \ {x}) \ {z})
  BY <1>4, FS_Subset DEF Sized
<1>10. x.size \in Nat /\ z.size \in Nat /\ Total((s \ {x}) \ {z}) \in Nat
  BY <1>3, <1>5, <1>9, TotalIsNat DEF Sized
<1>11. PICK a \in Nat, b \in Nat, n \in Nat :
         a = x.size /\ b = z.size /\ n = Total((s \ {x}) \ {z})
  BY <1>10
<1>12. Total(s) = a + (b + n) /\ Total(s \ {z}) = a + n
  BY <1>5, <1>7, <1>8, <1>9, <1>11
<1> QED BY <1>3, <1>11, <1>12

\* An element adds its size.
LEMMA TotalAdd ==
  ASSUME NEW S, Sized(S), NEW y, y \notin S, y.size \in Nat
  PROVE  Total(S \union {y}) = Total(S) + y.size
<1>1. Sized(S \union {y}) /\ (S \union {y}) \ {y} = S
  BY FS_AddElement DEF Sized
<1> QED BY <1>1, TotalRemove, TotalIsNat

\* The fold of the community modules is that sum.
LEMMA SumIsTotal ==
  ASSUME NEW S
  PROVE  F!MapThenSumSet(LAMBDA f : f.size, S) = Total(S)
BY DEF F!MapThenSumSet, F!MapThenFoldSet, Total, AddsUp

\* The whole content of a transfer is in the store.
WholeIsThere(t) == \E f \in files : f.hash = F!Hash(t, F!Whole(t))

\* What a session has received: chunks in order, none beyond the last.
InOrder(t) ==
  LET s == session[t]
  IN /\ s.received \in Seq(Nat) /\ s.committed \in Nat
     /\ Len(s.received) <= s.committed /\ s.committed <= F!Of(t).size
     /\ \A i \in 1 .. Len(s.received) :
          i <= s.received[i] /\ s.received[i] + (Len(s.received) - i) <= s.committed

\* Where a worker stands with a task.
Taken == [pc : {"begin", "wait", "judged"}, task : F!Todo]

\* Where a request stands with a task.
Asked == [pc : {"loaded", "save"}, op : {"chunk", "complete", "cancel"}, task : F!Todo]

\* An upload's session.
Uploading == [temp : {"none", "open", "closed"}, received : Seq(Nat), committed : Nat]

\* The paths that transfers write to.
Paths == {F!StoragePath(t) : t \in F!Todo}

\* The types of the transfers.
TransferTyped ==
  /\ transferPlan \in TransferPlans /\ crashes \in 0 .. transferPlan.crashes
  /\ entry \in [Transfers -> {"none", "queued", "marked", "refused", "ready"}]
  /\ task \in [Transfers -> F!Tasks]
  /\ row \in [Transfers -> F!Statuses \union {"none"}]
  /\ active \subseteq F!Todo
  /\ taskQueue \in Seq(F!Todo) /\ Len(taskQueue) <= TaskQueueSize
  /\ worker \in [TransferWorkers -> {F!Free} \union Taken]
  /\ session \in [Transfers -> Uploading]
  /\ request \in [TransferRequests -> {F!Free} \union Asked]
  /\ \A f \in files : f.storage \in Paths /\ f.size \in Nat
  /\ DOMAIN transferDisk \subseteq Paths
  /\ \A t \in Transfers : entry[t] # "none" => t \in F!Todo

\* What the transfers keep: said to be complete is whole, and counted is stored.
TransferInv ==
  /\ TransferTyped
  /\ \A t \in F!Todo :
       /\ F!Of(t).kind = "upload" /\ (task[t].done \/ task[t].status = "completed" \/ row[t] = "completed")
            => WholeIsThere(t)
       /\ InOrder(t)
  /\ Sized(files) /\ F!QuotaKept

\* The smaller of two numbers.
LEMMA MinIs ==
  ASSUME NEW a \in Nat, NEW b \in Nat
  PROVE  F!Min({a, b}) \in Nat /\ F!Min({a, b}) <= a /\ F!Min({a, b}) <= b
<1>1. \E x \in {a, b} : \A y \in {a, b} : x <= y
  OBVIOUS
<1>2. F!Min({a, b}) \in {a, b} /\ \A y \in {a, b} : F!Min({a, b}) <= y
  BY <1>1 DEF F!Min
<1> QED BY <1>2

\* A finite set put in a sequence.
LEMMA SetToSeqIs ==
  ASSUME NEW S, IsFiniteSet(S)
  PROVE  F!SetToSeq(S) \in Seq(S) /\ F!ToSet(F!SetToSeq(S)) \subseteq S
<1> DEFINE n == Cardinality(S)
<1>1. n \in Nat /\ ExistsBijection(1 .. n, S)
  BY FS_CardinalityType
<1>2. \E f \in [1 .. n -> S] : F!IsInjective(f)
  BY <1>1 DEF ExistsBijection, Bijection, Injection, IsInjective, F!IsInjective
<1>3. F!SetToSeq(S) \in [1 .. n -> S]
  BY <1>2, SameCount DEF F!SetToSeq
<1>4. F!SetToSeq(S) \in Seq(S)
  BY <1>1, <1>3
<1> QED BY <1>3, <1>4 DEF F!ToSet

\* The elements of a sequence.
LEMMA ToSetIs ==
  ASSUME NEW S, NEW s \in Seq(S)
  PROVE  F!ToSet(s) \subseteq S /\ \A i \in 1 .. Len(s) : s[i] \in F!ToSet(s)
BY DEF F!ToSet

\* The types are those the runs check.
LEMMA TypedIsOK == TransferTyped => F!TypeOK
<1> SUFFICES ASSUME TransferTyped PROVE F!TypeOK
  OBVIOUS
<1>1. F!ToSet(taskQueue) \subseteq F!Todo
  BY ToSetIs DEF TransferTyped
<1>2. \A t \in Transfers : session[t].temp \in {"none", "open", "closed"} /\ F!ToSet(session[t].received) \subseteq Nat
  BY ToSetIs DEF TransferTyped, Uploading
<1>3. /\ \A w \in TransferWorkers : worker[w].pc \in {"idle", "begin", "wait", "judged"}
      /\ \A q \in TransferRequests : request[q].pc \in {"idle", "loaded", "save"}
  BY DEF TransferTyped, Taken, Asked, F!Free
<1> QED BY <1>1, <1>2, <1>3 DEF TransferTyped, F!TypeOK, Paths

\* The plan gives what is transferred.
LEMMA PlanIs ==
  ASSUME TransferInv
  PROVE  /\ transferPlan.crashes \in Nat /\ transferPlan.quota \in Nat
         /\ F!Todo \subseteq Transfers /\ IsFiniteSet(F!Todo)
         /\ \A t \in F!Todo : F!Of(t).size \in Nat
BY TransferAssumption DEF TransferInv, TransferTyped, F!Todo, F!Of

\* The plan gives what is transferred.
LEMMA SamePlan ==
  ASSUME UNCHANGED transferPlan
  PROVE  /\ F!Todo' = F!Todo /\ Taken' = Taken /\ Asked' = Asked /\ Paths' = Paths
         /\ \A t : F!Of(t)' = F!Of(t) /\ F!Whole(t)' = F!Whole(t)
BY DEF F!Todo, Taken, Asked, Paths, F!StoragePath, F!Of, F!Whole

\* Nothing has been submitted.
LEMMA TransferInit == F!Init => TransferInv
<1> SUFFICES ASSUME F!Init PROVE TransferInv
  OBVIOUS
<1>1. /\ task = [t \in Transfers |-> F!NewTask] /\ F!NewTask \in F!Tasks
      /\ session = [t \in Transfers |-> F!NoSession] /\ F!NoSession \in Uploading
      /\ taskQueue \in Seq(F!Todo) /\ Len(taskQueue) = 0 /\ DOMAIN transferDisk = {}
  BY DEF F!Init, F!NewTask, F!Tasks, F!Statuses, F!NoSession, Uploading
<1>2. TransferTyped
  BY <1>1, TransferAssumption DEF F!Init, TransferTyped
<1>3. ASSUME NEW t \in F!Todo PROVE InOrder(t)
  <2>1. F!Of(t).size \in Nat /\ t \in Transfers
    BY TransferAssumption DEF F!Init, F!Todo, F!Of
  <2>2. session[t] = F!NoSession
    BY <2>1 DEF F!Init
  <2> QED BY <2>1, <2>2 DEF InOrder, F!NoSession
<1>4. ASSUME NEW t \in F!Todo PROVE ~task[t].done /\ task[t].status = "pending" /\ row[t] = "none"
  BY TransferAssumption DEF F!Init, F!NewTask, F!Todo
<1>5. Sized(files) /\ F!QuotaKept
  BY FS_EmptySet DEF F!Init, Sized, F!QuotaKept
<1> QED BY <1>2, <1>3, <1>4, <1>5 DEF TransferInv

\* What a user has used, before and after a step.
LEMMA UsedIs ==
  ASSUME NEW u
  PROVE  /\ F!Used(u) = Total({f \in files : f.user = u})
         /\ F!Used(u)' = Total({f \in files' : f.user = u})
<1>1. F!Used(u) = Total({f \in files : f.user = u})
  BY DEF F!Used, F!MapThenSumSet, F!MapThenFoldSet, Total, AddsUp
<1>2. F!Used(u)' = Total({f \in files' : f.user = u})
  BY DEF F!Used, F!MapThenSumSet, F!MapThenFoldSet, Total, AddsUp
<1> QED BY <1>1, <1>2

\* A step that leaves the storage alone and says of no upload that it is
\* complete unless it was said before.
SaysNoMore ==
  \A t \in F!Todo :
    F!Of(t).kind = "upload" /\ (task[t].done' \/ task[t].status' = "completed" \/ row[t]' = "completed")
      => task[t].done \/ task[t].status = "completed" \/ row[t] = "completed"

\* A step that leaves the files alone and says no more than before.
LEMMA Untouched ==
  ASSUME TransferInv, UNCHANGED <<transferPlan, files>>, TransferTyped', SaysNoMore,
         \A t \in F!Todo : InOrder(t)'
  PROVE  TransferInv'
<1>1. \A u : F!Used(u)' = F!Used(u)
  BY UsedIs
<1>2. F!QuotaKept' /\ Sized(files)'
  BY <1>1 DEF TransferInv, Sized, F!QuotaKept
<1>3. \A t \in F!Todo : WholeIsThere(t)' <=> WholeIsThere(t)
  BY SamePlan DEF WholeIsThere, F!Hash
<1>4. \A t \in F!Todo : (F!Of(t).kind = "upload" /\ (task[t].done \/ task[t].status = "completed" \/ row[t] = "completed")
            => WholeIsThere(t))'
  BY <1>3, SamePlan DEF TransferInv, SaysNoMore
<1> QED BY <1>2, <1>4, SamePlan DEF TransferInv

\* A step that leaves an upload's chunks alone, or drops them.
LEMMA SameOrder ==
  ASSUME TransferInv, UNCHANGED transferPlan, NEW t \in F!Todo,
         \/ session'[t].received = session[t].received /\ session'[t].committed = session[t].committed
         \/ session'[t].received = <<>> /\ session'[t].committed = 0
  PROVE  InOrder(t)'
<1>1. F!Of(t)' = F!Of(t) /\ F!Of(t).size \in Nat
  BY PlanIs DEF F!Of
<1>2. CASE session'[t].received = session[t].received /\ session'[t].committed = session[t].committed
  BY <1>1, <1>2 DEF InOrder, TransferInv
<1>3. CASE session'[t].received = <<>> /\ session'[t].committed = 0
  BY <1>1, <1>3 DEF InOrder
<1> QED BY <1>2, <1>3

\* A transfer is accepted and queued, or refused (InitUpload, RequestDownload).
LEMMA SubmitKeeps ==
  ASSUME TransferInv, NEW t \in Transfers, F!Submit(t)
  PROVE  TransferInv'
<1>1. taskQueue' \in Seq(F!Todo) /\ Len(taskQueue') <= TaskQueueSize
  <2>1. Append(taskQueue, t) \in Seq(F!Todo) /\ Len(Append(taskQueue, t)) = Len(taskQueue) + 1 /\ Len(taskQueue) \in Nat
    BY AppendFacts DEF TransferInv, TransferTyped, F!Submit
  <2>2. taskQueue \in Seq(F!Todo) /\ Len(taskQueue) <= TaskQueueSize /\ TaskQueueSize \in Nat
    BY TransferAssumption DEF TransferInv, TransferTyped
  <2>3. taskQueue' = taskQueue \/ (Len(taskQueue) < TaskQueueSize /\ taskQueue' = Append(taskQueue, t))
    BY DEF F!Submit
  <2> QED BY <2>1, <2>2, <2>3
<1>2. TransferTyped'
  BY <1>1, SamePlan DEF TransferInv, TransferTyped, F!Submit, F!Statuses
<1>3. SaysNoMore
  BY PlanIs DEF TransferInv, TransferTyped, F!Submit, SaysNoMore
<1>4. \A u \in F!Todo : InOrder(u)'
  BY SameOrder DEF F!Submit
<1> QED BY <1>2, <1>3, <1>4, Untouched DEF F!Submit

\* The accepted task is marked as pending.
LEMMA MarkPendingKeeps ==
  ASSUME TransferInv, NEW t \in Transfers, F!MarkPending(t)
  PROVE  TransferInv'
<1>1. /\ task' \in [Transfers -> F!Tasks]
      /\ \A u \in Transfers : task'[u].done = task[u].done
      /\ \A u \in Transfers : task'[u].status = "completed" => task[u].status = "completed"
  BY DEF TransferInv, TransferTyped, F!MarkPending, F!Tasks, F!Statuses
<1>2. TransferTyped'
  BY <1>1, SamePlan DEF TransferInv, TransferTyped, F!MarkPending
<1>3. SaysNoMore
  BY <1>1, PlanIs DEF F!MarkPending, SaysNoMore
<1>4. \A u \in F!Todo : InOrder(u)'
  BY SameOrder DEF F!MarkPending
<1> QED BY <1>2, <1>3, <1>4, Untouched DEF F!MarkPending

\* The upload gets its session.
LEMMA OpenSessionKeeps ==
  ASSUME TransferInv, NEW t \in Transfers, F!OpenSession(t)
  PROVE  TransferInv'
<1>1. session' \in [Transfers -> Uploading]
      /\ \A u \in Transfers : session'[u] = session[u] \/ (session'[u].received = <<>> /\ session'[u].committed = 0)
  <2> DEFINE x == [F!NoSession EXCEPT !.temp = "open"]
  <2>1. x = [temp |-> "open", received |-> <<>>, committed |-> 0]
    BY DEF F!NoSession
  <2>2. x \in Uploading /\ x.received = <<>> /\ x.committed = 0
    <3>1. <<>> \in Seq(Nat)
      OBVIOUS
    <3> HIDE DEF x
    <3> QED BY <2>1, <3>1 DEF Uploading
  <2>3. session' = [session EXCEPT ![t] = x]
    BY DEF F!OpenSession
  <2>4. session \in [Transfers -> Uploading]
    BY DEF TransferInv, TransferTyped
  <2> HIDE DEF x
  <2>5. session' \in [Transfers -> Uploading] /\ session'[t] = x
    BY <2>2, <2>3, <2>4
  <2>6. \A u \in Transfers : u # t => session'[u] = session[u]
    BY <2>3, <2>4
  <2>7. session'[t].received = <<>> /\ session'[t].committed = 0
    BY <2>2, <2>5
  <2> QED BY <2>5, <2>6, <2>7, Zenon
<1>2. TransferTyped'
  BY <1>1, SamePlan DEF TransferInv, TransferTyped, F!OpenSession
<1>3. SaysNoMore
  BY DEF F!OpenSession, SaysNoMore
<1>4. \A u \in F!Todo : InOrder(u)'
  BY <1>1, SameOrder, PlanIs DEF F!OpenSession
<1> QED BY <1>2, <1>3, <1>4, Untouched DEF F!OpenSession

\* A worker takes a task, waits for it, and judges it (processTask).
LEMMA WorkKeeps ==
  ASSUME TransferInv, NEW w \in TransferWorkers, F!Work(w)
  PROVE  TransferInv'
<1>1. CASE F!Take(w)
  <2>1. Head(taskQueue) \in F!Todo /\ taskQueue' \in Seq(F!Todo) /\ Len(taskQueue') <= TaskQueueSize
    <3>1. taskQueue \in Seq(F!Todo) /\ taskQueue # <<>> /\ Len(taskQueue) <= TaskQueueSize /\ taskQueue' = Tail(taskQueue)
      BY <1>1 DEF TransferInv, TransferTyped, F!Take
    <3> QED BY <3>1, TailFacts, TransferAssumption
  <2>2. F!ToSet(taskQueue') \subseteq F!Todo
    BY <2>1, ToSetIs
  <2> DEFINE x == [pc |-> "begin", task |-> Head(taskQueue)]
  <2>3. x \in {F!Free} \union Taken /\ worker' = [worker EXCEPT ![w] = x] /\ UNCHANGED transferPlan
    BY <1>1, <2>1 DEF F!Take, Taken
  <2>5. TransferTyped'
    BY <1>1, <2>1, <2>3, SamePlan DEF TransferInv, TransferTyped, F!Take
  <2>6. SaysNoMore
    BY <1>1 DEF F!Take, SaysNoMore
  <2>7. \A u \in F!Todo : InOrder(u)'
    BY <1>1, SameOrder DEF F!Take
  <2> QED BY <1>1, <2>5, <2>6, <2>7, Untouched DEF F!Take
<1>2. CASE F!Begin(w)
  <2> DEFINE x == IF task[worker[w].task].status = "cancelled" THEN F!Free ELSE [worker[w] EXCEPT !.pc = "wait"]
             t == worker[w].task
  <2>1. worker[w] \in Taken /\ t \in F!Todo
    BY <1>2 DEF TransferInv, TransferTyped, F!Begin, F!Free, Taken
  <2>2. x \in {F!Free} \union Taken /\ worker' = [worker EXCEPT ![w] = x] /\ UNCHANGED transferPlan
    BY <1>2, <2>1 DEF F!Begin, Taken
  <2>3. /\ task' \in [Transfers -> F!Tasks]
        /\ \A u \in Transfers : task'[u].done = task[u].done /\ (task'[u].status = "completed" => task[u].status = "completed")
    <3> DEFINE y == [task[t] EXCEPT !.status = "transferring", !.started = TRUE]
    <3>1. task[t] \in F!Tasks /\ t \in Transfers /\ task \in [Transfers -> F!Tasks]
      BY <2>1, PlanIs DEF TransferInv, TransferTyped
    <3>2. y \in F!Tasks /\ y.done = task[t].done /\ y.status = "transferring"
      BY <3>1 DEF F!Tasks, F!Statuses
    <3>3. task' = task \/ task' = [task EXCEPT ![t] = y]
      BY <1>2, <3>1 DEF F!Begin, F!Tasks
    <3> HIDE DEF y
    <3> QED BY <3>1, <3>2, <3>3
  <2>5. TransferTyped'
    BY <1>2, <2>2, <2>3, SamePlan DEF TransferInv, TransferTyped, F!Begin
  <2>6. SaysNoMore
    BY <1>2, <2>3, PlanIs DEF F!Begin, SaysNoMore
  <2>7. \A u \in F!Todo : InOrder(u)'
    BY <1>2, SameOrder DEF F!Begin
  <2> QED BY <1>2, <2>5, <2>6, <2>7, Untouched DEF F!Begin
<1>3. CASE F!Finish(w)
  <2> DEFINE x == [worker[w] EXCEPT !.pc = "judged"]
             t == worker[w].task
  <2>1. worker[w] \in Taken /\ t \in F!Todo
    BY <1>3 DEF TransferInv, TransferTyped, F!Finish, F!Free, Taken
  <2>2. x \in {F!Free} \union Taken /\ worker' = [worker EXCEPT ![w] = x] /\ UNCHANGED transferPlan
    BY <1>3, <2>1 DEF F!Finish, Taken
  <2>3. /\ task' \in [Transfers -> F!Tasks]
        /\ \A u \in Transfers : task'[u].done = task[u].done
                                /\ (task'[u].status = "completed" => task[u].status = "completed" \/ task[u].done)
    <3>1. task[t] \in F!Tasks /\ t \in Transfers /\ task \in [Transfers -> F!Tasks]
      BY <2>1, PlanIs DEF TransferInv, TransferTyped
    <3>2. PICK status \in {"completed", "failed"} :
            (status = "completed" => task[t].done) /\ task' = [task EXCEPT ![t].status = status]
      BY <1>3 DEF F!Finish
    <3> QED BY <3>1, <3>2 DEF F!Tasks, F!Statuses
  <2>5. TransferTyped'
    BY <1>3, <2>2, <2>3, SamePlan DEF TransferInv, TransferTyped, F!Finish
  <2>6. SaysNoMore
    BY <1>3, <2>3, PlanIs DEF F!Finish, SaysNoMore
  <2>7. \A u \in F!Todo : InOrder(u)'
    BY <1>3, SameOrder DEF F!Finish
  <2> QED BY <1>3, <2>5, <2>6, <2>7, Untouched DEF F!Finish
<1>4. CASE F!Record(w)
  <2> DEFINE t == worker[w].task
  <2>1. worker[w] \in Taken /\ t \in F!Todo
    BY <1>4 DEF TransferInv, TransferTyped, F!Record, F!Free, Taken
  <2>2. worker' = [worker EXCEPT ![w] = F!Free] /\ UNCHANGED transferPlan
    BY <1>4 DEF F!Record
  <2>3. /\ row' \in [Transfers -> F!Statuses \union {"none"}]
        /\ \A u \in Transfers : row'[u] = row[u] \/ row'[u] = task[u].status
    BY <1>4, <2>1, PlanIs DEF TransferInv, TransferTyped, F!Record, F!Tasks
  <2>5. TransferTyped'
    BY <1>4, <2>2, <2>3, SamePlan DEF TransferInv, TransferTyped, F!Record
  <2>6. SaysNoMore
    BY <1>4, <2>3, PlanIs DEF F!Record, SaysNoMore
  <2>7. \A u \in F!Todo : InOrder(u)'
    BY <1>4, SameOrder DEF F!Record
  <2> QED BY <1>4, <2>5, <2>6, <2>7, Untouched DEF F!Record
<1> QED BY <1>1, <1>2, <1>3, <1>4 DEF F!Work

\* A request at work has a task.
LEMMA RequestIs ==
  ASSUME TransferInv, NEW q \in TransferRequests, request[q].pc # "idle"
  PROVE  request[q] \in Asked /\ request[q].task \in F!Todo /\ request[q].task \in Transfers
BY PlanIs DEF TransferInv, TransferTyped, Asked, F!Free

\* A request loads its task.
LEMMA LoadKeeps ==
  ASSUME TransferInv, NEW q \in TransferRequests, NEW op \in {"chunk", "complete", "cancel"}, F!Load(q, op)
  PROVE  TransferInv'
<1>1. PICK t \in F!Todo : request' = [request EXCEPT ![q] = [pc |-> "loaded", op |-> op, task |-> t]]
  BY DEF F!Load
<1>2. request' \in [TransferRequests -> {F!Free} \union Asked]
  BY <1>1 DEF TransferInv, TransferTyped, Asked
<1>3. TransferTyped'
  BY <1>2, SamePlan DEF TransferInv, TransferTyped, F!Load
<1>4. SaysNoMore
  BY DEF F!Load, SaysNoMore
<1>5. \A u \in F!Todo : InOrder(u)'
  BY SameOrder DEF F!Load
<1> QED BY <1>3, <1>4, <1>5, Untouched DEF F!Load

\* A chunk beyond the last keeps the order.
LEMMA ChunkInOrder ==
  ASSUME NEW s \in Seq(Nat), NEW committed \in Nat, NEW size \in Nat, NEW i \in 1 .. size,
         Len(s) <= committed, i > committed,
         \A j \in 1 .. Len(s) : j <= s[j] /\ s[j] + (Len(s) - j) <= committed
  PROVE  LET r == Append(s, i)
         IN /\ r \in Seq(Nat) /\ Len(r) <= i
            /\ \A j \in 1 .. Len(r) : j <= r[j] /\ r[j] + (Len(r) - j) <= i
<1> DEFINE r == Append(s, i)
<1>1. i \in Nat /\ r \in Seq(Nat) /\ Len(s) \in Nat /\ Len(r) = Len(s) + 1 /\ r[Len(s) + 1] = i
      /\ \A j \in 1 .. Len(s) : r[j] = s[j]
  BY AppendFacts
<1>2. PICK n \in Nat : n = Len(s)
  BY <1>1
<1> HIDE DEF r
<1>3. ASSUME NEW j \in 1 .. n PROVE j <= r[j] /\ r[j] + (n + 1 - j) <= i
  <2>1. PICK x \in Nat : x = s[j] /\ r[j] = x /\ j <= x /\ x + (n - j) <= committed
    BY <1>1, <1>2, <1>3, ElementOfSeq
  <2> QED BY <2>1, <1>2
<1>4. n + 1 <= r[n + 1] /\ r[n + 1] + (n + 1 - (n + 1)) <= i
  BY <1>1, <1>2
<1>5. \A j \in 1 .. n + 1 : j <= r[j] /\ r[j] + (n + 1 - j) <= i
  BY <1>3, <1>4, <1>2
<1> QED BY <1>1, <1>2, <1>5 DEF r

\* A chunk is written where it belongs (UploadChunk).
LEMMA ChunkKeeps ==
  ASSUME TransferInv, NEW q \in TransferRequests, F!UploadChunk(q)
  PROVE  TransferInv'
<1>0. request[q].pc # "idle" /\ request' = [request EXCEPT ![q] = F!Free] /\ UNCHANGED transferPlan
  BY DEF F!UploadChunk, F!Holds, F!Answer
<1>t. request[q].task \in F!Todo
  BY <1>0, RequestIs
<1> PICK t \in F!Todo : t = request[q].task
  BY <1>t, Zenon
<1> DEFINE s == session[t]
<1>1. t \in Transfers /\ request' \in [TransferRequests -> {F!Free} \union Asked]
  <2>1. request \in [TransferRequests -> {F!Free} \union Asked]
    BY DEF TransferInv, TransferTyped
  <2>2. t \in Transfers
    BY PlanIs
  <2> QED BY <1>0, <2>1, <2>2
<1>2. PICK i \in 1 .. F!Of(t).size :
        session' = IF s.temp = "open" /\ i > s.committed
                   THEN [session EXCEPT ![t].received = Append(@, i), ![t].committed = i]
                   ELSE session
  BY DEF F!UploadChunk
<1> DEFINE y == [s EXCEPT !.received = Append(s.received, i), !.committed = i]
<1>3. s \in Uploading /\ session \in [Transfers -> Uploading] /\ F!Of(t).size \in Nat
  BY <1>1, PlanIs DEF TransferInv, TransferTyped
<1>4. y \in Uploading /\ y.received = Append(s.received, i) /\ y.committed = i
  <2>1. s.received \in Seq(Nat) /\ i \in Nat /\ Append(s.received, i) \in Seq(Nat)
    BY <1>3, <1>2, AppendFacts DEF Uploading
  <2> QED BY <2>1, <1>3 DEF Uploading
<1>5. session' = session \/ (i > s.committed /\ session' = [session EXCEPT ![t] = y])
  BY <1>1, <1>2, <1>3
<1>6. session' \in [Transfers -> Uploading]
  BY <1>3, <1>4, <1>5
<1>7. TransferTyped'
  BY <1>1, <1>6, SamePlan DEF TransferInv, TransferTyped, F!UploadChunk
<1>8. SaysNoMore
  BY DEF F!UploadChunk, SaysNoMore
<1>9. ASSUME NEW u \in F!Todo PROVE InOrder(u)'
  <2>1. CASE session'[u] = session[u]
    BY <2>1, SameOrder DEF F!UploadChunk
  <2>2. CASE session'[u] # session[u]
    <3>1. u = t /\ i > s.committed /\ session'[u] = y
      <4>1. u \in Transfers /\ session' # session
        BY <2>2, PlanIs
      <4>2. i > s.committed /\ session' = [session EXCEPT ![t] = y]
        BY <4>1, <1>5
      <4> HIDE DEF y, s
      <4> QED BY <4>1, <4>2, <1>1, <1>3, <2>2
    <3>2. InOrder(t)
      BY <1>1 DEF TransferInv
    <3>3. LET r == Append(s.received, i)
          IN /\ r \in Seq(Nat) /\ Len(r) <= i
             /\ \A j \in 1 .. Len(r) : j <= r[j] /\ r[j] + (Len(r) - j) <= i
      BY <3>1, <3>2, <1>2, <1>3, ChunkInOrder DEF InOrder
    <3>4. F!Of(t)' = F!Of(t) /\ i \in Nat /\ i <= F!Of(t).size
      BY <1>0, <1>2, <1>3 DEF F!Of
    <3>5. /\ session[u].received' = Append(s.received, i) /\ session[u].committed' = i
          /\ F!Of(u)' = F!Of(t)
      BY <3>1, <3>4, <1>4
    <3> HIDE DEF s, y
    <3> QED BY <3>3, <3>4, <3>5 DEF InOrder
  <2> QED BY <2>1, <2>2
<1> QED BY <1>7, <1>8, <1>9, Untouched DEF F!UploadChunk

\* A session that is closed or gone.
LEMMA SessionCloses ==
  ASSUME TransferInv, NEW t \in Transfers, UNCHANGED transferPlan,
         session' = [session EXCEPT ![t].temp = "closed"] \/ session' = [session EXCEPT ![t] = F!NoSession]
  PROVE  session' \in [Transfers -> Uploading] /\ \A u \in F!Todo : InOrder(u)'
<1>1. session \in [Transfers -> Uploading] /\ session[t] \in Uploading
  BY DEF TransferInv, TransferTyped
<1> DEFINE Ended(x) == x \in Uploading /\ \/ x.received = session[t].received /\ x.committed = session[t].committed
                                          \/ x.received = <<>> /\ x.committed = 0
<1>2. PICK x : Ended(x) /\ session' = [session EXCEPT ![t] = x]
  <2>1. CASE session' = [session EXCEPT ![t].temp = "closed"]
    <3> DEFINE x == [session[t] EXCEPT !.temp = "closed"]
    <3>1. Ended(x)
      BY <1>1 DEF Uploading
    <3>2. session' = [session EXCEPT ![t] = x]
      BY <2>1
    <3> QED BY <3>1, <3>2
  <2>2. CASE session' = [session EXCEPT ![t] = F!NoSession]
    <3>1. <<>> \in Seq(Nat)
      OBVIOUS
    <3>2. Ended(F!NoSession)
      BY <3>1 DEF F!NoSession, Uploading
    <3> QED BY <2>2, <3>2
  <2> QED BY <2>1, <2>2
<1>3. session' \in [Transfers -> Uploading]
  BY <1>1, <1>2
<1>4. \A u \in Transfers : session'[u] = IF u = t THEN x ELSE session[u]
  BY <1>1, <1>2
<1>5. ASSUME NEW u \in F!Todo PROVE InOrder(u)'
  <2>1. \/ session'[u].received = session[u].received /\ session'[u].committed = session[u].committed
        \/ session'[u].received = <<>> /\ session'[u].committed = 0
    BY <1>2, <1>4, PlanIs
  <2> QED BY <2>1, SameOrder
<1> QED BY <1>3, <1>5

\* A request answers, or goes on to save.
LEMMA RequestMoves ==
  ASSUME TransferInv, NEW q \in TransferRequests, request[q].pc # "idle",
         F!Answer(q) \/ F!Saves(q)
  PROVE  request' \in [TransferRequests -> {F!Free} \union Asked]
<1>1. request[q] \in Asked /\ request \in [TransferRequests -> {F!Free} \union Asked]
  BY RequestIs DEF TransferInv, TransferTyped
<1>2. [request[q] EXCEPT !.pc = "save"] \in Asked
  BY <1>1 DEF Asked
<1>3. CASE F!Answer(q)
  BY <1>1, <1>3 DEF F!Answer
<1>4. CASE F!Saves(q)
  BY <1>1, <1>2, <1>4 DEF F!Saves
<1> QED BY <1>3, <1>4

\* An upload is cancelled (CancelUpload).
LEMMA CancelUploadKeeps ==
  ASSUME TransferInv, NEW q \in TransferRequests, F!CancelUpload(q)
  PROVE  TransferInv'
<1>1. request[q].pc # "idle" /\ F!Saves(q) /\ UNCHANGED transferPlan
  BY DEF F!CancelUpload, F!Holds
<1>2. request[q].task \in F!Todo
  BY <1>1, RequestIs
<1> PICK t \in F!Todo : t = request[q].task
  BY <1>2, Zenon
<1>3. t \in Transfers
  BY PlanIs
<1>4. session' \in [Transfers -> Uploading] /\ \A u \in F!Todo : InOrder(u)'
  BY <1>1, <1>3, SessionCloses DEF F!CancelUpload
<1>5. /\ task' \in [Transfers -> F!Tasks]
      /\ \A u \in Transfers : task'[u].done = task[u].done /\ (task'[u].status = "completed" => task[u].status = "completed")
  <2>1. task[t] \in F!Tasks /\ task \in [Transfers -> F!Tasks]
    BY <1>3 DEF TransferInv, TransferTyped
  <2>2. task' = [task EXCEPT ![t].status = "cancelled"]
    BY DEF F!CancelUpload
  <2> QED BY <1>3, <2>1, <2>2 DEF F!Tasks, F!Statuses
<1>6. request' \in [TransferRequests -> {F!Free} \union Asked]
  BY <1>1, RequestMoves
<1>7. TransferTyped'
  BY <1>1, <1>4, <1>5, <1>6, SamePlan DEF TransferInv, TransferTyped, F!CancelUpload
<1>8. SaysNoMore
  BY <1>5, PlanIs DEF F!CancelUpload, SaysNoMore
<1> QED BY <1>4, <1>7, <1>8, Untouched DEF F!CancelUpload

\* A request saves the task it loaded, whatever became of it since.
LEMMA SaveTaskKeeps ==
  ASSUME TransferInv, NEW q \in TransferRequests, F!SaveTask(q)
  PROVE  TransferInv'
<1>1. request[q].pc # "idle" /\ F!Answer(q) /\ UNCHANGED transferPlan
  BY DEF F!SaveTask
<1>2. request[q].task \in F!Todo
  BY <1>1, RequestIs
<1> PICK t \in F!Todo : t = request[q].task
  BY <1>2, Zenon
<1>3. t \in Transfers
  BY PlanIs
<1>4. session' \in [Transfers -> Uploading] /\ \A u \in F!Todo : InOrder(u)'
  BY <1>1, <1>3, SessionCloses DEF F!SaveTask
<1>5. /\ row' \in [Transfers -> F!Statuses \union {"none"}]
      /\ \A u \in Transfers : row'[u] = row[u] \/ row'[u] = task[u].status
  BY <1>3 DEF TransferInv, TransferTyped, F!SaveTask, F!Tasks
<1>6. request' \in [TransferRequests -> {F!Free} \union Asked]
  BY <1>1, RequestMoves
<1>7. TransferTyped'
  BY <1>1, <1>4, <1>5, <1>6, SamePlan DEF TransferInv, TransferTyped, F!SaveTask
<1>8. SaysNoMore
  BY <1>5, PlanIs DEF F!SaveTask, SaysNoMore
<1> QED BY <1>4, <1>7, <1>8, Untouched DEF F!SaveTask

\* A task is cancelled (CancelTask).
LEMMA CancelTaskKeeps ==
  ASSUME TransferInv, NEW t \in Transfers, F!CancelTask(t)
  PROVE  TransferInv'
<1>1. /\ task' \in [Transfers -> F!Tasks]
      /\ \A u \in Transfers : task'[u].done = task[u].done /\ (task'[u].status = "completed" => task[u].status = "completed")
  <2> DEFINE y == [task[t] EXCEPT !.status = "cancelled", !.cancelled = TRUE]
  <2>1. task[t] \in F!Tasks /\ task \in [Transfers -> F!Tasks]
    BY DEF TransferInv, TransferTyped
  <2>2. y \in F!Tasks /\ y.done = task[t].done /\ y.status = "cancelled"
    BY <2>1 DEF F!Tasks, F!Statuses
  <2>3. task' = [task EXCEPT ![t] = y]
    BY DEF F!CancelTask
  <2> HIDE DEF y
  <2> QED BY <2>1, <2>2, <2>3
<1>2. TransferTyped'
  BY <1>1, SamePlan DEF TransferInv, TransferTyped, F!CancelTask, F!Statuses
<1>3. SaysNoMore
  BY <1>1, PlanIs DEF TransferInv, TransferTyped, F!CancelTask, SaysNoMore
<1>4. \A u \in F!Todo : InOrder(u)'
  BY SameOrder DEF F!CancelTask
<1> QED BY <1>2, <1>3, <1>4, Untouched DEF F!CancelTask

\* A download begins to be served (StartDownload).
LEMMA DownloadKeeps ==
  ASSUME TransferInv, NEW t \in Transfers, F!Download(t)
  PROVE  TransferInv'
<1>1. /\ task' \in [Transfers -> F!Tasks]
      /\ \A u \in Transfers : u # t => task'[u] = task[u]
  <2>1. CASE task' = task
    BY <2>1 DEF TransferInv, TransferTyped
  <2>2. CASE task' = [task EXCEPT ![t].status = "completed"]
    BY <2>2 DEF TransferInv, TransferTyped, F!Tasks, F!Statuses
  <2> QED BY <2>1, <2>2 DEF F!Download
<1>2. TransferTyped'
  BY <1>1, SamePlan DEF TransferInv, TransferTyped, F!Download, F!Statuses
<1>3. SaysNoMore
  BY <1>1, PlanIs DEF TransferInv, TransferTyped, F!Download, SaysNoMore
<1>4. \A u \in F!Todo : InOrder(u)'
  BY SameOrder DEF F!Download
<1> QED BY <1>2, <1>3, <1>4, Untouched DEF F!Download

\* The server restarts: sessions and the queue are lost, files and rows stay
\* (restorePendingTasks).
LEMMA RestartKeeps ==
  ASSUME TransferInv, F!Restart
  PROVE  TransferInv'
<1> DEFINE pending == F!SetToSeq({t \in F!Todo : row[t] = "pending"})
           fits == F!Min({TaskQueueSize, Len(pending)})
<1>1. pending \in Seq(F!Todo) /\ F!ToSet(pending) \subseteq F!Todo
  <2>1. IsFiniteSet({t \in F!Todo : row[t] = "pending"})
    BY PlanIs, FS_Subset
  <2>2. pending \in Seq({t \in F!Todo : row[t] = "pending"}) /\ F!ToSet(pending) \subseteq {t \in F!Todo : row[t] = "pending"}
    BY <2>1, SetToSeqIs
  <2> QED BY <2>2
<1>2. fits \in Nat /\ fits <= TaskQueueSize /\ fits <= Len(pending)
  BY <1>1, MinIs, TransferAssumption
<1>3. taskQueue' \in Seq(F!Todo) /\ Len(taskQueue') <= TaskQueueSize
  <2>1. taskQueue' = SubSeq(pending, 1, fits)
    BY DEF F!Restart
  <2> HIDE DEF pending, fits
  <2> QED BY <1>1, <1>2, <2>1
<1>4. F!NewTask \in F!Tasks /\ ~F!NewTask.done /\ F!NewTask.status = "pending"
  BY DEF F!NewTask, F!Tasks, F!Statuses
<1>5. F!NoSession \in Uploading
  <2>1. <<>> \in Seq(Nat)
    OBVIOUS
  <2> QED BY <2>1 DEF F!NoSession, Uploading
<1>6. /\ row' \in [Transfers -> F!Statuses \union {"none"}]
      /\ \A t \in Transfers : row'[t] = "completed" => row[t] = "completed"
  BY DEF TransferInv, TransferTyped, F!Restart, F!Statuses
<1>7. crashes' \in 0 .. transferPlan.crashes
  BY PlanIs DEF TransferInv, TransferTyped, F!Restart
<1>8. active' \subseteq F!Todo
  BY <1>1 DEF F!Restart
<1>9. entry' \in [Transfers -> {"none", "queued", "marked", "refused", "ready"}]
      /\ \A t \in Transfers : entry'[t] # "none" => entry[t] # "none"
  BY DEF F!Restart
<1>10. TransferTyped'
  BY <1>3, <1>4, <1>5, <1>6, <1>7, <1>8, <1>9, SamePlan DEF TransferInv, TransferTyped, F!Restart
<1>11. SaysNoMore
  BY <1>4, <1>6, PlanIs DEF F!Restart, SaysNoMore
<1>12. ASSUME NEW u \in F!Todo PROVE InOrder(u)'
  <2>1. session'[u] = F!NoSession
    BY PlanIs DEF F!Restart
  <2>2. session'[u].received = <<>> /\ session'[u].committed = 0
    BY <2>1 DEF F!NoSession
  <2>3. UNCHANGED transferPlan
    BY DEF F!Restart
  <2> QED BY <2>2, <2>3, SameOrder
<1> QED BY <1>10, <1>11, <1>12, Untouched DEF F!Restart

\* What the storage does with an upload that is whole.
LEMMA StoreIs ==
  ASSUME TransferInv, UNCHANGED transferPlan, NEW t \in F!Todo, NEW data, F!Store(t, data)
  PROVE  /\ files \subseteq files' /\ Sized(files') /\ F!QuotaKept'
         /\ \A f \in files' : f.storage \in Paths /\ f.size \in Nat
         /\ DOMAIN transferDisk' \subseteq Paths
         /\ F!Stored(t, data) => \E f \in files' : f.hash = F!Hash(t, data)
<1> DEFINE stored == [path |-> F!Of(t).path, storage |-> F!StoragePath(t), hash |-> F!Hash(t, data),
                    user |-> F!Of(t).user, size |-> F!Of(t).size]
           known == \E f \in files : f.hash = stored.hash
           taken == \E f \in files : f.path = stored.path
<1>1. stored.storage \in Paths /\ stored.size \in Nat /\ stored.hash = F!Hash(t, data)
      /\ stored.size = F!Of(t).size /\ stored.user = F!Of(t).user /\ stored.path = F!Of(t).path
  BY PlanIs DEF Paths
<1>2. /\ DOMAIN transferDisk \subseteq Paths /\ Sized(files) /\ F!QuotaKept
      /\ \A f \in files : f.storage \in Paths /\ f.size \in Nat
  BY DEF TransferInv, TransferTyped
<1>3. \/ files' = files /\ transferDisk' = transferDisk /\ ~F!QuotaAllows(t)
      \/ files' = files /\ transferDisk' = F!Restrict(transferDisk, DOMAIN transferDisk \ {stored.storage}) /\ (known \/ taken)
      \/ /\ F!QuotaAllows(t) /\ ~known /\ ~taken
         /\ files' = files \union {stored} /\ transferDisk' = F!Put(stored.storage, stored.hash)
  BY DEF F!Store
<1>4. F!Stored(t, data) => F!QuotaAllows(t) /\ (known \/ ~taken)
  BY DEF F!Stored
<1> HIDE DEF stored
<1>5. CASE files' = files
  <2>1. DOMAIN transferDisk' \subseteq Paths
    <3>1. CASE transferDisk' = transferDisk
      BY <1>2, <3>1
    <3>2. CASE transferDisk' = F!Restrict(transferDisk, DOMAIN transferDisk \ {stored.storage})
      BY <1>2, <3>2 DEF F!Restrict
    <3>3. CASE transferDisk' = F!Put(stored.storage, stored.hash)
      BY <1>1, <1>2, <3>3 DEF F!Put
    <3> QED BY <1>3, <3>1, <3>2, <3>3
  <2>2. F!QuotaKept'
    <3>1. \A u : F!Used(u)' = F!Used(u)
      BY <1>5, UsedIs
    <3> QED BY <1>2, <1>5, <3>1 DEF F!QuotaKept
  <2>3. F!Stored(t, data) => \E f \in files' : f.hash = F!Hash(t, data)
    BY <1>1, <1>3, <1>4, <1>5
  <2> QED BY <1>2, <1>5, <2>1, <2>2, <2>3
<1>6. CASE files' # files
  <2>1. /\ F!QuotaAllows(t) /\ ~known /\ ~taken
        /\ files' = files \union {stored} /\ transferDisk' = F!Put(stored.storage, stored.hash)
    BY <1>3, <1>6
  <2>2. DOMAIN transferDisk' \subseteq Paths
    BY <1>1, <1>2, <2>1 DEF F!Put
  <2>3. Sized(files')
    BY <1>1, <1>2, <2>1, FS_AddElement DEF Sized
  <2>4. stored \notin files
    BY <2>1
  <2>5. ASSUME NEW f \in files', f.user # "anonymous" PROVE F!Used(f.user)' <= transferPlan.quota
    <3> DEFINE own == {g \in files : g.user = f.user}
    <3>1. Sized(own)
      BY <1>2, FS_Subset DEF Sized
    <3>2. F!Used(f.user) = Total(own) /\ F!Used(f.user)' = Total({g \in files' : g.user = f.user})
      BY UsedIs
    <3>3. CASE f.user = stored.user
      <4>1. {g \in files' : g.user = f.user} = own \union {stored} /\ stored \notin own
        BY <2>1, <2>4, <3>3
      <4>2. F!Used(f.user)' = Total(own) + stored.size
        BY <1>1, <3>1, <3>2, <4>1, TotalAdd
      <4>3. F!Used(f.user) + stored.size <= transferPlan.quota
        BY <1>1, <2>1, <3>3, <2>5 DEF F!QuotaAllows
      <4> QED BY <3>2, <4>2, <4>3
    <3>4. CASE f.user # stored.user
      <4>1. {g \in files' : g.user = f.user} = own /\ f \in files
        BY <2>1, <3>4
      <4> QED BY <1>2, <2>5, <3>2, <4>1 DEF F!QuotaKept
    <3> QED BY <3>3, <3>4
  <2>6. F!QuotaKept'
    <3>1. transferPlan' = transferPlan
      OBVIOUS
    <3> QED BY <2>5, <3>1 DEF F!QuotaKept
  <2> QED BY <1>1, <1>2, <2>1, <2>2, <2>3, <2>6
<1> QED BY <1>5, <1>6

\* Chunks in order that are as many as the whole are the whole.
LEMMA OrderIsWhole ==
  ASSUME TransferInv, NEW t \in F!Todo, Len(session[t].received) = F!Of(t).size
  PROVE  session[t].received = F!Whole(t)
<1>0. session[t].committed \in Nat /\ F!Of(t).size \in Nat
  BY PlanIs DEF TransferInv, InOrder
<1>1. PICK r, c, n : r = session[t].received /\ c = session[t].committed /\ n = F!Of(t).size /\ c \in Nat /\ n \in Nat
  BY <1>0
<1>2. /\ r \in Seq(Nat) /\ Len(r) = n /\ n <= c /\ c <= n
      /\ \A i \in 1 .. n : i <= r[i] /\ r[i] + (n - i) <= c
  BY <1>1 DEF TransferInv, InOrder
<1>3. ASSUME NEW i \in 1 .. n PROVE r[i] = i
  <2>1. r[i] \in Nat
    BY <1>2, ElementOfSeq
  <2>2. i <= r[i] /\ r[i] + (n - i) <= c /\ c = n /\ n \in Nat
    BY <1>1, <1>2
  <2> HIDE <1>2
  <2> QED BY <2>1, <2>2
<1>4. r \in [1 .. n -> Nat]
  BY <1>2, LenProperties
<1>5. r = [i \in 1 .. n |-> i]
  BY <1>3, <1>4
<1> QED BY <1>1, <1>5 DEF F!Whole

\* An upload is checked and stored within the quota (CompleteUpload, Store).
LEMMA CompleteKeeps ==
  ASSUME TransferInv, NEW q \in TransferRequests, F!CompleteUpload(q)
  PROVE  TransferInv'
<1>1. request[q].pc # "idle" /\ UNCHANGED transferPlan /\ (F!Answer(q) \/ F!Saves(q))
  BY DEF F!CompleteUpload, F!Holds
<1>2. request[q].task \in F!Todo
  BY <1>1, RequestIs
<1> PICK t \in F!Todo : t = request[q].task
  BY <1>2, Zenon
<1>3. t \in Transfers
  BY PlanIs
<1>4. session' \in [Transfers -> Uploading] /\ \A u \in F!Todo : InOrder(u)'
  BY <1>1, <1>3, SessionCloses DEF F!CompleteUpload
<1>5. request' \in [TransferRequests -> {F!Free} \union Asked]
  BY <1>1, RequestMoves
<1> PICK data : data = session[t].received
  OBVIOUS
<1> DEFINE right == session[t].temp = "open" /\ Len(data) = F!Of(t).size
<1>6. right => data = F!Whole(t)
  BY OrderIsWhole
<1>7. /\ (right /\ F!Store(t, data)) \/ (~right /\ UNCHANGED <<files, transferDisk>>)
      /\ \/ /\ right /\ F!Stored(t, data)
            /\ task' = [task EXCEPT ![t].status = "completed", ![t].done = TRUE]
         \/ UNCHANGED task
  BY DEF F!CompleteUpload
<1>8. /\ files \subseteq files' /\ Sized(files') /\ F!QuotaKept'
      /\ \A f \in files' : f.storage \in Paths /\ f.size \in Nat
      /\ DOMAIN transferDisk' \subseteq Paths
      /\ right /\ F!Stored(t, data) => \E f \in files' : f.hash = F!Hash(t, data)
  <2>1. CASE right /\ F!Store(t, data)
    BY <1>1, <2>1, StoreIs
  <2>2. CASE ~right /\ UNCHANGED <<files, transferDisk>>
    <3>1. \A u : F!Used(u)' = F!Used(u)
      BY <2>2, UsedIs
    <3>2. F!QuotaKept'
      BY <1>1, <2>2, <3>1 DEF TransferInv, F!QuotaKept
    <3> QED BY <2>2, <3>2 DEF TransferInv, TransferTyped
  <2> QED BY <1>7, <2>1, <2>2
<1>9. /\ task' \in [Transfers -> F!Tasks]
      /\ \A u \in Transfers : task'[u] = task[u] \/ (u = t /\ right /\ F!Stored(t, data))
  <2> DEFINE y == [task[t] EXCEPT !.status = "completed", !.done = TRUE]
  <2>1. task[t] \in F!Tasks /\ task \in [Transfers -> F!Tasks]
    BY <1>3 DEF TransferInv, TransferTyped
  <2>2. y \in F!Tasks
    BY <2>1 DEF F!Tasks, F!Statuses
  <2>3. task' = task \/ (right /\ F!Stored(t, data) /\ task' = [task EXCEPT ![t] = y])
    BY <1>7
  <2> HIDE DEF y, right
  <2> QED BY <1>3, <2>1, <2>2, <2>3
<1>10. TransferTyped'
  BY <1>1, <1>4, <1>5, <1>8, <1>9, SamePlan DEF TransferInv, TransferTyped, F!CompleteUpload
<1>11. ASSUME NEW u \in F!Todo,
              F!Of(u).kind = "upload" /\ (task'[u].done \/ task'[u].status = "completed" \/ row'[u] = "completed")
       PROVE  \E f \in files' : f.hash = F!Hash(u, F!Whole(u))
  <2>1. CASE task'[u] = task[u]
    <3>1. row' = row
      BY DEF F!CompleteUpload
    <3>2. \E f \in files : f.hash = F!Hash(u, F!Whole(u))
      BY <1>11, <2>1, <3>1 DEF TransferInv, WholeIsThere
    <3> QED BY <1>8, <3>2
  <2>2. CASE u = t /\ right /\ F!Stored(t, data)
    BY <1>6, <1>8, <2>2
  <2> QED BY <1>9, <2>1, <2>2, PlanIs
<1>12. ASSUME NEW u \in F!Todo'
       PROVE  /\ (F!Of(u).kind = "upload" /\ (task[u].done \/ task[u].status = "completed" \/ row[u] = "completed"))'
                   => WholeIsThere(u)'
              /\ InOrder(u)'
  <2>1. u \in F!Todo /\ F!Of(u)' = F!Of(u) /\ F!Whole(u)' = F!Whole(u)
    BY <1>1, SamePlan
  <2>2. WholeIsThere(u)' <=> \E f \in files' : f.hash = F!Hash(u, F!Whole(u))
    BY <2>1 DEF WholeIsThere, F!Hash
  <2> QED BY <1>4, <1>11, <2>1, <2>2
<1> QED BY <1>8, <1>10, <1>12 DEF TransferInv

\* Every step of the transfers keeps the invariant.
LEMMA TransferNext == TransferInv /\ [F!Next]_(F!vars) => TransferInv'
<1> SUFFICES ASSUME TransferInv, [F!Next]_(F!vars) PROVE TransferInv'
  OBVIOUS
<1>1. ASSUME NEW t \in Transfers, F!InitUpload(t) \/ F!RequestDownload(t) PROVE TransferInv'
  BY <1>1, SubmitKeeps DEF F!InitUpload, F!RequestDownload
<1>2. ASSUME NEW q \in TransferRequests, F!Serve(q) PROVE TransferInv'
  BY <1>2, ChunkKeeps, CompleteKeeps, CancelUploadKeeps, SaveTaskKeeps DEF F!Serve
<1>3. CASE UNCHANGED F!vars
  <2>1. TransferTyped'
    BY <1>3, SamePlan DEF F!vars, TransferInv, TransferTyped
  <2>2. SaysNoMore
    BY <1>3 DEF F!vars, SaysNoMore
  <2>3. \A u \in F!Todo : InOrder(u)'
    BY <1>3, SameOrder DEF F!vars
  <2> QED BY <1>3, <2>1, <2>2, <2>3, Untouched DEF F!vars
<1> QED BY <1>1, <1>2, <1>3, MarkPendingKeeps, OpenSessionKeeps, CancelTaskKeeps, DownloadKeeps,
          WorkKeeps, LoadKeeps, RestartKeeps DEF F!Next

\* The files and quotas of the check.
LEMMA TransferShows == TransferInv => F!TypeOK /\ F!CompletedIsWhole /\ F!QuotaKept
<1> SUFFICES ASSUME TransferInv PROVE F!TypeOK /\ F!CompletedIsWhole /\ F!QuotaKept
  OBVIOUS
<1>1. F!TypeOK
  BY TypedIsOK DEF TransferInv
<1> QED BY <1>1 DEF TransferInv, F!CompletedIsWhole, WholeIsThere

-----------------------------------------------------------------------------
(* Messages (Messages).  Where each copy of a message stands, at its       *)
(* sender, on the way, at its receiver, agrees with what the others know.  *)

\* A copy that has reached nobody's handler.
MessageFresh == {"none", "sending", "sent", "accepted"}

\* A copy waits at its receiver.
Queued(m) == \E i \in 1 .. Len(queue[M!Receiver(m)]) : queue[M!Receiver(m)][i] = m

\* The receiver's handler has not had the copy.
Unseen(m) == messageJob[m] = "none" /\ ~Queued(m)

\* A copy is handled once, after it was dispatched, and answered once.
CopyInv(m) ==
  /\ copy[m] \in MessageFresh => Unseen(m)
  /\ Queued(m) => messageJob[m] = "none"
  /\ copy[m] \in MessageFresh \cup {"waiting"} => answer[m] = "none"
  /\ answer[m] = "success" => M!Ended(m) /\ messageJob[m] # "error"
  /\ answer[m] = "failure" => M!Ended(m)

\* What a call that sends one message knows of its copy.
CallInv(m) ==
  /\ messagePlan[m[1]].call # "broadcast" =>
       /\ copy[m] # "none" => m[2] = messagePlan[m[1]].client
       /\ messageCall[m[1]] \in {"idle", "created"} => copy[m] = "none"
       /\ m[2] \notin left[m[1]]
  /\ messagePlan[m[1]].call \notin {"broadcast", "message"} /\ messageCall[m[1]] = "refused" =>
       copy[m] \in {"none", "lost"} /\ Unseen(m)

\* What a broadcast knows of the copy for a client it listed.
ListedInv(m) ==
  /\ m[2] \in counted[m[1]].errors => copy[m] = "lost" /\ Unseen(m)
  /\ messagePlan[m[1]].call = "broadcast" =>
       /\ copy[m] # "none" \/ m[2] \in left[m[1]] => m[2] \in messageListed[m[1]]
       /\ m[2] \in left[m[1]] => copy[m] = "none"
       /\ m[2] \in messageListed[m[1]] => \/ m[2] \in left[m[1]] \/ copy[m] = "sending"
                                          \/ m[2] \in counted[m[1]].sent \/ m[2] \in counted[m[1]].errors
       /\ m[2] \in counted[m[1]].sent \/ m[2] \in counted[m[1]].errors => copy[m] \notin {"none", "sending"}
       /\ ~(m[2] \in counted[m[1]].sent /\ m[2] \in counted[m[1]].errors)
       /\ messageCall[m[1]] = "idle" => m[2] \notin messageListed[m[1]]
       /\ messageCall[m[1]] = "returned" => m[2] \notin left[m[1]] /\ copy[m] # "sending"

\* A copy waits once, in the queue of its receiver.
QueuedOnce ==
  \A n \in MessageClients \cup {M!Server} : \A i \in 1 .. Len(queue[n]) :
    /\ M!Receiver(queue[n][i]) = n
    /\ \A j \in 1 .. Len(queue[n]) : queue[n][i] = queue[n][j] => i = j

\* A promise is kept by the acknowledgement of its message.
PromiseInv(k) ==
  messagePlan[k].call \notin {"broadcast", "message"} =>
    /\ promise[k] = "success" => M!Ended(M!Copy(k)) /\ messageJob[M!Copy(k)] # "error"
    /\ promise[k] = "failure" => M!Ended(M!Copy(k)) \/ answer[M!Copy(k)] = "late"
    /\ messagePlan[k].call = "async" => promise[k] \notin {"success", "failure"}

\* A broadcast sends to so many clients at a time.
TokensKept == \A k \in MessageCalls : Cardinality(M!Sending(k)) <= Tokens

\* What messages keep.
MessageInv ==
  /\ M!TypeOK /\ QueuedOnce /\ TokensKept
  /\ \A m \in M!Copies : CopyInv(m) /\ CallInv(m) /\ ListedInv(m)
  /\ \A k \in MessageCalls : PromiseInv(k)

\* The plan gives what is sent.
LEMMA MessagePlanIs ==
  ASSUME M!TypeOK
  PROVE  /\ messagePlan \in MessagePlans
         /\ \A k \in MessageCalls : /\ messagePlan[k].call \in {"promise", "async", "send", "message", "broadcast"}
                                    /\ messagePlan[k].client \in MessageClients /\ M!Copy(k) \in M!Copies
                                    /\ M!Copy(k)[1] = k /\ M!Copy(k)[2] = messagePlan[k].client
                                    /\ messagePlan[k].wait \in BOOLEAN
                                    /\ messagePlan[k].type \in {"command", "event", "query"}
         /\ \A m \in M!Copies : M!Receiver(m) \in MessageClients \cup {M!Server} /\ m[1] \in MessageCalls /\ m[2] \in MessageClients
                              /\ m = <<m[1], m[2]>>
<1>1. messagePlan \in MessagePlans /\ messagePlan \in [MessageCalls -> [call : {"promise", "async", "send", "message", "broadcast"},
                                              client : MessageClients, type : {"command", "event", "query"},
                                              wait : BOOLEAN, callback : BOOLEAN]]
  BY MessageAssumption DEF M!TypeOK
<1>2. \A m \in M!Copies : m[1] \in MessageCalls /\ m[2] \in MessageClients /\ m = <<m[1], m[2]>>
  BY DEF M!Copies
<1> QED BY <1>1, <1>2 DEF M!Copy, M!Copies, M!Receiver

\* Nothing has been sent.
LEMMA MessageInit == M!Init => MessageInv
<1> SUFFICES ASSUME M!Init PROVE MessageInv
  OBVIOUS
<1>1. M!TypeOK
  <2>1. <<>> \in Seq(M!Copies)
    OBVIOUS
  <2>2. queue \in [MessageClients \cup {M!Server} -> Seq(M!Copies)]
    BY <2>1 DEF M!Init
  <2>3. counted \in [MessageCalls -> [sent : SUBSET MessageClients, errors : SUBSET MessageClients]]
    BY DEF M!Init
  <2> QED BY <2>2, <2>3 DEF M!Init, M!TypeOK
<1>2. QueuedOnce
  BY DEF M!Init, QueuedOnce
<1>3. TokensKept
  <2> SUFFICES ASSUME NEW k \in MessageCalls PROVE Cardinality(M!Sending(k)) <= Tokens
    BY DEF TokensKept
  <2>1. M!Sending(k) = {}
    BY DEF M!Init, M!Sending, M!Copies
  <2> QED BY <2>1, FS_EmptySet, MessageAssumption
<1>4. ASSUME NEW m \in M!Copies PROVE CopyInv(m) /\ CallInv(m) /\ ListedInv(m)
  <2>1. m[1] \in MessageCalls /\ m[2] \in MessageClients /\ M!Receiver(m) \in MessageClients \cup {M!Server}
    BY <1>1, MessagePlanIs
  <2>2. ~Queued(m) /\ messageJob[m] = "none"
    BY <2>1 DEF Queued, M!Init
  <2> QED BY <2>1, <2>2 DEF M!Init, CopyInv, CallInv, ListedInv, Unseen, MessageFresh
<1>5. \A k \in MessageCalls : PromiseInv(k)
  BY DEF M!Init, PromiseInv
<1> QED BY <1>1, <1>2, <1>3, <1>4, <1>5 DEF MessageInv

\* A step that leaves the queues alone.
LEMMA SameQueue ==
  ASSUME UNCHANGED <<messagePlan, queue>>
  PROVE  /\ \A m : M!Receiver(m)' = M!Receiver(m) /\ Queued(m)' = Queued(m)
         /\ QueuedOnce => QueuedOnce'
<1>1. \A m : M!Receiver(m)' = M!Receiver(m)
  BY DEF M!Receiver, M!Upward
<1>2. \A m : Queued(m)' = Queued(m)
  BY <1>1 DEF Queued
<1> QED BY <1>1, <1>2 DEF QueuedOnce, M!Receiver, M!Upward

\* A step of a caller that leaves the copies alone.
LEMMA CallerKeeps ==
  ASSUME MessageInv, UNCHANGED <<messagePlan, copy, queue, messageJob, answer, counted>>, M!TypeOK',
         \A m \in M!Copies : CallInv(m)' /\ ListedInv(m)', \A k \in MessageCalls : PromiseInv(k)'
  PROVE  MessageInv'
<1>1. (\A m : M!Receiver(m)' = M!Receiver(m) /\ Queued(m)' = Queued(m)) /\ QueuedOnce'
  BY SameQueue DEF MessageInv
<1>2. TokensKept'
  BY DEF MessageInv, TokensKept, M!Sending
<1>3. ASSUME NEW m \in M!Copies PROVE CopyInv(m)'
  BY <1>1 DEF MessageInv, CopyInv, Unseen, M!Ended
<1> QED BY <1>1, <1>2, <1>3 DEF MessageInv

\* What the steps of the callers leave alone.
LEMMA CallersType ==
  ASSUME MessageInv, NEW k \in MessageCalls,
         M!Create(k) \/ M!Refuse(k) \/ M!Broadcast(k) \/ M!Join(k) \/ M!Timeout(k)
  PROVE  M!TypeOK' /\ UNCHANGED <<messagePlan, copy, queue, messageJob, answer, counted>>
<1>0. M!TypeOK
  BY DEF MessageInv
<1>1. CASE M!Create(k)
  BY <1>0, <1>1 DEF M!Create, M!TypeOK, M!broadcastVars, M!receiverVars, M!handlerVars,
     M!callbackVars
<1>2. CASE M!Refuse(k)
  BY <1>0, <1>2 DEF M!Refuse, M!TypeOK, M!broadcastVars, M!receiverVars, M!handlerVars,
     M!callbackVars
<1>3. CASE M!Broadcast(k)
  BY <1>0, <1>3 DEF M!Broadcast, M!TypeOK, M!broadcastVars, M!receiverVars, M!handlerVars,
     M!callbackVars
<1>4. CASE M!Join(k)
  BY <1>0, <1>4 DEF M!Join, M!TypeOK, M!broadcastVars, M!receiverVars, M!handlerVars, M!callbackVars
<1>5. CASE M!Timeout(k)
  BY <1>0, <1>5 DEF M!Timeout, M!TypeOK, M!broadcastVars, M!receiverVars, M!handlerVars,
     M!callbackVars
<1> QED BY <1>1, <1>2, <1>3, <1>4, <1>5

\* A caller creates its promise, is refused, starts a broadcast, waits for its
\* sends, or gives up (SendToWithPromise, AsyncSend, Broadcast, SendMessage).
LEMMA MessageCallersKeep ==
  ASSUME MessageInv, NEW k \in MessageCalls,
         M!Create(k) \/ M!Refuse(k) \/ M!Broadcast(k) \/ M!Join(k) \/ M!Timeout(k)
  PROVE  MessageInv'
<1>0. /\ M!TypeOK /\ M!TypeOK' /\ UNCHANGED <<messagePlan, copy, queue, messageJob, answer, counted>>
      /\ \A m \in M!Copies : CopyInv(m) /\ CallInv(m) /\ ListedInv(m)
                             /\ m[1] \in MessageCalls /\ m[2] \in MessageClients
      /\ \A j \in MessageCalls : PromiseInv(j)
      /\ \A m : Queued(m)' = Queued(m)
  BY CallersType, MessagePlanIs, SameQueue DEF MessageInv
<1>1. ASSUME NEW m \in M!Copies PROVE CallInv(m)'
  <2>1. /\ m[1] # k => messageCall'[m[1]] = messageCall[m[1]] /\ left'[m[1]] = left[m[1]]
        /\ messagePlan[m[1]].call # "broadcast" => left'[m[1]] = left[m[1]]
        /\ messagePlan[m[1]].call # "broadcast" /\ messageCall'[m[1]] \in {"idle", "created"} => messageCall[m[1]] \in {"idle", "created"}
        /\ messageCall'[m[1]] = "refused" /\ messagePlan[m[1]].call \notin {"broadcast", "message"} =>
             messageCall[m[1]] \in {"idle", "created", "refused"}
    BY <1>0 DEF M!Create, M!Refuse, M!Broadcast, M!Join, M!Timeout, M!TypeOK, M!broadcastVars,
       M!Upward
  <2>2. m[1] \in MessageCalls /\ CallInv(m) /\ CopyInv(m)
    BY <1>0
  <2> QED BY <1>0, <2>1, <2>2 DEF CallInv, CopyInv, Unseen, MessageFresh
<1>2. ASSUME NEW m \in M!Copies PROVE ListedInv(m)'
  <2>1. CASE M!Broadcast(k) /\ m[1] = k
    <3>1. /\ messagePlan[k].call = "broadcast" /\ messageCall[k] = "idle" /\ messageListed'[k] = online
          /\ left'[k] = online
          /\ messageCall'[k] = "returned" => online = {}
          /\ messageCall'[k] \in {"returned", "sending"}
      BY <1>0, <2>1 DEF M!Broadcast, M!TypeOK
    <3> QED BY <1>0, <2>1, <3>1 DEF ListedInv, Unseen
  <2>2. CASE M!Join(k) /\ m[1] = k
    <3>1. messageCall'[k] = "returned" /\ UNCHANGED <<messageListed, left>> /\ left[k] = {} /\ copy[m] # "sending"
      BY <1>0, <2>2 DEF M!Join, M!TypeOK, M!broadcastVars, M!Sending, M!Copies
    <3> QED BY <1>0, <2>2, <3>1 DEF ListedInv, Unseen
  <2>3. CASE m[1] # k \/ ~(M!Broadcast(k) \/ M!Join(k))
    <3>1. /\ messageListed'[m[1]] = messageListed[m[1]] /\ left'[m[1]] = left[m[1]]
          /\ messagePlan[m[1]].call = "broadcast" => messageCall'[m[1]] = messageCall[m[1]]
      BY <1>0, <2>3 DEF M!Create, M!Refuse, M!Broadcast, M!Join, M!Timeout, M!TypeOK,
         M!broadcastVars, M!Upward
    <3> QED BY <1>0, <3>1 DEF ListedInv, Unseen
  <2> QED BY <2>1, <2>2, <2>3
<1>3. ASSUME NEW j \in MessageCalls PROVE PromiseInv(j)'
  <2>1. promise'[j] = promise[j] \/ promise'[j] \in {"open", "removed", "timeout"}
    BY <1>0 DEF M!Create, M!Refuse, M!Broadcast, M!Join, M!Timeout, M!TypeOK
  <2> QED BY <1>0, <2>1 DEF PromiseInv, M!Ended, M!Copy
<1> QED BY <1>0, <1>1, <1>2, <1>3, CallerKeeps

\* Who reads the answer, and the timer of SendMessage, end a call.
LEMMA ReadersKeep ==
  ASSUME MessageInv, NEW m \in M!Copies, M!ReadAck(m) \/ M!ReadOther(m)
  PROVE  MessageInv'
<1>0. /\ M!TypeOK /\ UNCHANGED <<messagePlan, online, messageListed, left, counted, copy, queue,
                                 messageJob, answer, callback, waiter, listening>>
      /\ \A n \in M!Copies : CopyInv(n) /\ CallInv(n) /\ ListedInv(n)
                             /\ n[1] \in MessageCalls /\ n[2] \in MessageClients
      /\ \A j \in MessageCalls : PromiseInv(j)
      /\ m[1] \in MessageCalls /\ m = <<m[1], m[2]>>
      /\ \A n : Queued(n)' = Queued(n)
  BY MessagePlanIs, SameQueue DEF MessageInv, M!ReadAck, M!ReadOther, M!broadcastVars,
     M!receiverVars, M!handlerVars, M!callbackVars
<1>1. /\ messagePlan[m[1]].call \in {"promise", "message"}
      /\ \/ promise' = promise
         \/ /\ messagePlan[m[1]].call = "promise" /\ copy[m] # "none"
            /\ \E r \in M!ReadFrame(m) : promise' = [promise EXCEPT ![m[1]] = r]
      /\ \/ messageCall' = [messageCall EXCEPT ![m[1]] = "returned"]
         \/ messageCall' = [messageCall EXCEPT ![m[1]] = "refused"] /\ messagePlan[m[1]].call = "message"
  BY DEF M!ReadAck, M!ReadOther, M!Upward
<1>2. ASSUME NEW r \in M!ReadFrame(m)
      PROVE  /\ r \in {"success", "failure", "error"}
             /\ r = "success" => answer[m] = "success"
             /\ r = "failure" => answer[m] \in {"failure", "late"}
  BY <1>2 DEF M!ReadFrame
<1>3. M!TypeOK'
  <2>1. promise' \in [MessageCalls -> {"none", "open", "success", "failure", "error", "timeout", "removed"}]
    BY <1>0, <1>1, <1>2 DEF M!TypeOK
  <2>2. messageCall' \in [MessageCalls -> {"idle", "created", "sending", "reading", "returned", "refused"}]
    BY <1>0, <1>1 DEF M!TypeOK
  <2> QED BY <1>0, <2>1, <2>2 DEF M!TypeOK
<1>4. ASSUME NEW n \in M!Copies PROVE CallInv(n)' /\ ListedInv(n)'
  <2>1. /\ n[1] # m[1] => messageCall'[n[1]] = messageCall[n[1]]
        /\ n[1] = m[1] => messagePlan[n[1]].call \in {"promise", "message"} /\ messageCall'[n[1]] \in {"returned", "refused"}
                          /\ (messagePlan[n[1]].call = "promise" => messageCall'[n[1]] = "returned")
    BY <1>0, <1>1 DEF M!TypeOK
  <2> QED BY <1>0, <2>1 DEF CallInv, ListedInv, Unseen
<1>5. ASSUME NEW j \in MessageCalls PROVE PromiseInv(j)'
  <2>1. CASE promise'[j] = promise[j]
    BY <1>0, <2>1 DEF PromiseInv, M!Ended, M!Copy
  <2>2. CASE promise'[j] # promise[j]
    <3>1. PICK r \in M!ReadFrame(m) : promise' = [promise EXCEPT ![m[1]] = r]
      BY <1>1, <2>2
    <3>2. j = m[1] /\ promise'[j] = r /\ messagePlan[j].call = "promise" /\ copy[m] # "none"
      BY <1>0, <1>1, <2>2, <3>1 DEF M!TypeOK
    <3>3. m = M!Copy(j)
      BY <1>0, <3>2 DEF CallInv, M!Copy
    <3> QED BY <1>0, <1>2, <3>2, <3>3 DEF PromiseInv, CopyInv, M!Ended, M!Copy
  <2> QED BY <2>1, <2>2
<1> QED BY <1>0, <1>3, <1>4, <1>5, CallerKeeps

\* Nothing that is promised depends on the callbacks.
LEMMA CallbacksKeep ==
  ASSUME MessageInv,
         \/ \E k \in MessageCalls : M!StoreCallback(k) \/ M!notifyCallbackListeners(k)
         \/ \E w \in Waiters : M!WaiterStep(w)
  PROVE  MessageInv'
<1>0. /\ M!TypeOK /\ UNCHANGED <<messagePlan, online, messageCall, promise, messageListed, left, counted,
                                 copy, queue, messageJob, answer>>
      /\ \A n \in M!Copies : CopyInv(n) /\ CallInv(n) /\ ListedInv(n)
      /\ \A j \in MessageCalls : PromiseInv(j)
      /\ \A n : Queued(n)' = Queued(n)
  BY SameQueue DEF MessageInv, M!StoreCallback, M!notifyCallbackListeners, M!WaiterStep,
     M!LookUp, M!Listen, M!StopListening,
    M!broadcastVars, M!handlerVars
<1>1. /\ callback' \in [MessageCalls -> {"none", "coming", "lost", "stored", "told"}]
      /\ waiter' \in [Waiters -> {"idle", "unknown", "listening", "got", "timeout"}]
      /\ listening' \subseteq Waiters
  <2>1. ASSUME NEW k \in MessageCalls, M!StoreCallback(k) \/ M!notifyCallbackListeners(k)
        PROVE  /\ callback' \in [MessageCalls -> {"none", "coming", "lost", "stored", "told"}]
               /\ waiter' \in [Waiters -> {"idle", "unknown", "listening", "got", "timeout"}]
               /\ listening' \subseteq Waiters
    BY <1>0, <2>1 DEF M!TypeOK, M!StoreCallback, M!notifyCallbackListeners
  <2>2. ASSUME NEW w \in Waiters, M!WaiterStep(w)
        PROVE  /\ callback' \in [MessageCalls -> {"none", "coming", "lost", "stored", "told"}]
               /\ waiter' \in [Waiters -> {"idle", "unknown", "listening", "got", "timeout"}]
               /\ listening' \subseteq Waiters
    <3>1. UNCHANGED callback /\ \E r \in {"unknown", "listening", "got", "timeout"} : waiter' = [waiter EXCEPT ![w] = r]
      BY <2>2 DEF M!WaiterStep, M!LookUp, M!Listen, M!StopListening
    <3>2. listening' \subseteq Waiters
      BY <1>0, <2>2 DEF M!WaiterStep, M!LookUp, M!Listen, M!StopListening, M!TypeOK
    <3> QED BY <1>0, <3>1, <3>2 DEF M!TypeOK
  <2> QED BY <2>1, <2>2
<1>2. M!TypeOK'
  BY <1>0, <1>1 DEF M!TypeOK
<1> QED BY <1>0, <1>2, CallerKeeps DEF CallInv, ListedInv, PromiseInv, Unseen, M!Ended, M!Copy

\* A copy goes on towards its receiver, or is lost.
LEMMA CopiesMove ==
  ASSUME MessageInv, UNCHANGED <<messagePlan, queue, messageJob, answer>>,
         \A n \in M!Copies : /\ copy'[n] \in MessageFresh => copy[n] \in MessageFresh
                             /\ copy'[n] = "waiting" => copy[n] = "waiting",
         \A j \in MessageCalls : promise'[j] = promise[j] \/ promise'[j] \in {"open", "removed", "timeout"}
  PROVE  /\ \A n \in M!Copies : CopyInv(n)'
         /\ \A j \in MessageCalls : PromiseInv(j)'
         /\ QueuedOnce' /\ \A n : Queued(n)' = Queued(n)
<1>0. /\ \A n \in M!Copies : CopyInv(n)
      /\ \A j \in MessageCalls : PromiseInv(j)
      /\ QueuedOnce' /\ \A n : Queued(n)' = Queued(n)
  BY SameQueue DEF MessageInv
<1>1. ASSUME NEW n \in M!Copies PROVE CopyInv(n)'
  BY <1>0 DEF CopyInv, Unseen, M!Ended, MessageFresh
<1>2. ASSUME NEW j \in MessageCalls PROVE PromiseInv(j)'
  BY <1>0 DEF PromiseInv, M!Ended, M!Copy
<1> QED BY <1>0, <1>1, <1>2

\* Where no copy begins to be sent, none takes a token.
LEMMA TokensStay ==
  ASSUME MessageInv, \A n \in M!Copies : copy'[n] = "sending" => copy[n] = "sending"
  PROVE  TokensKept'
<1> SUFFICES ASSUME NEW k \in MessageCalls PROVE Cardinality(M!Sending(k)') <= Tokens
  BY DEF TokensKept
<1>1. M!Sending(k)' \subseteq M!Sending(k) /\ IsFiniteSet(M!Sending(k))
  BY MessageAssumption, FS_Subset DEF M!Sending, M!Copies
<1>2. Cardinality(M!Sending(k)) \in Nat /\ Cardinality(M!Sending(k)') \in Nat /\ Cardinality(M!Sending(k)) <= Tokens
      /\ Cardinality(M!Sending(k)') <= Cardinality(M!Sending(k))
  BY <1>1, FS_Subset, FS_CardinalityType DEF MessageInv, TokensKept
<1> QED BY <1>2, MessageAssumption

\* A caller sends to one client (SendTo, SendToWithPromise).
LEMMA SendToKeeps ==
  ASSUME MessageInv, NEW k \in MessageCalls, M!SendTo(k)
  PROVE  MessageInv'
<1>0. /\ M!TypeOK /\ TokensKept /\ M!Copy(k) \in M!Copies /\ M!Copy(k)[1] = k
      /\ M!Copy(k)[2] = messagePlan[k].client
      /\ UNCHANGED <<messagePlan, online, messageListed, left, counted, promise, queue, messageJob, answer,
                     callback, waiter, listening>>
      /\ \A n \in M!Copies : CopyInv(n) /\ CallInv(n) /\ ListedInv(n)
                             /\ n[1] \in MessageCalls /\ n[2] \in MessageClients
                             /\ n = <<n[1], n[2]>>
  BY MessagePlanIs DEF MessageInv, M!SendTo, M!broadcastVars, M!receiverVars, M!handlerVars,
     M!callbackVars
<1>1. /\ messagePlan[k].call # "broadcast" /\ messageCall[k] \in {"idle", "created"}
      /\ copy' = [copy EXCEPT ![M!Copy(k)] = "sending"]
      /\ messageCall' = [messageCall EXCEPT ![k] = "sending"]
  BY DEF M!SendTo, M!Copy
<1>2. M!TypeOK'
  BY <1>0, <1>1 DEF M!TypeOK
<1>3. \A n \in M!Copies : n[1] = k => copy[n] = "none"
  BY <1>0, <1>1 DEF CallInv
<1>4. \A n \in M!Copies : n # M!Copy(k) => copy'[n] = copy[n]
  BY <1>0, <1>1 DEF M!TypeOK
<1>5. copy'[M!Copy(k)] = "sending" /\ copy[M!Copy(k)] = "none"
  BY <1>0, <1>1, <1>3 DEF M!TypeOK
<1>6. /\ \A n \in M!Copies : CopyInv(n)'
      /\ \A j \in MessageCalls : PromiseInv(j)'
      /\ QueuedOnce' /\ \A n : Queued(n)' = Queued(n)
  BY <1>0, <1>4, <1>5, CopiesMove DEF MessageFresh
<1>7. ASSUME NEW n \in M!Copies PROVE CallInv(n)' /\ ListedInv(n)'
  <2>1. CASE n = M!Copy(k)
    BY <1>0, <1>1, <1>5, <1>6, <2>1 DEF CallInv, ListedInv, Unseen, M!TypeOK
  <2>2. CASE n # M!Copy(k)
    <3>1. copy'[n] = copy[n] /\ (n[1] = k => messageCall'[n[1]] = "sending") /\ (n[1] # k => messageCall'[n[1]] = messageCall[n[1]])
      BY <1>0, <1>1, <1>4, <2>2 DEF M!TypeOK
    <3> QED BY <1>0, <1>1, <1>6, <3>1 DEF CallInv, ListedInv, Unseen
  <2> QED BY <2>1, <2>2
<1>8. TokensKept'
  <2> SUFFICES ASSUME NEW j \in MessageCalls PROVE Cardinality(M!Sending(j)') <= Tokens
    BY DEF TokensKept
  <2>1. CASE j = k
    <3>1. M!Sending(k)' = {messagePlan[k].client}
      BY <1>0, <1>3, <1>4, <1>5 DEF M!Sending, M!Copies, M!Copy
    <3>2. Cardinality({messagePlan[k].client}) = 1
      BY FS_Singleton, Zenon
    <3>3. 1 <= Tokens
      BY MessageAssumption
    <3> QED BY <2>1, <3>1, <3>2, <3>3
  <2>2. CASE j # k
    <3>1. M!Sending(j)' = M!Sending(j)
      BY <1>0, <1>4, <2>2 DEF M!Sending, M!Copies
    <3> QED BY <1>0, <3>1 DEF TokensKept
  <2> QED BY <2>1, <2>2
<1> QED BY <1>2, <1>6, <1>7, <1>8 DEF MessageInv

\* A message is written to its stream, or the stream fails.
LEMMA WriteKeeps ==
  ASSUME MessageInv, NEW m \in M!Copies, M!Write(m)
  PROVE  MessageInv'
<1>0. /\ M!TypeOK /\ m[1] \in MessageCalls
      /\ UNCHANGED <<messagePlan, online, messageListed, left, counted, queue, messageJob, answer,
                     callback, waiter, listening>>
      /\ \A n \in M!Copies : CopyInv(n) /\ CallInv(n) /\ ListedInv(n)
                             /\ n[1] \in MessageCalls /\ n[2] \in MessageClients
                             /\ n = <<n[1], n[2]>>
  BY MessagePlanIs DEF MessageInv, M!Write, M!broadcastVars, M!receiverVars, M!handlerVars,
     M!callbackVars
<1>1. /\ messagePlan[m[1]].call # "broadcast" /\ copy[m] = "sending"
      /\ \/ /\ copy' = [copy EXCEPT ![m] = "sent"] /\ UNCHANGED promise
            /\ \E s \in {"reading", "returned"} : messageCall' = [messageCall EXCEPT ![m[1]] = s]
         \/ /\ copy' = [copy EXCEPT ![m] = "lost"] /\ messageCall' = [messageCall EXCEPT ![m[1]] = "refused"]
            /\ promise' = promise \/ promise' = [promise EXCEPT ![m[1]] = "removed"]
  BY DEF M!Write
<1>2. M!TypeOK'
  <2>1. copy' \in [M!Copies -> {"none", "sending", "sent", "accepted", "waiting", "left", "lost"}]
    <3>1. \E s \in {"sent", "lost"} : copy' = [copy EXCEPT ![m] = s]
      BY <1>1
    <3> QED BY <1>0, <3>1 DEF M!TypeOK
  <2>2. messageCall' \in [MessageCalls -> {"idle", "created", "sending", "reading", "returned", "refused"}]
    <3>1. \E s \in {"reading", "returned", "refused"} : messageCall' = [messageCall EXCEPT ![m[1]] = s]
      BY <1>1
    <3> QED BY <1>0, <3>1 DEF M!TypeOK
  <2>3. promise' \in [MessageCalls -> {"none", "open", "success", "failure", "error", "timeout", "removed"}]
    BY <1>0, <1>1 DEF M!TypeOK
  <2> QED BY <1>0, <2>1, <2>2, <2>3 DEF M!TypeOK
<1>3. /\ copy'[m] \in {"sent", "lost"} /\ \A n \in M!Copies : n # m => copy'[n] = copy[n]
      /\ messageCall'[m[1]] \in {"reading", "returned", "refused"}
      /\ \A j \in MessageCalls : j # m[1] => messageCall'[j] = messageCall[j]
      /\ copy'[m] = "sent" => messageCall'[m[1]] # "refused"
      /\ \A j \in MessageCalls : promise'[j] = promise[j] \/ promise'[j] \in {"open", "removed", "timeout"}
  BY <1>0, <1>1 DEF M!TypeOK
<1>4. /\ \A n \in M!Copies : CopyInv(n)'
      /\ \A j \in MessageCalls : PromiseInv(j)'
      /\ QueuedOnce' /\ \A n : Queued(n)' = Queued(n)
  BY <1>0, <1>1, <1>3, CopiesMove DEF MessageFresh
<1>5. Unseen(m)
  BY <1>0, <1>1 DEF CopyInv, MessageFresh
<1>6. ASSUME NEW n \in M!Copies PROVE CallInv(n)' /\ ListedInv(n)'
  <2>1. CASE n = m
    BY <1>0, <1>1, <1>3, <1>4, <1>5, <2>1 DEF CallInv, ListedInv, Unseen
  <2>2. CASE n # m /\ n[1] = m[1]
    <3>1. copy[n] = "none" /\ Unseen(n)
      BY <1>0, <1>1, <2>2 DEF CallInv, CopyInv, MessageFresh
    <3> QED BY <1>0, <1>1, <1>3, <1>4, <2>2, <3>1 DEF CallInv, ListedInv, Unseen
  <2>3. CASE n[1] # m[1]
    BY <1>0, <1>3, <1>4, <2>3 DEF CallInv, ListedInv, Unseen
  <2> QED BY <2>1, <2>2, <2>3
<1>7. TokensKept'
  BY <1>3, TokensStay
<1> QED BY <1>2, <1>4, <1>6, <1>7 DEF MessageInv

\* A broadcast sends to the next client (Broadcast).
LEMMA SpawnKeeps ==
  ASSUME MessageInv, NEW k \in MessageCalls, NEW c \in MessageClients, M!Spawn(k, c)
  PROVE  MessageInv'
<1>0. /\ M!TypeOK /\ <<k, c>> \in M!Copies
      /\ UNCHANGED <<messagePlan, online, messageCall, promise, messageListed, counted, queue, messageJob,
                     answer, callback, waiter, listening>>
      /\ \A n \in M!Copies : CopyInv(n) /\ CallInv(n) /\ ListedInv(n)
                             /\ n[1] \in MessageCalls /\ n[2] \in MessageClients
                             /\ n = <<n[1], n[2]>>
  BY MessagePlanIs DEF MessageInv, M!Spawn, M!receiverVars, M!handlerVars, M!callbackVars, M!Copies
<1>1. /\ c \in left[k] /\ Cardinality(M!Sending(k)) < Tokens
      /\ left' = [left EXCEPT ![k] = left[k] \ {c}] /\ copy' = [copy EXCEPT ![<<k, c>>] = "sending"]
  BY <1>0, SameCount DEF M!Spawn
<1>2. M!TypeOK'
  BY <1>0, <1>1 DEF M!TypeOK
<1>3. messagePlan[k].call = "broadcast" /\ copy[<<k, c>>] = "none" /\ copy'[<<k, c>>] = "sending"
      /\ (\A n \in M!Copies : n # <<k, c>> => copy'[n] = copy[n])
      /\ (\A n \in M!Copies : (n[2] \in left'[n[1]] <=> n[2] \in left[n[1]] /\ n # <<k, c>>))
  <2>1. messagePlan[k].call = "broadcast" /\ copy[<<k, c>>] = "none"
    BY <1>0, <1>1 DEF CallInv, ListedInv
  <2>2. copy'[<<k, c>>] = "sending" /\ \A n \in M!Copies : n # <<k, c>> => copy'[n] = copy[n]
    BY <1>0, <1>1 DEF M!TypeOK
  <2>3. \A j \in MessageCalls : left'[j] = IF j = k THEN left[k] \ {c} ELSE left[j]
    BY <1>0, <1>1 DEF M!TypeOK
  <2> QED BY <1>0, <2>1, <2>2, <2>3
<1>4. /\ \A n \in M!Copies : CopyInv(n)'
      /\ \A j \in MessageCalls : PromiseInv(j)'
      /\ QueuedOnce' /\ \A n : Queued(n)' = Queued(n)
  BY <1>0, <1>3, CopiesMove DEF MessageFresh
<1>5. ASSUME NEW n \in M!Copies PROVE CallInv(n)' /\ ListedInv(n)'
  <2>1. CASE n = <<k, c>>
    BY <1>0, <1>1, <1>3, <1>4, <2>1 DEF CallInv, ListedInv, Unseen
  <2>2. CASE n # <<k, c>>
    BY <1>0, <1>3, <1>4, <2>2 DEF CallInv, ListedInv, Unseen
  <2> QED BY <2>1, <2>2
<1>6. TokensKept'
  <2> SUFFICES ASSUME NEW j \in MessageCalls PROVE Cardinality(M!Sending(j)') <= Tokens
    BY DEF TokensKept
  <2>1. CASE j = k
    <3>1. M!Sending(k)' = M!Sending(k) \cup {c} /\ c \notin M!Sending(k) /\ IsFiniteSet(M!Sending(k))
      BY <1>0, <1>3, MessageAssumption, FS_Subset DEF M!Sending, M!Copies
    <3>2. Cardinality(M!Sending(k)') = Cardinality(M!Sending(k)) + 1 /\ Cardinality(M!Sending(k)) \in Nat
      BY <3>1, FS_AddElement, FS_CardinalityType
    <3> QED BY <1>1, <2>1, <3>2, MessageAssumption
  <2>2. CASE j # k
    <3>1. M!Sending(j)' = M!Sending(j)
      BY <1>0, <1>3, <2>2 DEF M!Sending, M!Copies
    <3> QED BY <3>1 DEF TokensKept, MessageInv
  <2> QED BY <2>1, <2>2
<1> QED BY <1>2, <1>4, <1>5, <1>6 DEF MessageInv

\* One of the sends of a broadcast is over.
LEMMA SendOneKeeps ==
  ASSUME MessageInv, NEW m \in M!Copies, M!SendOne(m)
  PROVE  MessageInv'
<1>0. /\ M!TypeOK /\ m[1] \in MessageCalls /\ m[2] \in MessageClients
      /\ UNCHANGED <<messagePlan, online, messageCall, promise, messageListed, left, queue, messageJob,
                     answer, callback, waiter, listening>>
      /\ \A n \in M!Copies : CopyInv(n) /\ CallInv(n) /\ ListedInv(n)
                             /\ n[1] \in MessageCalls /\ n[2] \in MessageClients
                             /\ n = <<n[1], n[2]>>
  BY MessagePlanIs DEF MessageInv, M!SendOne, M!receiverVars, M!handlerVars, M!callbackVars
<1>1. /\ messagePlan[m[1]].call = "broadcast" /\ copy[m] = "sending"
      /\ \/ /\ copy' = [copy EXCEPT ![m] = "sent"]
            /\ counted' = [counted EXCEPT ![m[1]].sent = @ \cup {m[2]}]
         \/ /\ copy' = [copy EXCEPT ![m] = "lost"]
            /\ counted' = [counted EXCEPT ![m[1]].errors = @ \cup {m[2]}]
  BY DEF M!SendOne
<1>2. counted \in [MessageCalls -> [sent : SUBSET MessageClients, errors : SUBSET MessageClients]]
  BY <1>0 DEF M!TypeOK
<1>3. /\ counted' \in [MessageCalls -> [sent : SUBSET MessageClients, errors : SUBSET MessageClients]]
      /\ \A n \in M!Copies : n # m => (n[2] \in counted'[n[1]].sent <=> n[2] \in counted[n[1]].sent)
                                    /\ (n[2] \in counted'[n[1]].errors <=> n[2] \in counted[n[1]].errors)
      /\ \/ /\ copy' = [copy EXCEPT ![m] = "sent"]
            /\ m[2] \in counted'[m[1]].sent /\ counted'[m[1]].errors = counted[m[1]].errors
         \/ /\ copy' = [copy EXCEPT ![m] = "lost"]
            /\ m[2] \in counted'[m[1]].errors /\ counted'[m[1]].sent = counted[m[1]].sent
  <2>1. CASE counted' = [counted EXCEPT ![m[1]].sent = @ \cup {m[2]}] /\ copy' = [copy EXCEPT ![m] = "sent"]
    BY <1>0, <1>2, <2>1
  <2>2. CASE counted' = [counted EXCEPT ![m[1]].errors = @ \cup {m[2]}] /\ copy' = [copy EXCEPT ![m] = "lost"]
    BY <1>0, <1>2, <2>2
  <2> QED BY <1>1, <2>1, <2>2
<1>4. copy' \in [M!Copies -> {"none", "sending", "sent", "accepted", "waiting", "left", "lost"}]
      /\ copy'[m] \in {"sent", "lost"} /\ \A n \in M!Copies : n # m => copy'[n] = copy[n]
  <2>1. \E s \in {"sent", "lost"} : copy' = [copy EXCEPT ![m] = s]
    BY <1>1
  <2> QED BY <1>0, <2>1 DEF M!TypeOK
<1>5. M!TypeOK'
  BY <1>0, <1>3, <1>4 DEF M!TypeOK
<1>6. /\ \A n \in M!Copies : CopyInv(n)'
      /\ \A j \in MessageCalls : PromiseInv(j)'
      /\ QueuedOnce' /\ \A n : Queued(n)' = Queued(n)
  BY <1>0, <1>1, <1>4, CopiesMove DEF MessageFresh
<1>7. Unseen(m) /\ Unseen(m)' /\ ListedInv(m) /\ CallInv(m)
  BY <1>0, <1>1, <1>6 DEF CopyInv, MessageFresh, Unseen
<1>8. ASSUME NEW n \in M!Copies PROVE CallInv(n)' /\ ListedInv(n)'
  <2>1. CASE n = m
    <3>1. CallInv(m)'
      BY <1>0, <1>1, <1>4, <1>7 DEF CallInv
    <3>2. ListedInv(m)'
      BY <1>0, <1>1, <1>3, <1>4, <1>7 DEF ListedInv, M!TypeOK
    <3> QED BY <2>1, <3>1, <3>2
  <2>2. CASE n # m
    BY <1>0, <1>3, <1>4, <1>6, <2>2 DEF CallInv, ListedInv, Unseen
  <2> QED BY <2>1, <2>2
<1>9. TokensKept'
  BY <1>4, TokensStay
<1> QED BY <1>5, <1>6, <1>8, <1>9 DEF MessageInv

\* A client takes a stream in, or leaves.
LEMMA AcceptKeeps ==
  ASSUME MessageInv, (\E m \in M!Copies : M!Accept(m)) \/ (\E c \in MessageClients : M!Disconnect(c))
  PROVE  MessageInv'
<1>0. /\ M!TypeOK
      /\ UNCHANGED <<messagePlan, messageCall, promise, messageListed, left, counted, queue, messageJob,
                     answer, callback, waiter, listening>>
      /\ \A n \in M!Copies : CopyInv(n) /\ CallInv(n) /\ ListedInv(n)
                             /\ n[1] \in MessageCalls /\ n[2] \in MessageClients
  BY MessagePlanIs DEF MessageInv, M!Accept, M!Disconnect, M!broadcastVars, M!receiverVars,
     M!handlerVars, M!callbackVars
<1>1. /\ copy' \in [M!Copies -> {"none", "sending", "sent", "accepted", "waiting", "left", "lost"}]
      /\ online' \subseteq MessageClients
      /\ \A n \in M!Copies : \/ copy'[n] = copy[n]
                             \/ copy[n] = "sent" /\ copy'[n] = "accepted"
                             \/ copy[n] \in {"sent", "accepted", "waiting"} /\ copy'[n] = "lost"
  <2>1. ASSUME NEW m \in M!Copies, M!Accept(m)
        PROVE  /\ copy' \in [M!Copies -> {"none", "sending", "sent", "accepted", "waiting", "left", "lost"}]
               /\ online' \subseteq MessageClients
               /\ \A n \in M!Copies : copy'[n] = copy[n] \/ (copy[n] = "sent" /\ copy'[n] = "accepted")
    BY <1>0, <2>1 DEF M!Accept, M!TypeOK
  <2>2. ASSUME NEW c \in MessageClients, M!Disconnect(c)
        PROVE  /\ copy' \in [M!Copies -> {"none", "sending", "sent", "accepted", "waiting", "left", "lost"}]
               /\ online' \subseteq MessageClients
               /\ \A n \in M!Copies : \/ copy'[n] = copy[n]
                                      \/ copy[n] \in {"sent", "accepted", "waiting"} /\ copy'[n] = "lost"
    BY <1>0, <2>2 DEF M!Disconnect, M!TypeOK
  <2> QED BY <2>1, <2>2
<1>2. M!TypeOK'
  BY <1>0, <1>1 DEF M!TypeOK
<1>3. /\ \A n \in M!Copies : CopyInv(n)'
      /\ \A j \in MessageCalls : PromiseInv(j)'
      /\ QueuedOnce' /\ \A n : Queued(n)' = Queued(n)
  BY <1>0, <1>1, CopiesMove DEF MessageFresh
<1>4. ASSUME NEW n \in M!Copies PROVE CallInv(n)' /\ ListedInv(n)'
  BY <1>0, <1>1, <1>3 DEF CallInv, ListedInv, Unseen
<1>5. TokensKept'
  BY <1>1, TokensStay
<1> QED BY <1>2, <1>3, <1>4, <1>5 DEF MessageInv

\* A copy that is queued was dispatched, and it is queued once.
LEMMA DispatchQueues ==
  ASSUME MessageInv, NEW m \in M!Copies, M!Dispatch(m)
  PROVE  /\ queue' \in [MessageClients \cup {M!Server} -> Seq(M!Copies)]
         /\ QueuedOnce'
         /\ \A n \in M!Copies : Queued(n)' <=> Queued(n) \/ n = m
<1>0. /\ M!TypeOK /\ QueuedOnce /\ UNCHANGED messagePlan /\ ~Queued(m) /\ m \in M!Copies
      /\ \A n \in M!Copies : M!Receiver(n) \in MessageClients \cup {M!Server}
      /\ queue' = [queue EXCEPT ![M!Receiver(m)] = Append(queue[M!Receiver(m)], m)]
  BY MessagePlanIs DEF MessageInv, M!Dispatch, CopyInv, MessageFresh, Unseen
<1>1. \A n : M!Receiver(n)' = M!Receiver(n)
  BY <1>0 DEF M!Receiver, M!Upward
<1>2. PICK r \in MessageClients \cup {M!Server} : r = M!Receiver(m)
  BY <1>0
<1>3. PICK q \in Seq(M!Copies) : q = queue[r]
  BY <1>0 DEF M!TypeOK
<1>4. /\ Append(q, m) \in Seq(M!Copies) /\ Len(q) \in Nat /\ Len(Append(q, m)) = Len(q) + 1
      /\ Append(q, m)[Len(q) + 1] = m /\ \A i \in 1 .. Len(q) : Append(q, m)[i] = q[i]
  BY <1>3
<1>5. queue'[r] = Append(q, m) /\ \A n \in MessageClients \cup {M!Server} : n # r => queue'[n] = queue[n]
  BY <1>0, <1>2, <1>3 DEF M!TypeOK
<1>6. queue' \in [MessageClients \cup {M!Server} -> Seq(M!Copies)]
  BY <1>0, <1>2, <1>3, <1>4 DEF M!TypeOK
<1>7. \A i \in 1 .. Len(q) : q[i] # m
  BY <1>0, <1>2, <1>3 DEF Queued
<1>8. QueuedOnce'
  <2> SUFFICES ASSUME NEW n \in MessageClients \cup {M!Server}, NEW i \in 1 .. Len(queue'[n])
               PROVE  /\ M!Receiver(queue'[n][i]) = n
                      /\ \A j \in 1 .. Len(queue'[n]) : queue'[n][i] = queue'[n][j] => i = j
    BY <1>1 DEF QueuedOnce
  <2>1. CASE n # r
    BY <1>0, <1>5, <2>1 DEF QueuedOnce
  <2>2. CASE n = r
    <3>1. /\ \A k \in 1 .. Len(q) : M!Receiver(q[k]) = r /\ \A j \in 1 .. Len(q) : q[k] = q[j] => k = j
      BY <1>0, <1>3 DEF QueuedOnce
    <3>2. i \in 1 .. Len(q) + 1
      BY <1>4, <1>5, <2>2
    <3> QED BY <1>2, <1>4, <1>5, <1>7, <2>2, <3>1, <3>2
  <2> QED BY <2>1, <2>2
<1>9. ASSUME NEW n \in M!Copies PROVE Queued(n)' <=> Queued(n) \/ n = m
  <2>1. CASE M!Receiver(n) # r
    <3>1. Queued(n)' <=> Queued(n)
      BY <1>0, <1>1, <1>5, <2>1 DEF Queued
    <3> QED BY <1>2, <2>1, <3>1
  <2>2. CASE M!Receiver(n) = r
    <3>1. Queued(n)' <=> \E i \in 1 .. Len(q) + 1 : Append(q, m)[i] = n
      BY <1>1, <1>4, <1>5, <2>2 DEF Queued
    <3>2. Queued(n) <=> \E i \in 1 .. Len(q) : q[i] = n
      BY <1>3, <2>2 DEF Queued
    <3> QED BY <1>4, <3>1, <3>2
  <2> QED BY <2>1, <2>2
<1> QED BY <1>6, <1>8, <1>9

\* A worker takes the first message of a queue.
LEMMA WorkQueues ==
  ASSUME MessageInv, NEW n \in MessageClients \cup {M!Server}, queue[n] # <<>>,
         queue' = [queue EXCEPT ![n] = Tail(queue[n])], UNCHANGED messagePlan
  PROVE  /\ queue' \in [MessageClients \cup {M!Server} -> Seq(M!Copies)]
         /\ QueuedOnce'
         /\ Head(queue[n]) \in M!Copies /\ Queued(Head(queue[n]))
         /\ \A m \in M!Copies : Queued(m)' <=> Queued(m) /\ m # Head(queue[n])
<1>0. M!TypeOK /\ QueuedOnce /\ \A m : M!Receiver(m)' = M!Receiver(m)
  BY DEF MessageInv, M!Receiver, M!Upward
<1>1. PICK q \in Seq(M!Copies) : q = queue[n]
  BY <1>0 DEF M!TypeOK
<1>2. /\ q # <<>> /\ Tail(q) \in Seq(M!Copies) /\ Len(q) \in Nat /\ Len(q) >= 1 /\ Len(Tail(q)) = Len(q) - 1
      /\ Head(q) = q[1] /\ q[1] \in M!Copies /\ \A i \in 1 .. Len(q) - 1 : Tail(q)[i] = q[i + 1]
  BY <1>1
<1>3. PICK s \in Seq(M!Copies) : s = Tail(q)
  BY <1>2
<1>4. /\ Len(s) = Len(q) - 1 /\ \A i \in 1 .. Len(q) - 1 : s[i] = q[i + 1]
  BY <1>2, <1>3
<1>5. queue'[n] = s /\ \A m \in MessageClients \cup {M!Server} : m # n => queue'[m] = queue[m]
  BY <1>0, <1>1, <1>3 DEF M!TypeOK
<1>6. queue' \in [MessageClients \cup {M!Server} -> Seq(M!Copies)]
  BY <1>0, <1>1, <1>2 DEF M!TypeOK
<1>7. \A k \in 1 .. Len(q) : M!Receiver(q[k]) = n /\ \A j \in 1 .. Len(q) : q[k] = q[j] => k = j
  BY <1>0, <1>1 DEF QueuedOnce
<1>8. QueuedOnce'
  <2> SUFFICES ASSUME NEW m \in MessageClients \cup {M!Server}, NEW i \in 1 .. Len(queue'[m])
               PROVE  /\ M!Receiver(queue'[m][i]) = m
                      /\ \A j \in 1 .. Len(queue'[m]) : queue'[m][i] = queue'[m][j] => i = j
    BY <1>0 DEF QueuedOnce
  <2>1. CASE m # n
    BY <1>0, <1>5, <2>1 DEF QueuedOnce
  <2>2. CASE m = n
    <3>1. i \in 1 .. Len(q) - 1
      BY <1>4, <1>5, <2>2
    <3>2. i + 1 \in 1 .. Len(q) /\ queue'[m][i] = q[i + 1]
      <4>1. queue'[m] = s
        BY <1>5, <2>2
      <4>2. s[i] = q[i + 1]
        BY <1>4, <3>1
      <4>3. i + 1 \in 1 .. Len(q)
        BY <1>2, <3>1
      <4> QED BY <4>1, <4>2, <4>3
    <3>3. ASSUME NEW j \in 1 .. Len(queue'[m]), queue'[m][i] = queue'[m][j] PROVE i = j
      <4>1. j + 1 \in 1 .. Len(q) /\ queue'[m][j] = q[j + 1] /\ j \in Int
        <5>1. queue'[m] = s
          BY <1>5, <2>2
        <5>2. j \in 1 .. Len(q) - 1
          BY <1>4, <5>1
        <5>3. s[j] = q[j + 1]
          BY <1>4, <5>2
        <5>4. j + 1 \in 1 .. Len(q) /\ j \in Int
          BY <1>2, <5>2
        <5> QED BY <5>1, <5>2, <5>3, <5>4
      <4>2. i + 1 = j + 1
        BY <1>7, <3>2, <3>3, <4>1
      <4> QED BY <3>1, <4>1, <4>2, <1>2
    <3> QED BY <1>7, <2>2, <3>2, <3>3
  <2> QED BY <2>1, <2>2
<1>9. M!Receiver(q[1]) = n /\ Queued(q[1])
  BY <1>1, <1>2, <1>7 DEF Queued
<1>10. ASSUME NEW m \in M!Copies PROVE Queued(m)' <=> Queued(m) /\ m # q[1]
  <2>1. CASE M!Receiver(m) # n
    <3>1. M!Receiver(m) \in MessageClients \cup {M!Server}
      BY <1>0, MessagePlanIs
    <3>2. Queued(m)' <=> Queued(m)
      BY <1>0, <1>5, <2>1, <3>1 DEF Queued
    <3> QED BY <1>9, <2>1, <3>2
  <2>2. CASE M!Receiver(m) = n
    <3>1. Queued(m)' <=> \E i \in 1 .. Len(q) - 1 : q[i + 1] = m
      <4>1. Queued(m)' <=> \E i \in 1 .. Len(s) : s[i] = m
        BY <1>0, <1>5, <2>2 DEF Queued
      <4> QED BY <1>4, <4>1
    <3>2. Queued(m) <=> \E i \in 1 .. Len(q) : q[i] = m
      BY <1>1, <2>2 DEF Queued
    <3>3. ASSUME NEW i \in 1 .. Len(q) - 1 PROVE q[i + 1] # q[1]
      <4>1. i + 1 \in 1 .. Len(q) /\ 1 \in 1 .. Len(q) /\ i + 1 # 1
        BY <1>2
      <4> QED BY <1>7, <4>1
    <3>4. ASSUME NEW i \in 1 .. Len(q), i # 1 PROVE \E j \in 1 .. Len(q) - 1 : j + 1 = i
      <4>1. i - 1 \in 1 .. Len(q) - 1 /\ (i - 1) + 1 = i
        BY <1>2, <3>4
      <4> QED BY <4>1
    <3>5. ASSUME NEW i \in 1 .. Len(q) - 1 PROVE i + 1 \in 1 .. Len(q)
      BY <1>2
    <3> QED BY <3>1, <3>2, <3>3, <3>4, <3>5
  <2> QED BY <2>1, <2>2
<1> QED BY <1>1, <1>2, <1>6, <1>8, <1>9, <1>10

\* The receiver queues a message, or answers that it is full (Dispatch).
LEMMA DispatchKeeps ==
  ASSUME MessageInv, NEW m \in M!Copies, M!Dispatch(m)
  PROVE  MessageInv'
<1>0. /\ M!TypeOK /\ m[1] \in MessageCalls
      /\ UNCHANGED <<messagePlan, online, messageCall, promise, messageListed, left, counted, messageJob,
                     answer, callback, waiter, listening>>
      /\ \A n \in M!Copies : CopyInv(n) /\ CallInv(n) /\ ListedInv(n)
                             /\ n[1] \in MessageCalls /\ n[2] \in MessageClients
      /\ \A j \in MessageCalls : PromiseInv(j)
  BY MessagePlanIs DEF MessageInv, M!Dispatch, M!broadcastVars, M!receiverVars, M!callbackVars
<1>1. copy[m] = "accepted" /\ \E s \in {"waiting", "left"} : copy' = [copy EXCEPT ![m] = s]
  BY DEF M!Dispatch
<1>2. /\ queue' \in [MessageClients \cup {M!Server} -> Seq(M!Copies)] /\ QueuedOnce'
      /\ \A n \in M!Copies : Queued(n)' <=> Queued(n) \/ n = m
  BY DispatchQueues
<1>3. /\ copy' \in [M!Copies -> {"none", "sending", "sent", "accepted", "waiting", "left", "lost"}]
      /\ copy'[m] \in {"waiting", "left"} /\ \A n \in M!Copies : n # m => copy'[n] = copy[n]
  BY <1>0, <1>1 DEF M!TypeOK
<1>4. M!TypeOK'
  BY <1>0, <1>2, <1>3 DEF M!TypeOK
<1>5. ASSUME NEW n \in M!Copies PROVE CopyInv(n)' /\ CallInv(n)' /\ ListedInv(n)'
  <2>1. CASE n = m
    <3>1. messageJob[m] = "none" /\ answer[m] = "none"
      BY <1>0, <1>1 DEF CopyInv, MessageFresh, Unseen
    <3> QED BY <1>0, <1>1, <1>2, <1>3, <2>1, <3>1 DEF CopyInv, CallInv, ListedInv,
       MessageFresh, Unseen
  <2>2. CASE n # m
    <3>1. copy'[n] = copy[n] /\ (Queued(n)' <=> Queued(n))
      BY <1>2, <1>3, <2>2
    <3> QED BY <1>0, <3>1 DEF CopyInv, CallInv, ListedInv, Unseen, M!Ended
  <2> QED BY <2>1, <2>2
<1>6. \A j \in MessageCalls : PromiseInv(j)'
  BY <1>0 DEF PromiseInv, M!Ended, M!Copy
<1>7. TokensKept'
  BY <1>3, TokensStay
<1> QED BY <1>2, <1>4, <1>5, <1>6, <1>7 DEF MessageInv

\* A worker begins with the copy at the head, which nobody has handled yet.
LEMMA MessageWorkKeeps ==
  ASSUME MessageInv, NEW n \in MessageClients \cup {M!Server}, M!Work(n)
  PROVE  MessageInv'
<1>0. /\ M!TypeOK /\ queue[n] # <<>> /\ queue' = [queue EXCEPT ![n] = Tail(queue[n])]
      /\ messageJob' = [messageJob EXCEPT ![Head(queue[n])] = "running"]
      /\ UNCHANGED <<messagePlan, online, messageCall, promise, messageListed, left, counted, copy, answer,
                     callback, waiter, listening>>
      /\ \A m \in M!Copies : CopyInv(m) /\ CallInv(m) /\ ListedInv(m)
                             /\ m[1] \in MessageCalls /\ m[2] \in MessageClients
      /\ \A j \in MessageCalls : PromiseInv(j) /\ M!Copy(j) \in M!Copies
  BY MessagePlanIs DEF MessageInv, M!Work, M!broadcastVars, M!receiverVars, M!callbackVars
<1>1. /\ queue' \in [MessageClients \cup {M!Server} -> Seq(M!Copies)] /\ QueuedOnce'
      /\ Head(queue[n]) \in M!Copies /\ Queued(Head(queue[n]))
      /\ \A m \in M!Copies : Queued(m)' <=> Queued(m) /\ m # Head(queue[n])
  BY <1>0, WorkQueues
<1>2. PICK h \in M!Copies : h = Head(queue[n])
  BY <1>1
<1>3. /\ Queued(h) /\ (\A m \in M!Copies : Queued(m)' <=> Queued(m) /\ m # h)
      /\ messageJob'[h] = "running" /\ \A m \in M!Copies : m # h => messageJob'[m] = messageJob[m]
  BY <1>0, <1>1, <1>2 DEF M!TypeOK
<1>4. messageJob' \in [M!Copies -> {"none", "running", "response", "nothing", "error"}]
  BY <1>0, <1>2 DEF M!TypeOK
<1>5. M!TypeOK'
  BY <1>0, <1>1, <1>4 DEF M!TypeOK
<1>6. /\ messageJob[h] = "none" /\ copy[h] \notin MessageFresh /\ answer[h] \notin {"success", "failure"}
      /\ h[2] \notin counted[h[1]].errors
      /\ (messagePlan[h[1]].call \notin {"broadcast", "message"} => messageCall[h[1]] # "refused")
  BY <1>0, <1>3 DEF CopyInv, CallInv, ListedInv, Unseen, M!Ended
<1>7. ASSUME NEW m \in M!Copies PROVE CopyInv(m)' /\ CallInv(m)' /\ ListedInv(m)'
  <2>1. CASE m = h
    BY <1>0, <1>3, <1>6, <2>1 DEF CopyInv, CallInv, ListedInv, Unseen
  <2>2. CASE m # h
    BY <1>0, <1>3, <2>2 DEF CopyInv, CallInv, ListedInv, Unseen, M!Ended
  <2> QED BY <2>1, <2>2
<1>8. ASSUME NEW j \in MessageCalls PROVE PromiseInv(j)'
  <2>1. M!Copy(j)' = M!Copy(j) /\ M!Copy(j) \in M!Copies /\ (M!Copy(j) = h => ~M!Ended(M!Copy(j)))
    BY <1>0, <1>6 DEF M!Copy, M!Ended
  <2>2. M!Copy(j) # h => messageJob'[M!Copy(j)] = messageJob[M!Copy(j)]
    BY <1>3, <2>1
  <2> QED BY <1>0, <2>1, <2>2 DEF PromiseInv, M!Ended
<1>9. TokensKept'
  BY <1>0, TokensStay
<1> QED BY <1>1, <1>5, <1>7, <1>8, <1>9 DEF MessageInv

\* A handler answers, fails, or answers nobody (handleData).
LEMMA HandleKeeps ==
  ASSUME MessageInv, NEW m \in M!Copies, M!Handle(m)
  PROVE  MessageInv'
<1>0. /\ M!TypeOK /\ m[1] \in MessageCalls /\ messageJob[m] = "running"
      /\ UNCHANGED <<messagePlan, online, messageCall, promise, messageListed, left, counted, copy, queue,
                     answer, waiter, listening>>
      /\ \A n \in M!Copies : CopyInv(n) /\ CallInv(n) /\ ListedInv(n)
                             /\ n[1] \in MessageCalls /\ n[2] \in MessageClients
      /\ \A j \in MessageCalls : PromiseInv(j) /\ M!Copy(j) \in M!Copies
      /\ QueuedOnce' /\ \A n : Queued(n)' = Queued(n)
  BY MessagePlanIs, SameQueue DEF MessageInv, M!Handle, M!broadcastVars
<1>1. \E o \in {"response", "nothing", "error"} : messageJob' = [messageJob EXCEPT ![m] = o]
  BY DEF M!Handle, M!ServerOutcome, M!ClientOutcome
<1>2. callback' \in [MessageCalls -> {"none", "coming", "lost", "stored", "told"}]
  BY <1>0 DEF M!Handle, M!TypeOK
<1>3. /\ messageJob' \in [M!Copies -> {"none", "running", "response", "nothing", "error"}]
      /\ messageJob'[m] \in {"response", "nothing", "error"}
      /\ \A n \in M!Copies : n # m => messageJob'[n] = messageJob[n]
  BY <1>0, <1>1 DEF M!TypeOK
<1>4. M!TypeOK'
  BY <1>0, <1>2, <1>3 DEF M!TypeOK
<1>5. ASSUME NEW n \in M!Copies PROVE CopyInv(n)' /\ CallInv(n)' /\ ListedInv(n)'
  <2>1. CASE n = m
    BY <1>0, <1>3, <2>1 DEF CopyInv, CallInv, ListedInv, Unseen, M!Ended
  <2>2. CASE n # m
    BY <1>0, <1>3, <2>2 DEF CopyInv, CallInv, ListedInv, Unseen, M!Ended
  <2> QED BY <2>1, <2>2
<1>6. ASSUME NEW j \in MessageCalls PROVE PromiseInv(j)'
  <2>1. M!Copy(j)' = M!Copy(j) /\ M!Copy(j) \in M!Copies /\ (M!Copy(j) = m => ~M!Ended(M!Copy(j)) /\ M!Ended(M!Copy(j))')
    BY <1>0, <1>3 DEF M!Copy, M!Ended
  <2>2. M!Copy(j) # m => messageJob'[M!Copy(j)] = messageJob[M!Copy(j)]
    BY <1>3, <2>1
  <2> QED BY <1>0, <2>1, <2>2 DEF PromiseInv, M!Ended
<1>7. TokensKept'
  BY <1>0, TokensStay
<1> QED BY <1>0, <1>4, <1>5, <1>6, <1>7 DEF MessageInv

\* Who leaves the stream has given one answer, or none.
LEMMA AnswerKeeps ==
  ASSUME MessageInv, NEW m \in M!Copies, M!Acknowledge(m) \/ M!Respond(m) \/ M!GiveUp(m)
  PROVE  MessageInv'
<1>0. /\ M!TypeOK /\ copy[m] = "waiting" /\ copy' = [copy EXCEPT ![m] = "left"]
      /\ UNCHANGED <<messagePlan, online, messageCall, promise, messageListed, left, counted, queue,
                     messageJob, callback, waiter, listening>>
      /\ \A n \in M!Copies : CopyInv(n) /\ CallInv(n) /\ ListedInv(n)
                             /\ n[1] \in MessageCalls /\ n[2] \in MessageClients
      /\ \A j \in MessageCalls : PromiseInv(j) /\ M!Copy(j) \in M!Copies
      /\ QueuedOnce' /\ \A n : Queued(n)' = Queued(n)
  BY MessagePlanIs, SameQueue DEF MessageInv, M!Acknowledge, M!Respond, M!GiveUp,
     M!broadcastVars, M!handlerVars, M!callbackVars
<1>1. PICK r \in {"none", "success", "failure", "late", "data"} :
        /\ answer' = [answer EXCEPT ![m] = r]
        /\ r = "success" => M!Ended(m) /\ messageJob[m] # "error"
        /\ r = "failure" => M!Ended(m)
  BY DEF M!Acknowledge, M!Respond, M!GiveUp
<1>2. /\ answer' \in [M!Copies -> {"none", "success", "failure", "late", "data"}]
      /\ copy' \in [M!Copies -> {"none", "sending", "sent", "accepted", "waiting", "left", "lost"}]
      /\ answer'[m] = r /\ copy'[m] = "left"
      /\ \A n \in M!Copies : n # m => answer'[n] = answer[n] /\ copy'[n] = copy[n]
  BY <1>0, <1>1 DEF M!TypeOK
<1>3. M!TypeOK'
  BY <1>0, <1>2 DEF M!TypeOK
<1>4. ASSUME NEW n \in M!Copies PROVE CopyInv(n)' /\ CallInv(n)' /\ ListedInv(n)'
  <2>1. CASE n = m
    BY <1>0, <1>1, <1>2, <2>1 DEF CopyInv, CallInv, ListedInv, Unseen, M!Ended, MessageFresh
  <2>2. CASE n # m
    BY <1>0, <1>2, <2>2 DEF CopyInv, CallInv, ListedInv, Unseen, M!Ended
  <2> QED BY <2>1, <2>2
<1>5. answer[m] = "none"
  BY <1>0 DEF CopyInv
<1>6. ASSUME NEW j \in MessageCalls PROVE PromiseInv(j)'
  BY <1>0, <1>2, <1>5 DEF PromiseInv, M!Ended, M!Copy
<1>7. TokensKept'
  BY <1>2, TokensStay
<1> QED BY <1>0, <1>3, <1>4, <1>6, <1>7 DEF MessageInv

\* Every step of a message keeps the invariant.
LEMMA MessageNext == MessageInv /\ [M!Next]_(M!vars) => MessageInv'
<1> SUFFICES ASSUME MessageInv, [M!Next]_(M!vars) PROVE MessageInv'
  OBVIOUS
<1>1. CASE UNCHANGED M!vars
  <2>1. M!TypeOK'
    BY <1>1 DEF M!vars, MessageInv, M!TypeOK
  <2>2. UNCHANGED <<messagePlan, messageCall, promise, messageListed, left, counted, copy, queue,
                    messageJob, answer>>
        /\ \A n : Queued(n)' = Queued(n)
    BY <1>1, SameQueue DEF M!vars
  <2> QED BY <2>1, <2>2, CallerKeeps DEF MessageInv, CallInv, ListedInv, PromiseInv, Unseen,
     M!Ended, M!Copy
<1>2. ASSUME NEW k \in MessageCalls, M!CallStep(k) \/ M!Timeout(k) \/ M!StoreCallback(k) \/ M!notifyCallbackListeners(k)
      PROVE  MessageInv'
  BY <1>2, MessageCallersKeep, SendToKeeps, SpawnKeeps, CallbacksKeep DEF M!CallStep
<1>3. ASSUME NEW m \in M!Copies, M!CopyStep(m) PROVE MessageInv'
  BY <1>3, WriteKeeps, SendOneKeeps, AcceptKeeps, DispatchKeeps, HandleKeeps, AnswerKeeps,
     ReadersKeep DEF M!CopyStep
<1>4. ASSUME NEW w \in Waiters, M!WaiterStep(w) PROVE MessageInv'
  BY <1>4, CallbacksKeep
<1> QED BY <1>1, <1>2, <1>3, <1>4, MessageWorkKeeps, AcceptKeeps DEF M!Next

\* What the invariant says of the outcomes.
LEMMA MessageShows == MessageInv => M!TypeOK /\ M!MessagesAreTrue
<1> SUFFICES ASSUME MessageInv PROVE M!TypeOK /\ M!MessagesAreTrue
  OBVIOUS
<1>0. /\ M!TypeOK /\ TokensKept
      /\ \A n \in M!Copies : CopyInv(n) /\ CallInv(n) /\ ListedInv(n)
                             /\ n[1] \in MessageCalls /\ n[2] \in MessageClients
      /\ \A k \in MessageCalls : PromiseInv(k) /\ M!Copy(k) \in M!Copies /\ M!Copy(k)[1] = k
      /\ \A k \in MessageCalls : \A c \in MessageClients : <<k, c>> \in M!Copies
  BY MessagePlanIs DEF MessageInv, M!Copies
<1>1. M!AcksAreEarned
  BY <1>0 DEF M!AcksAreEarned, CallInv, PromiseInv, Unseen, M!Upward
<1>2. ASSUME NEW k \in MessageCalls
      PROVE  /\ Cardinality(M!Sending(k)) <= Tokens
             /\ \A c \in counted[k].errors : messageJob[<<k, c>>] = "none"
             /\ messagePlan[k].call = "broadcast" /\ messageCall[k] = "returned" =>
                  /\ counted[k].sent \cup counted[k].errors = messageListed[k]
                  /\ Cardinality(counted[k].sent) + Cardinality(counted[k].errors) = Cardinality(messageListed[k])
  <2>1. /\ counted[k].sent \subseteq MessageClients /\ counted[k].errors \subseteq MessageClients
        /\ messageListed[k] \subseteq MessageClients
    BY <1>0 DEF M!TypeOK
  <2>2. \A c \in counted[k].errors : messageJob[<<k, c>>] = "none"
    BY <1>0, <2>1 DEF ListedInv, Unseen
  <2>3. ASSUME messagePlan[k].call = "broadcast", messageCall[k] = "returned"
        PROVE  /\ counted[k].sent \cup counted[k].errors = messageListed[k]
               /\ Cardinality(counted[k].sent) + Cardinality(counted[k].errors) = Cardinality(messageListed[k])
    <3>1. \A c \in MessageClients : /\ c \in messageListed[k] <=> c \in counted[k].sent \/ c \in counted[k].errors
                                    /\ ~(c \in counted[k].sent /\ c \in counted[k].errors)
      <4> TAKE c \in MessageClients
      <4>1. ListedInv(<<k, c>>) /\ <<k, c>>[1] = k /\ <<k, c>>[2] = c
        BY <1>0
      <4> QED BY <2>3, <4>1 DEF ListedInv
    <3>2. counted[k].sent \cup counted[k].errors = messageListed[k] /\ counted[k].sent \cap counted[k].errors = {}
      BY <2>1, <3>1
    <3>3. IsFiniteSet(counted[k].sent) /\ IsFiniteSet(counted[k].errors)
      BY <2>1, MessageAssumption, FS_Subset
    <3>4. Cardinality(messageListed[k]) = Cardinality(counted[k].sent) + Cardinality(counted[k].errors)
                                   - Cardinality({})
      BY <3>2, <3>3, FS_Union
    <3>5. Cardinality(counted[k].sent) \in Nat /\ Cardinality(counted[k].errors) \in Nat /\ Cardinality({}) = 0
      BY <3>3, FS_CardinalityType, FS_EmptySet
    <3> QED BY <3>2, <3>4, <3>5
  <2> QED BY <1>0, <2>2, <2>3 DEF TokensKept
<1>3. M!BroadcastsAddUp
  BY <1>2, SameCount DEF M!BroadcastsAddUp
<1> QED BY <1>0, <1>1, <1>3 DEF M!MessagesAreTrue

-----------------------------------------------------------------------------
(* The parts together: the one that runs keeps its invariant, and the      *)
(* others do not move.                                                     *)

\* What each part keeps.
RemoteInv ==
  /\ SshInv /\ TerminalInv /\ AuditInv /\ RecordingInv
  /\ HubInv /\ TransferInv /\ MessageInv

\* A part moves by its own steps, also in a step of another part.
LEMMA PartsStep ==
  ASSUME [Next]_vars
  PROVE  /\ [H!Next]_(H!vars) /\ [P!Next]_(P!vars) /\ [A!Next]_(A!vars) /\ [R!Next]_(R!vars)
         /\ [W!Next]_(W!vars) /\ [F!Next]_(F!vars) /\ [M!Next]_(M!vars)
<1>1. H!Next \/ UNCHANGED sshVars
  BY DEF Next, vars
<1>2. P!Next \/ UNCHANGED terminalVars
  BY DEF Next, vars
<1>3. A!Next \/ UNCHANGED auditVars
  BY DEF Next, vars
<1>4. R!Next \/ UNCHANGED recordingVars
  BY DEF Next, vars
<1>5. W!Next \/ UNCHANGED hubVars
  BY DEF Next, vars
<1>6. F!Next \/ UNCHANGED transferVars
  BY DEF Next, vars
<1>7. M!Next \/ UNCHANGED messageVars
  BY DEF Next, vars
<1>8. UNCHANGED sshVars => UNCHANGED H!vars
  BY DEF sshVars, H!vars
<1>9. UNCHANGED terminalVars => UNCHANGED P!vars
  BY DEF terminalVars, P!vars, P!ptyVars, P!auditVars
<1>10. UNCHANGED auditVars => UNCHANGED A!vars
  BY DEF auditVars, A!vars
<1>11. UNCHANGED recordingVars => UNCHANGED R!vars
  BY DEF recordingVars, R!vars
<1>12. UNCHANGED hubVars => UNCHANGED W!vars
  BY DEF hubVars, W!vars
<1>13. UNCHANGED transferVars => UNCHANGED F!vars
  BY DEF transferVars, F!vars
<1>14. UNCHANGED messageVars => UNCHANGED M!vars
  BY DEF messageVars, M!vars
<1> QED BY <1>1, <1>2, <1>3, <1>4, <1>5, <1>6, <1>7, <1>8, <1>9, <1>10, <1>11, <1>12, <1>13, <1>14

\* Every part starts in its invariant.
LEMMA RemoteInit == Init => RemoteInv
BY SshInit, TerminalInit, AuditInit, RecordingInit, HubInit, TransferInit, MessageInit
   DEF Init, RemoteInv

\* A step of any part keeps the invariants of all.
LEMMA RemoteNext == RemoteInv /\ [Next]_vars => RemoteInv'
<1> SUFFICES ASSUME RemoteInv, [Next]_vars PROVE RemoteInv'
  OBVIOUS
<1>1. SshInv' /\ TerminalInv' /\ AuditInv' /\ RecordingInv'
  BY PartsStep, SshNext, TerminalNext, AuditNext, RecordingNext DEF RemoteInv
<1>2. HubInv' /\ TransferInv' /\ MessageInv'
  BY PartsStep, HubNext, TransferNext, MessageNext DEF RemoteInv
<1> QED BY <1>1, <1>2 DEF RemoteInv

\* The invariant of every part holds throughout (Next).
THEOREM RemoteInvHolds == Spec => []RemoteInv
<1>1. Init => RemoteInv
  BY RemoteInit
<1>2. RemoteInv /\ [Next]_vars => RemoteInv'
  BY RemoteNext
<1> QED BY <1>1, <1>2, PTL DEF Spec

\* However cleanups race commands, failures and restarts, what an operator
\* did stays on record (saveCommand, DeleteOldRecords, DeleteOldRecordings).
THEOREM RecordsStay == Spec => []RecordsAreKept
<1>1. RemoteInv => RecordsAreKept
  BY TerminalShows, AuditShows, RecordingShows DEF RemoteInv, RecordsAreKept
<1> QED BY <1>1, RemoteInvHolds, PTL

\* Nobody hangs up under a command of another call (cmd/server/ssh.go).
THEOREM NeverHangsUp == Spec => NoneHangsUpOnACommand
<1>1. RemoteInv =>
        [\A c \in SshCalls : sshCall[c].pc = "running" =>
           \A d \in SshCalls \ {c} :
             (sshCall[d].pc = "hangup" /\ sshCall'[d].pc # "hangup")
               => sshCall[d].conn # sshCall[c].conn]_(H!vars)
  BY SshExcludes DEF RemoteInv
<1> QED BY <1>1, RemoteInvHolds, PTL DEF NoneHangsUpOnACommand, H!NoneHangsUpOnACommand

\* Once Stop of the client's ssh server has returned, no command runs.
THEOREM NothingRunsOnceStopped == Spec => []NothingRunsAfterStop
<1>1. RemoteInv => NothingRunsAfterStop
  BY DEF RemoteInv, SshInv, SshTyped, NothingRunsAfterStop
<1> QED BY <1>1, RemoteInvHolds, PTL

\* Who waits for a cleanup waits for one that somebody does, and a message
\* is reported as what became of it (ClosePTYSession, SendTo, Broadcast).
THEOREM WaitersServed == Spec => []WaitersAreServed
<1>1. RemoteInv => WaitersAreServed
  BY TerminalShows, MessageShows DEF RemoteInv, WaitersAreServed
<1> QED BY <1>1, RemoteInvHolds, PTL

\* A browser is shown the notices of tasks without a hole, or is dropped
\* (run, writePump).
THEOREM NoNoticeIsSkipped == Spec => []NoGaps
<1>1. RemoteInv => NoGaps
  BY HubShows DEF RemoteInv, HubInv, NoGaps
<1> QED BY <1>1, RemoteInvHolds, PTL

\* An upload that is said to be complete is whole, and the files of a user
\* stay within the quota (Store, CompleteUpload, CancelTransfer).
THEOREM CompletedFilesAreWhole == Spec => []FilesAreWhole
<1>1. RemoteInv => FilesAreWhole
  BY TransferShows DEF RemoteInv, FilesAreWhole
<1> QED BY <1>1, RemoteInvHolds, PTL
=============================================================================
