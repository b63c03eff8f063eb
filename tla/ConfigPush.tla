---------------------------- MODULE ConfigPush ----------------------------
(***************************************************************************)
(* pkg/configcenter/push_engine.go: who subscribes to which configuration, *)
(* in memory and in the database, and the sending of a new version to      *)
(* them.  Calls, publications and acknowledgements run side by side; the   *)
(* mutex of a configuration covers some of their steps.  The server never  *)
(* starts this engine: it is the library's promise to who does.            *)
(***************************************************************************)
EXTENDS Integers

CONSTANTS
  Clients, Keys,
  Calls,          \* calls of Subscribe and Unsubscribe
  Pushes,         \* publications: the older have the smaller numbers
  MaxRestarts,    \* bound: restarts
  Plans           \* what the calls and publications are

VARIABLES
  plan,           \* calls : Calls -> [op, client, key], pushes : Pushes -> [key, gray],
                  \* rules : the enabled rules by type, sampled : clients the percentage takes
  online,         \* clients with a session
  subscribers,    \* in memory, by configuration: client -> last version sent
  writer,         \* calls that hold the mutex of their configuration
  rows,           \* in the database: client -> the configurations, or no row
  call, push,     \* what each call and each publication does
  messages,       \* rows of sent messages, one per release and client
  arrived,        \* pushes that reached the client: [push, client]
  restarts

vars == <<plan, online, subscribers, writer, rows, call, push, messages, arrived, restarts>>

RuleTypes == {"ip", "tag", "client_id", "percentage"}
Op(k) == plan.calls[k].op
Client(k) == plan.calls[k].client
Key(k) == plan.calls[k].key
Idle == [pc |-> "idle"]
Gone == [pc |-> "done"]

TypeOK ==
  /\ plan.rules \subseteq RuleTypes /\ online \subseteq Clients
  /\ \A k \in Keys : DOMAIN subscribers[k] \subseteq Clients
  /\ writer \subseteq Calls
  /\ DOMAIN rows \subseteq Clients /\ \A c \in DOMAIN rows : rows[c] \subseteq Keys
  /\ \A k \in Calls : call[k].pc \in {"idle", "read", "write", "done"}
  /\ \A p \in Pushes : push[p].pc \in {"idle", "sending", "done"}
  /\ \A m \in messages : m.status \in {"sent", "delivered", "failed"}
  /\ restarts \in 0 .. MaxRestarts

Init ==
  /\ plan \in Plans /\ online = Clients
  /\ subscribers = [k \in Keys |-> <<>>] /\ rows = <<>> /\ writer = {}
  /\ call = [k \in Calls |-> Idle] /\ push = [p \in Pushes |-> Idle]
  /\ messages = {} /\ arrived = {} /\ restarts = 0

-----------------------------------------------------------------------------
(* Subscriptions.                                                           *)

Read(key) == {p \in Pushes : push[p].pc = "sending" /\ plan.pushes[p].key = key}
Written(key) == \E k \in writer : Key(k) = key
Without(f, c) == [x \in DOMAIN f \ {c} |-> f[x]]
Set(f, c, v) == [x \in DOMAIN f \union {c} |-> IF x = c THEN v ELSE f[x]]

\* The mutex stays held while the row is read and written.
Subscribe(k) ==
  /\ call[k] = Idle /\ Op(k) = "subscribe"
  /\ IF Client(k) \notin online
     THEN call' = [call EXCEPT ![k] = Gone] /\ UNCHANGED <<subscribers, writer>>
     ELSE /\ Read(Key(k)) = {} /\ ~Written(Key(k))
          /\ writer' = writer \union {k}
          /\ subscribers' = [subscribers EXCEPT ![Key(k)] = Set(@, Client(k), 0)]
          /\ call' = [call EXCEPT ![k] = [pc |-> "read"]]
  /\ UNCHANGED <<plan, online, rows, push, messages, arrived, restarts>>

\* The slip of an Unsubscribe that deletes without the mutex.
UnsubscribeUnlocked(k) ==
  /\ call[k] = Idle /\ Op(k) = "unsubscribe"
  /\ subscribers' = [subscribers EXCEPT ![Key(k)] = Without(@, Client(k))]
  /\ call' = [call EXCEPT ![k] = [pc |-> "read"]]
  /\ UNCHANGED <<plan, online, writer, rows, push, messages, arrived, restarts>>

\* The mutex is given back before the row is touched.
Unsubscribe(k) ==
  /\ call[k] = Idle /\ Op(k) = "unsubscribe"
  /\ Read(Key(k)) = {} /\ ~Written(Key(k))
  /\ subscribers' = [subscribers EXCEPT ![Key(k)] = Without(@, Client(k))]
  /\ call' = [call EXCEPT ![k] = [pc |-> "read"]]
  /\ UNCHANGED <<plan, online, writer, rows, push, messages, arrived, restarts>>

GetSubscriber(k) ==
  /\ call[k].pc = "read"
  /\ call' = [call EXCEPT ![k] = [pc |-> "write",
       seen |-> IF Client(k) \in DOMAIN rows THEN rows[Client(k)] ELSE {}]]
  /\ UNCHANGED <<plan, online, subscribers, writer, rows, push, messages, arrived, restarts>>

\* UpdateSubscriber, RegisterSubscriber or UnregisterSubscriber, from what was
\* read: a change another call made to the row meanwhile is lost.
SaveSubscriber(k) ==
  /\ call[k].pc = "write"
  /\ LET keys == IF Op(k) = "subscribe" THEN call[k].seen \union {Key(k)}
                 ELSE call[k].seen \ {Key(k)}
     IN rows' = IF call[k].seen = {} /\ keys = {} THEN rows
                ELSE IF keys = {} THEN Without(rows, Client(k))
                ELSE Set(rows, Client(k), keys)
  /\ writer' = writer \ {k}
  /\ call' = [call EXCEPT ![k] = Gone]
  /\ UNCHANGED <<plan, online, subscribers, push, messages, arrived, restarts>>

-----------------------------------------------------------------------------
(* Publication.                                                             *)

PushConfig(p) ==
  /\ push[p] = Idle /\ ~Written(plan.pushes[p].key)
  /\ push' = [push EXCEPT ![p] = [pc |-> "sending",
                                  todo |-> DOMAIN subscribers[plan.pushes[p].key]]]
  /\ UNCHANGED <<plan, online, subscribers, writer, rows, call, messages, arrived, restarts>>

\* The value of a rule is decoded into types that the assertions of the lists
\* and of the tags never have: only a percentage matches.
MatchGrayRule(c) == "percentage" \in plan.rules /\ c \in plan.sampled

\* The row is written before the message is sent; what cannot be sent keeps it.
SendToSubscriber(p, c) ==
  /\ push[p].pc = "sending" /\ c \in push[p].todo
  /\ push' = [push EXCEPT ![p].todo = @ \ {c}]
  /\ \/ /\ \/ c \notin online
           \/ plan.pushes[p].gray /\ plan.rules # {} /\ ~MatchGrayRule(c)
        /\ UNCHANGED <<messages, arrived, subscribers>>
     \/ /\ c \in online
        /\ ~plan.pushes[p].gray \/ plan.rules = {} \/ MatchGrayRule(c)
        /\ messages' = messages \union {[push |-> p, client |-> c, status |-> "sent"]}
        /\ \/ UNCHANGED <<arrived, subscribers>>
           \/ /\ arrived' = arrived \union {[push |-> p, client |-> c]}
              /\ subscribers' = [subscribers EXCEPT ![plan.pushes[p].key] = Set(@, c, p)]
  /\ UNCHANGED <<plan, online, writer, rows, call, restarts>>

PushDone(p) ==
  /\ push[p].pc = "sending" /\ push[p].todo = {}
  /\ push' = [push EXCEPT ![p] = Gone]
  /\ UNCHANGED <<plan, online, subscribers, writer, rows, call, messages, arrived, restarts>>

\* The slip of an acknowledgement that takes the release's first message.
AckAny(p, c, ok) ==
  /\ [push |-> p, client |-> c] \in arrived
  /\ \E m \in {x \in messages : x.push = p} :
       messages' = (messages \ {m}) \union {[m EXCEPT !.status =
                                               IF ok THEN "delivered" ELSE "failed"]}
  /\ UNCHANGED <<plan, online, subscribers, writer, rows, call, push, arrived, restarts>>

\* The status the documents call acknowledged is never written.
HandleConfigAck(p, c, ok) ==
  /\ [push |-> p, client |-> c] \in arrived
  /\ \E m \in messages :
       /\ m.push = p /\ m.client = c
       /\ messages' = (messages \ {m}) \union {[m EXCEPT !.status =
                                                  IF ok THEN "delivered" ELSE "failed"]}
  /\ UNCHANGED <<plan, online, subscribers, writer, rows, call, push, arrived, restarts>>

Disconnect(c) ==
  /\ c \in online
  /\ online' = online \ {c}
  /\ UNCHANGED <<plan, subscribers, writer, rows, call, push, messages, arrived, restarts>>

\* A new engine reads the subscribers that are online.  No row ever becomes
\* offline, whether its client is connected or not.
LoadSubscribers ==
  /\ restarts < MaxRestarts
  /\ restarts' = restarts + 1
  /\ subscribers' = [k \in Keys |-> [c \in {d \in DOMAIN rows : k \in rows[d]} |-> 0]]
  /\ writer' = {}
  /\ call' = [k \in Calls |-> IF call[k] = Idle THEN Idle ELSE Gone]
  /\ push' = [p \in Pushes |-> IF push[p] = Idle THEN Idle ELSE Gone]
  /\ UNCHANGED <<plan, online, rows, messages, arrived>>

Next ==
  \/ \E k \in Calls : Subscribe(k) \/ Unsubscribe(k) \/ GetSubscriber(k) \/ SaveSubscriber(k)
  \/ \E p \in Pushes : PushConfig(p) \/ PushDone(p)
  \/ \E p \in Pushes, c \in Clients : \/ SendToSubscriber(p, c)
                                      \/ \E ok \in BOOLEAN : HandleConfigAck(p, c, ok)
  \/ \E c \in Clients : Disconnect(c)
  \/ LoadSubscribers

Spec == Init /\ [][Next]_vars

-----------------------------------------------------------------------------

(* Unsubscribe waits for the publications under way: once it has returned, *)
(* no message about the configuration is written for the client.           *)
NoneAfterUnsubscribe ==
  [][\A m \in messages' : (\E x \in messages : x.push = m.push /\ x.client = m.client)
       \/ m.client \in DOMAIN subscribers[plan.pushes[m.push].key]]_vars

(* What a message row says of its delivery is what its own client said.    *)
AckedByItsClient ==
  \A m \in messages : m.status # "sent" => [push |-> m.push, client |-> m.client] \in arrived
=============================================================================
