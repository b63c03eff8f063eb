-------------------------------- MODULE TaskHub --------------------------------
(***************************************************************************)
(* src/pkg/api/task_ws_api.go: a hub that pushes the changes of tasks to   *)
(* WebSocket clients.  One goroutine owns the set of clients and takes     *)
(* registrations, departures and messages from three channels; each client *)
(* has a buffered channel, a goroutine that writes from it to the socket   *)
(* and one that notices the end of the socket.                             *)
(***************************************************************************)
EXTENDS Integers, SequencesExt

CONSTANTS
  Clients,
  QueueSize,    \* of hub.broadcast
  SendSize,     \* of WSClient.send
  MaxMessages   \* bound: messages broadcast; they are numbered

VARIABLES
  clients,      \* hub.clients
  broadcast,    \* hub.broadcast
  sent,         \* messages broadcast so far
  handled,      \* messages the hub has handed on (history)
  client,       \* the client's goroutines, see ClientState
  send,         \* WSClient.send
  closed,       \* the channels that are closed
  since,        \* what the hub had handled when the client was registered (history)
  received      \* what the client has read (history)

vars == <<clients, broadcast, sent, handled, client, send, closed, since, received>>

\* conn: the socket is open; reader, writer: the two pumps.
ClientState == [conn : BOOLEAN, reader : {"none", "runs", "leaves", "done"},
                writer : {"none", "runs", "done"}]

TypeOK ==
  /\ clients \subseteq Clients /\ closed \subseteq Clients
  /\ Len(broadcast) <= QueueSize
  /\ sent \in 0 .. MaxMessages /\ handled \in 0 .. MaxMessages
  /\ client \in [Clients -> ClientState]
  /\ \A c \in Clients : Len(send[c]) <= SendSize /\ since[c] \in 0 .. MaxMessages

Init ==
  /\ clients = {} /\ closed = {}
  /\ broadcast = <<>> /\ sent = 0 /\ handled = 0
  /\ client = [c \in Clients |-> [conn |-> FALSE, reader |-> "none", writer |-> "none"]]
  /\ send = [c \in Clients |-> <<>>]
  /\ since = [c \in Clients |-> 0]
  /\ received = [c \in Clients |-> <<>>]

\* BroadcastTaskStatus and the others wait for room in the queue.
Broadcast ==
  /\ sent < MaxMessages /\ Len(broadcast) < QueueSize
  /\ sent' = sent + 1
  /\ broadcast' = Append(broadcast, sent + 1)
  /\ UNCHANGED <<clients, handled, client, send, closed, since, received>>

\* HandleWebSocket: the hub takes the registration, the pumps start.
Register(c) ==
  /\ client[c].reader = "none"
  /\ clients' = clients \cup {c}
  /\ client' = [client EXCEPT ![c] = [conn |-> TRUE, reader |-> "runs", writer |-> "runs"]]
  /\ since' = [since EXCEPT ![c] = handled]
  /\ UNCHANGED <<broadcast, sent, handled, send, closed, received>>

\* Only a client that is still there has its channel closed.
Unregister(c) ==
  /\ client[c].reader = "leaves"
  /\ client' = [client EXCEPT ![c].reader = "done", ![c].conn = FALSE]
  /\ clients' = clients \ {c}
  /\ closed' = closed \cup (clients \cap {c})
  /\ UNCHANGED <<broadcast, sent, handled, send, since, received>>

Full == {c \in clients : Len(send[c]) = SendSize}

\* Slip: a client whose channel is full misses the message and stays.
HandOnOrSkip ==
  /\ broadcast # <<>>
  /\ send' = [c \in Clients |-> IF c \in clients \ Full THEN Append(send[c], Head(broadcast)) ELSE send[c]]
  /\ broadcast' = Tail(broadcast) /\ handled' = Head(broadcast)
  /\ UNCHANGED <<sent, client, since, received, clients, closed>>

\* The hub hands a message on: who has no room for it is dropped.
HandOn ==
  /\ broadcast # <<>>
  /\ send' = [c \in Clients |-> IF c \in clients \ Full THEN Append(send[c], Head(broadcast)) ELSE send[c]]
  /\ clients' = clients \ Full
  /\ closed' = closed \cup Full
  /\ broadcast' = Tail(broadcast) /\ handled' = Head(broadcast)
  /\ UNCHANGED <<sent, client, since, received>>

\* writePump: what is in the channel is written, also after it was closed;
\* then, or when the socket fails, the socket is closed.
WritePump(c) ==
  /\ client[c].writer = "runs"
  /\ \/ /\ send[c] # <<>>
        /\ send' = [send EXCEPT ![c] = Tail(@)]
        /\ received' = IF client[c].conn THEN [received EXCEPT ![c] = Append(@, Head(send[c]))] ELSE received
        /\ client' = IF client[c].conn THEN client ELSE [client EXCEPT ![c].writer = "done"]
     \/ /\ send[c] = <<>> /\ c \in closed
        /\ client' = [client EXCEPT ![c].writer = "done", ![c].conn = FALSE]
        /\ UNCHANGED <<send, received>>
  /\ UNCHANGED <<clients, broadcast, sent, handled, closed, since>>

\* readPump: the end of the socket is what makes it leave.
ReadPump(c) ==
  /\ client[c].reader = "runs" /\ ~client[c].conn
  /\ client' = [client EXCEPT ![c].reader = "leaves"]
  /\ UNCHANGED <<clients, broadcast, sent, handled, send, closed, since, received>>

Disconnect(c) ==
  /\ client[c].conn
  /\ client' = [client EXCEPT ![c].conn = FALSE]
  /\ UNCHANGED <<clients, broadcast, sent, handled, send, closed, since, received>>

Next ==
  \/ Broadcast \/ HandOn
  \/ \E c \in Clients : Register(c) \/ Unregister(c) \/ WritePump(c) \/ ReadPump(c) \/ Disconnect(c)

Spec == Init /\ [][Next]_vars

-----------------------------------------------------------------------------
(* What a client reads is every message the hub handled from its           *)
(* registration on, in order, up to some point: a client that is too slow  *)
(* is dropped and never shown a list of changes with a hole in it.         *)
NoGaps ==
  \A c \in Clients :
    LET upto == since[c] + Len(received[c]) + Len(send[c])
    IN client[c].conn => /\ received[c] \o send[c] = [i \in 1 .. upto - since[c] |-> since[c] + i]
                         /\ c \in clients => upto = handled
=============================================================================
