------------------------------ MODULE Messages ------------------------------
(***************************************************************************)
(* pkg/transport: the messages that server and clients send each other     *)
(* (SendTo, SendToWithPromise, AsyncSend, Broadcast; SendMessage of the    *)
(* client), how the receiver hands them to its dispatcher and what it      *)
(* answers on the stream, and the callback of a command (pkg/command       *)
(* handler.go) that cmd/server/router.go keeps for those who wait for it.  *)
(*                                                                         *)
(* A copy <<k, c>> is the message of call k as it travels between the      *)
(* server and client c, on a stream of its own.  Time is what the          *)
(* timeouts make of it: each may strike as soon as it is armed.            *)
(***************************************************************************)
EXTENDS Naturals, Sequences, FiniteSets

CONSTANTS
  Calls,     \* the calls that send something
  Clients,
  Waiters,   \* callers of WaitForCallback
  QueueSize, \* of each dispatcher (TaskQueueSize)
  Workers,   \* of each dispatcher (WorkerCount)
  Tokens,    \* Broadcast's maxConcurrency
  Plans      \* what the calls are

VARIABLES
  plan,     \* call, client, type, wait (WaitAck) and callback (need_callback) of each call
  online,   \* the clients whose session is listed and whose connection lives
  call,     \* the caller
  listed,   \* the clients a broadcast has found
  left,     \* those it has not started a goroutine for
  counted,  \* those counted in successCount or in errors
  promise,  \* PromiseManager's entry of a call
  copy,     \* a copy on its way
  queue,    \* the dispatchers' queues
  job,      \* what the handler made of a copy
  answer,   \* what the receiver wrote back
  callback, \* the callback of a command, up to commandCallbacks.data
  waiter,   \* WaitForCallback
  listening \* commandCallbacks.listeners, all of one callback ID

vars == <<plan, online, call, listed, left, counted, promise, copy, queue, job,
          answer, callback, waiter, listening>>

Server == "server"
Copies == Calls \X Clients
Upward(k) == plan[k].call = "message"
Receiver(m) == IF Upward(m[1]) THEN Server ELSE m[2]

TypeOK ==
  /\ plan \in Plans
  /\ online \subseteq Clients
  /\ call \in [Calls -> {"idle", "created", "sending", "reading", "returned", "refused"}]
  /\ listed \in [Calls -> SUBSET Clients] /\ left \in [Calls -> SUBSET Clients]
  /\ counted \in [Calls -> [sent : SUBSET Clients, errors : SUBSET Clients]]
  /\ promise \in [Calls -> {"none", "open", "success", "failure", "error", "timeout", "removed"}]
  /\ copy \in [Copies -> {"none", "sending", "sent", "accepted", "waiting", "left", "lost"}]
  /\ queue \in [Clients \cup {Server} -> Seq(Copies)]
  /\ job \in [Copies -> {"none", "running", "response", "nothing", "error"}]
  /\ answer \in [Copies -> {"none", "success", "failure", "late", "data"}]
  /\ callback \in [Calls -> {"none", "coming", "lost", "stored", "told"}]
  /\ waiter \in [Waiters -> {"idle", "unknown", "listening", "got", "timeout"}]
  /\ listening \subseteq Waiters

Init ==
  /\ plan \in Plans
  /\ online = Clients
  /\ call = [k \in Calls |-> "idle"]
  /\ listed = [k \in Calls |-> {}] /\ left = [k \in Calls |-> {}]
  /\ counted = [k \in Calls |-> [sent |-> {}, errors |-> {}]]
  /\ promise = [k \in Calls |-> "none"]
  /\ copy = [m \in Copies |-> "none"]
  /\ queue = [n \in Clients \cup {Server} |-> <<>>]
  /\ job = [m \in Copies |-> "none"]
  /\ answer = [m \in Copies |-> "none"]
  /\ callback = [k \in Calls |-> "none"]
  /\ waiter = [w \in Waiters |-> "idle"]
  /\ listening = {}

broadcastVars == <<listed, left, counted>>
handlerVars == <<queue, job>>
callbackVars == <<callback, waiter, listening>>
receiverVars == <<handlerVars, answer, callbackVars>>

-----------------------------------------------------------------------------
(* Sending.                                                                *)

\* The promise is there before the frame is: no answer can be missed.
Create(k) ==
  /\ call[k] = "idle" /\ plan[k].call \in {"promise", "async"}
  /\ plan[k].call = "promise" => plan[k].client \in online
  /\ promise' = [promise EXCEPT ![k] = "open"]
  /\ call' = [call EXCEPT ![k] = "created"]
  /\ UNCHANGED <<plan, online, broadcastVars, copy, receiverVars>>

\* ErrClientNotConnected; AsyncSend takes its promise back.
Refuse(k) ==
  /\ plan[k].client \notin online /\ plan[k].call # "broadcast"
  /\ call[k] = IF plan[k].call = "async" THEN "created" ELSE "idle"
  /\ promise' = IF call[k] = "created" THEN [promise EXCEPT ![k] = "removed"] ELSE promise
  /\ call' = [call EXCEPT ![k] = "refused"]
  /\ UNCHANGED <<plan, online, broadcastVars, copy, receiverVars>>

\* The session is found (by Create already); its stream is not opened yet.
SendTo(k) ==
  LET m == <<k, plan[k].client>> IN
  /\ plan[k].call # "broadcast"
  /\ plan[k].call # "promise" => m[2] \in online
  /\ call[k] = IF plan[k].call \in {"promise", "async"} THEN "created" ELSE "idle"
  /\ copy' = [copy EXCEPT ![m] = "sending"]
  /\ call' = [call EXCEPT ![k] = "sending"]
  /\ UNCHANGED <<plan, online, broadcastVars, promise, receiverVars>>

\* OpenStreamSync and WriteFrame: a caller that wants an answer reads on.
Write(m) ==
  /\ plan[m[1]].call # "broadcast"
  /\ copy[m] = "sending"
  /\ IF m[2] \in online
     THEN /\ copy' = [copy EXCEPT ![m] = "sent"]
          /\ call' = [call EXCEPT ![m[1]] =
               IF plan[m[1]].call = "promise" \/ (Upward(m[1]) /\ plan[m[1]].wait)
               THEN "reading" ELSE "returned"]
          /\ UNCHANGED promise
     ELSE /\ copy' = [copy EXCEPT ![m] = "lost"]
          /\ call' = [call EXCEPT ![m[1]] = "refused"]
          /\ promise' = IF promise[m[1]] = "open"
                        THEN [promise EXCEPT ![m[1]] = "removed"] ELSE promise
  /\ UNCHANGED <<plan, online, broadcastVars, receiverVars>>

\* ListClientIDs.
Broadcast(k) ==
  /\ call[k] = "idle" /\ plan[k].call = "broadcast"
  /\ listed' = [listed EXCEPT ![k] = online]
  /\ left' = [left EXCEPT ![k] = online]
  /\ call' = [call EXCEPT ![k] = IF online = {} THEN "returned" ELSE "sending"]
  /\ UNCHANGED <<plan, online, counted, promise, copy, receiverVars>>

Sending(k) == {c \in Clients : copy[<<k, c>>] = "sending"}

\* sem <- struct{}{}, and a goroutine for the next client.
Spawn(k, c) ==
  /\ c \in left[k] /\ Cardinality(Sending(k)) < Tokens
  /\ left' = [left EXCEPT ![k] = @ \ {c}]
  /\ copy' = [copy EXCEPT ![<<k, c>>] = "sending"]
  /\ UNCHANGED <<plan, online, call, listed, counted, promise, receiverVars>>

\* SendTo of one goroutine: the count and the token are given together here.
SendOne(m) ==
  /\ plan[m[1]].call = "broadcast" /\ copy[m] = "sending"
  /\ IF m[2] \in online
     THEN /\ copy' = [copy EXCEPT ![m] = "sent"]
          /\ counted' = [counted EXCEPT ![m[1]].sent = @ \cup {m[2]}]
     ELSE /\ copy' = [copy EXCEPT ![m] = "lost"]
          /\ counted' = [counted EXCEPT ![m[1]].errors = @ \cup {m[2]}]
  /\ UNCHANGED <<plan, online, call, listed, left, promise, receiverVars>>

\* wg.Wait().
Join(k) ==
  /\ plan[k].call = "broadcast" /\ call[k] = "sending"
  /\ left[k] = {} /\ Sending(k) = {}
  /\ call' = [call EXCEPT ![k] = "returned"]
  /\ UNCHANGED <<plan, online, broadcastVars, promise, copy, receiverVars>>

-----------------------------------------------------------------------------
(* Receiving: handleStream, handleData and the dispatcher of either side.  *)

\* Streams are accepted in any order.
Accept(m) ==
  /\ copy[m] = "sent" /\ m[2] \in online
  /\ copy' = [copy EXCEPT ![m] = "accepted"]
  /\ UNCHANGED <<plan, online, call, broadcastVars, promise, receiverVars>>

\* Dispatch blocks while the queue is full, whatever the time.
Dispatch(m) ==
  /\ copy[m] = "accepted" /\ Len(queue[Receiver(m)]) < QueueSize
  /\ queue' = [queue EXCEPT ![Receiver(m)] = Append(@, m)]
  /\ copy' = [copy EXCEPT ![m] = IF plan[m[1]].wait THEN "waiting" ELSE "left"]
  /\ UNCHANGED <<plan, online, call, broadcastVars, promise, job, answer, callbackVars>>

Running(n) == {m \in Copies : Receiver(m) = n /\ job[m] = "running"}

Work(n) ==
  /\ queue[n] # <<>> /\ Cardinality(Running(n)) < Workers
  /\ job' = [job EXCEPT ![Head(queue[n])] = "running"]
  /\ queue' = [queue EXCEPT ![n] = Tail(@)]
  /\ UNCHANGED <<plan, online, call, broadcastVars, promise, copy, answer, callbackVars>>

\* cmd/client: HandleCommand has a response for a failure too, an event has
\* none, and nobody handles the other types.
ClientOutcome(type) ==
  CASE type = "command" -> {"response"} [] type = "event" -> {"nothing"} [] OTHER -> {"error"}

\* cmd/server: a route for events and queries, which may fail.
ServerOutcome(type) == {"error"} \cup (IF type = "command" THEN {} ELSE {"response"})

\* A command that asks for it sends its callback before it returns.
Handle(m) ==
  /\ job[m] = "running"
  /\ \E o \in (IF Upward(m[1]) THEN ServerOutcome(plan[m[1]].type) ELSE ClientOutcome(plan[m[1]].type)) :
       job' = [job EXCEPT ![m] = o]
  /\ callback' = IF plan[m[1]].callback THEN [callback EXCEPT ![m[1]] = "coming"] ELSE callback
  /\ UNCHANGED <<plan, online, call, broadcastVars, promise, copy, queue, answer, waiter, listening>>

Ended(m) == job[m] \notin {"none", "running"}

\* The client acknowledges whatever its handler returned without an error.
Acknowledge(m) ==
  /\ copy[m] = "waiting" /\ Ended(m) /\ ~Upward(m[1])
  /\ answer' = [answer EXCEPT ![m] = IF job[m] = "error" THEN "failure" ELSE "success"]
  /\ copy' = [copy EXCEPT ![m] = "left"]
  /\ UNCHANGED <<plan, online, call, broadcastVars, promise, handlerVars, callbackVars>>

\* The server sends the response itself, as DATA, or leaves without a word.
Respond(m) ==
  /\ copy[m] = "waiting" /\ Ended(m) /\ Upward(m[1])
  /\ answer' = [answer EXCEPT ![m] = IF job[m] = "response" THEN "data" ELSE "none"]
  /\ copy' = [copy EXCEPT ![m] = "left"]
  /\ UNCHANGED <<plan, online, call, broadcastVars, promise, handlerVars, callbackVars>>

\* 30 s are over for the client: "processing timeout"; the handler goes on.
GiveUp(m) ==
  /\ copy[m] = "waiting" /\ ~Upward(m[1])
  /\ answer' = [answer EXCEPT ![m] = "late"]
  /\ copy' = [copy EXCEPT ![m] = "left"]
  /\ UNCHANGED <<plan, online, call, broadcastVars, promise, handlerVars, callbackVars>>

-----------------------------------------------------------------------------
(* Reading the answer.                                                     *)

\* A stream ends when its receiver has left it or its connection is gone.
StreamEnds(m) == copy[m] \in {"left", "lost"} \/ m[2] \notin online

\* What ReadFrame makes of it: the acknowledgement, or an error, which a
\* connection that is gone may give in its place.
ReadFrame(m) ==
  {r \in {"success", "failure", "error"} :
     CASE r = "success" -> answer[m] = "success"
       [] r = "failure" -> answer[m] \in {"failure", "late"}
       [] r = "error" -> answer[m] = "none" \/ m[2] \notin online}

\* The goroutine of SendToWithPromise: Complete, or Fail if nothing came.
ReadAck(m) ==
  /\ plan[m[1]].call = "promise" /\ call[m[1]] = "reading"
  /\ copy[m] # "none" /\ StreamEnds(m)
  /\ \E r \in ReadFrame(m) :
       promise' = IF promise[m[1]] = "open" THEN [promise EXCEPT ![m[1]] = r] ELSE promise
  /\ call' = [call EXCEPT ![m[1]] = "returned"]
  /\ UNCHANGED <<plan, online, broadcastVars, copy, receiverVars>>

\* SendMessage: a DATA frame is not the ACK it wants, nor is the stream's end.
ReadOther(m) ==
  /\ Upward(m[1]) /\ call[m[1]] = "reading" /\ StreamEnds(m)
  /\ call' = [call EXCEPT ![m[1]] = "refused"]
  /\ UNCHANGED <<plan, online, broadcastVars, promise, copy, receiverVars>>

\* The promise's timer, or SendMessage's.
Timeout(k) ==
  /\ promise[k] = "open" \/ (Upward(k) /\ call[k] = "reading")
  /\ promise' = IF Upward(k) THEN promise ELSE [promise EXCEPT ![k] = "timeout"]
  /\ call' = IF Upward(k) THEN [call EXCEPT ![k] = "refused"] ELSE call
  /\ UNCHANGED <<plan, online, broadcastVars, copy, receiverVars>>

\* A client goes: what it has not handled is lost with its streams.
Disconnect(c) ==
  /\ c \in online
  /\ online' = online \ {c}
  /\ copy' = [m \in Copies |-> IF m[2] = c /\ copy[m] \in {"sent", "accepted", "waiting"}
                               THEN "lost" ELSE copy[m]]
  /\ UNCHANGED <<plan, call, broadcastVars, promise, receiverVars>>

-----------------------------------------------------------------------------
(* The callback: a message of its own, which the server's route stores    *)
(* (handleCommandCallback) before it tells those who listen.  Nothing but  *)
(* this route uses WaitForCallback's table.                                *)

\* The client must still be connected.
StoreCallback(k) ==
  /\ callback[k] = "coming"
  /\ callback' = [callback EXCEPT ![k] = IF plan[k].client \in online THEN "stored" ELSE "lost"]
  /\ UNCHANGED <<plan, online, call, broadcastVars, promise, copy, handlerVars, answer, waiter, listening>>

notifyCallbackListeners(k) ==
  /\ callback[k] = "stored"
  /\ callback' = [callback EXCEPT ![k] = "told"]
  /\ waiter' = [w \in Waiters |-> IF w \in listening /\ waiter[w] = "listening" THEN "got" ELSE waiter[w]]
  /\ listening' = {}
  /\ UNCHANGED <<plan, online, call, broadcastVars, promise, copy, handlerVars, answer>>

Stored == \E k \in Calls : callback[k] \in {"stored", "told"}

\* The look and the listener are two critical sections.
LookUp(w) ==
  /\ waiter[w] = "idle" /\ \E k \in Calls : plan[k].callback
  /\ waiter' = [waiter EXCEPT ![w] = IF Stored THEN "got" ELSE "unknown"]
  /\ UNCHANGED <<plan, online, call, broadcastVars, promise, copy, handlerVars, answer, callback, listening>>

Listen(w) ==
  /\ waiter[w] = "unknown"
  /\ waiter' = [waiter EXCEPT ![w] = "listening"]
  /\ listening' = listening \cup {w}
  /\ UNCHANGED <<plan, online, call, broadcastVars, promise, copy, handlerVars, answer, callback>>

\* The listeners of everybody go with the first who gives up.
StopListening(w) ==
  /\ waiter[w] = "listening"
  /\ waiter' = [waiter EXCEPT ![w] = "timeout"]
  /\ listening' = {}
  /\ UNCHANGED <<plan, online, call, broadcastVars, promise, copy, handlerVars, answer, callback>>

-----------------------------------------------------------------------------
CallStep(k) ==
  \/ Create(k) \/ Refuse(k) \/ SendTo(k) \/ Broadcast(k) \/ Join(k)
  \/ \E c \in Clients : Spawn(k, c)
CopyStep(m) ==
  \/ Write(m) \/ SendOne(m) \/ Accept(m) \/ Dispatch(m) \/ Handle(m)
  \/ Acknowledge(m) \/ Respond(m) \/ GiveUp(m) \/ ReadAck(m) \/ ReadOther(m)
WaiterStep(w) == LookUp(w) \/ Listen(w) \/ StopListening(w)

Next ==
  \/ \E k \in Calls : CallStep(k) \/ Timeout(k) \/ StoreCallback(k) \/ notifyCallbackListeners(k)
  \/ \E m \in Copies : CopyStep(m)
  \/ \E n \in Clients \cup {Server} : Work(n)
  \/ \E w \in Waiters : WaiterStep(w)
  \/ \E c \in Clients : Disconnect(c)

\* Goroutines run and timers fire; every handler has a time limit of its own.
Fairness ==
  /\ \A k \in Calls : WF_vars(CallStep(k)) /\ WF_vars(Timeout(k))
  /\ \A m \in Copies : WF_vars(CopyStep(m))
  /\ \A n \in Clients \cup {Server} : WF_vars(Work(n))
  /\ \A w \in Waiters : WF_vars(WaiterStep(w))

Spec == Init /\ [][Next]_vars /\ Fairness

-----------------------------------------------------------------------------
Copy(k) == <<k, plan[k].client>>

(* An error of a call that sends means that the client has not seen the    *)
(* message, so that a retry is no second run; a promise is kept by an      *)
(* acknowledgement of its own message whose handler has returned, and      *)
(* AsyncSend's, whose stream nobody reads, is never kept (SendTo,          *)
(* SendToWithPromise, AsyncSend, handleData).                              *)
AcksAreEarned ==
  \A k \in Calls : ~Upward(k) /\ plan[k].call # "broadcast" =>
    /\ (call[k] = "refused" => job[Copy(k)] = "none")
    /\ (promise[k] = "success" => Ended(Copy(k)) /\ job[Copy(k)] # "error")
    /\ (promise[k] = "failure" => Ended(Copy(k)) \/ answer[Copy(k)] = "late")
    /\ (plan[k].call = "async" => promise[k] \notin {"success", "failure"})

(* A broadcast that has returned counted each client it listed once, those *)
(* in errors have not handled the message, and it kept to its tokens.      *)
BroadcastsAddUp ==
  \A k \in Calls :
    /\ Cardinality(Sending(k)) <= Tokens
    /\ \A c \in counted[k].errors : job[<<k, c>>] = "none"
    /\ plan[k].call = "broadcast" /\ call[k] = "returned" =>
         /\ counted[k].sent \cup counted[k].errors = listed[k]
         /\ Cardinality(counted[k].sent) + Cardinality(counted[k].errors) = Cardinality(listed[k])

MessagesAreTrue == AcksAreEarned /\ BroadcastsAddUp

(* A call that was made returns, its reader leaves the stream, its promise *)
(* is settled, and whoever waits for a callback stops waiting, although    *)
(* clients go, queues are full and handlers outlast the answer.            *)
MessagesEnd ==
  []<>(/\ \A k \in Calls : call[k] \in {"returned", "refused"} /\ promise[k] # "open"
       /\ \A w \in Waiters : waiter[w] \notin {"unknown", "listening"})
=============================================================================
