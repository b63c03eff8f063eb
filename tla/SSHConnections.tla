---------------------------- MODULE SSHConnections ----------------------------
(***************************************************************************)
(* Lasting ssh connections to a client: SSHClientManager on the server     *)
(* (src/cmd/server/ssh.go, behind src/pkg/api/ssh_api.go) and the ssh      *)
(* server on the client (src/pkg/ssh/server.go, started and stopped by     *)
(* src/cmd/client/ssh.go).  A connection is a QUIC stream; both sides work *)
(* on it in goroutines of their own.  A step is what runs under one lock,  *)
(* or up to the next message of the other side.                            *)
(***************************************************************************)
EXTENDS Integers, FiniteSets, Sequences

CONSTANTS
  Calls,       \* calls of the manager
  Plans        \* what the calls are: functions from Calls to Operations

VARIABLES
  plan,        \* the scenario, fixed
  listed,      \* sshClients: the connection of the client, 0 for none
  mu,          \* who holds the manager's mutex across steps: a call of Close
  call,        \* what each call does and with which connection
  holder,      \* ManagedSSHClient.mu of each connection: a call, or Nobody
  up,          \* the stream of a connection is open
  served,      \* the client's goroutine for the connection
  job,         \* the command or shell on the connection's channel
  device,      \* Server.running and Server.ctx of the client
  stopper      \* the call of Stop

vars == <<plan, listed, mu, call, holder, up, served, job, device, stopper>>
Nobody == "nobody"
Operations == {"connect", "disconnect", "exec", "shell", "oneshot", "close"}
Conns == 1 .. Cardinality(Calls)     \* a call opens one connection at most
Jobs == {"none", "asked", "running", "ended"}

TypeOK ==
  /\ plan \in Plans
  /\ listed \in {0} \cup Conns
  /\ mu \in Calls \cup {Nobody}
  /\ \A c \in Calls : call[c].conn \in {0} \cup Conns
  /\ holder \in [Conns -> Calls \cup {Nobody}]
  /\ up \in [Conns -> BOOLEAN]
  /\ served \in [Conns -> {"none", "checked", "handshake", "listed", "gone"}]
  /\ job \in [Conns -> Jobs]
  /\ device \in [running : BOOLEAN, cancelled : BOOLEAN]
  /\ stopper \in {"idle", "closing", "waiting", "stopped"}

Init ==
  /\ plan \in Plans
  /\ listed = 0 /\ mu = Nobody
  /\ call = [c \in Calls |-> [pc |-> "idle", conn |-> 0]]
  /\ holder = [n \in Conns |-> Nobody]
  /\ up = [n \in Conns |-> FALSE]
  /\ served = [n \in Conns |-> "none"]
  /\ job = [n \in Conns |-> "none"]
  /\ device = [running |-> TRUE, cancelled |-> FALSE]
  /\ stopper = "idle"

-----------------------------------------------------------------------------
(* The manager.                                                            *)

deviceVars == <<served, job, device, stopper>>
Go(c, pc, n) == call' = [call EXCEPT ![c] = [pc |-> pc, conn |-> n]]
At(c, ops, pc) == plan[c] \in ops /\ call[c].pc = pc

\* Connect looks for a connection under the read lock, gives the lock up and
\* opens a stream; a one-shot command opens one without looking.
Open(c) ==
  /\ At(c, {"connect", "oneshot"}, "idle") /\ (plan[c] = "connect" => mu = Nobody)
  /\ IF plan[c] = "connect" /\ listed # 0
     THEN Go(c, "done", 0) /\ UNCHANGED up
     ELSE LET n == 1 + Cardinality({d \in Calls : call[d].conn # 0 /\ plan[d] \in {"connect", "oneshot"}})
          IN Go(c, "handshake", n) /\ up' = [up EXCEPT ![n] = TRUE]
  /\ UNCHANGED <<plan, listed, mu, holder, deviceVars>>

\* The handshake: with the device's goroutine, or the stream fails.
Handshake(c) ==
  LET n == call[c].conn
  IN /\ call[c].pc = "handshake"
     /\ IF up[n] THEN served[n] = "handshake" /\ served' = [served EXCEPT ![n] = "listed"]
        ELSE UNCHANGED served
     /\ Go(c, IF ~up[n] THEN "done" ELSE IF plan[c] = "connect" THEN "save" ELSE "run", n)
     /\ UNCHANGED <<plan, listed, mu, holder, up, job, device, stopper>>

\* The connection replaces whatever another Connect has saved meanwhile.
SaveConnection(c) ==
  /\ call[c].pc = "save" /\ mu = Nobody
  /\ listed' = call[c].conn
  /\ Go(c, "done", call[c].conn)
  /\ UNCHANGED <<plan, mu, holder, up, deviceVars>>

\* Slip: Disconnect does not wait for the command that is running.
FindAndHangUp(c) ==
  /\ At(c, {"exec", "shell", "disconnect"}, "idle") /\ mu = Nobody
  /\ Go(c, IF listed = 0 THEN "done" ELSE IF plan[c] = "disconnect" THEN "hangup" ELSE "lock", listed)
  /\ listed' = IF plan[c] = "disconnect" THEN 0 ELSE listed
  /\ UNCHANGED <<plan, mu, holder, up, deviceVars>>

\* ExecuteCommand, StartShell and Disconnect look the connection up;
\* Disconnect takes it out of the map.
Find(c) ==
  /\ At(c, {"exec", "shell", "disconnect"}, "idle") /\ mu = Nobody
  /\ Go(c, IF listed = 0 THEN "done" ELSE "lock", listed)
  /\ listed' = IF plan[c] = "disconnect" THEN 0 ELSE listed
  /\ UNCHANGED <<plan, mu, holder, up, deviceVars>>

LockClient(c) ==
  LET n == call[c].conn
  IN /\ call[c].pc = "lock" /\ holder[n] = Nobody
     /\ holder' = [holder EXCEPT ![n] = c]
     /\ Go(c, IF plan[c] \in {"disconnect", "close"} THEN "hangup" ELSE "run", n)
     /\ UNCHANGED <<plan, listed, mu, up, deviceVars>>

\* NewSession and the request: it fails on a connection that is down.
Run(c) ==
  LET n == call[c].conn
  IN /\ call[c].pc = "run"
     /\ IF up[n] THEN Go(c, "running", n) /\ job' = [job EXCEPT ![n] = "asked"]
        ELSE Go(c, "unlock", n) /\ UNCHANGED job
     /\ UNCHANGED <<plan, listed, mu, holder, up, served, device, stopper>>

\* The output or the end of the shell comes, or the connection ends.
Finished(c) ==
  LET n == call[c].conn
  IN /\ call[c].pc = "running"
     /\ ~up[n] \/ job[n] = "ended"
     /\ Go(c, IF plan[c] = "oneshot" THEN "hangup" ELSE "unlock", n)
     /\ UNCHANGED <<plan, listed, mu, holder, up, deviceVars>>

HangUp(c) ==
  LET n == call[c].conn
  IN /\ call[c].pc = "hangup"
     /\ up' = [up EXCEPT ![n] = FALSE]
     /\ Go(c, "unlock", n)
     /\ UNCHANGED <<plan, listed, mu, holder, deviceVars>>

Unlock(c) ==
  LET n == call[c].conn
  IN /\ call[c].pc = "unlock"
     /\ holder' = [holder EXCEPT ![n] = IF @ = c THEN Nobody ELSE @]
     /\ Go(c, IF plan[c] = "close" THEN "clear" ELSE "done", n)
     /\ UNCHANGED <<plan, listed, mu, up, deviceVars>>

\* Close keeps the manager's mutex while it waits for each connection's.
Close(c) ==
  /\ At(c, {"close"}, "idle") /\ mu = Nobody
  /\ mu' = c
  /\ Go(c, IF listed = 0 THEN "clear" ELSE "lock", listed)
  /\ UNCHANGED <<plan, listed, holder, up, deviceVars>>

Clear(c) ==
  /\ call[c].pc = "clear"
  /\ listed' = 0 /\ mu' = Nobody
  /\ Go(c, "done", call[c].conn)
  /\ UNCHANGED <<plan, holder, up, deviceVars>>

ManagerStep(c) ==
  Open(c) \/ Handshake(c) \/ SaveConnection(c) \/ Find(c) \/ LockClient(c) \/ Run(c)
  \/ Finished(c) \/ HangUp(c) \/ Unlock(c) \/ Close(c) \/ Clear(c)

-----------------------------------------------------------------------------
(* The client's ssh server.                                                *)

managerVars == <<plan, listed, mu, call, holder>>

\* HandleStream: a server that is not running refuses and the stream is
\* closed; else, in a second step, a goroutine is counted and started.
HandleStream(n) ==
  /\ up[n] /\ served[n] = "none"
  /\ served' = [served EXCEPT ![n] = IF device.running THEN "checked" ELSE "gone"]
  /\ up' = [up EXCEPT ![n] = device.running]
  /\ UNCHANGED <<managerVars, job, device, stopper>>

StartHandshake(n) ==
  /\ served[n] = "checked"
  /\ served' = [served EXCEPT ![n] = "handshake"]
  /\ UNCHANGED <<managerVars, up, job, device, stopper>>

\* handleSessionChannel takes up what is asked.  A command needs a context
\* that is not cancelled; a shell that cannot be started ends the channel.
StartJob(n) ==
  /\ up[n] /\ job[n] = "asked"
  /\ job' = [job EXCEPT ![n] = IF device.cancelled THEN "ended" ELSE "running"]
  /\ UNCHANGED <<managerVars, up, served, device, stopper>>

IsShell(n) == \E c \in Calls : plan[c] = "shell" /\ call[c].conn = n

\* A command ends by itself or is killed with the context.  A shell ends when
\* its user ends it: on a terminal it does not notice that its connection is
\* gone (the copy of its input stops and leaves the terminal open).
EndJob(n) ==
  /\ IsShell(n) => up[n] \/ device.cancelled
  /\ job[n] = "running"
  /\ job' = [job EXCEPT ![n] = "ended"]
  /\ UNCHANGED <<managerVars, up, served, device, stopper>>

\* The connection is over: the goroutine takes the session out of the map.
\* What runs on a channel has a goroutine of its own.
EndSession(n) ==
  /\ ~up[n] /\ served[n] \in {"handshake", "listed"}
  /\ served' = [served EXCEPT ![n] = "gone"]
  /\ job' = [job EXCEPT ![n] = IF @ = "asked" THEN "ended" ELSE @]
  /\ UNCHANGED <<managerVars, up, device, stopper>>

\* The network, or CloseSession of the ssh server, ends a connection.
Lose(n) ==
  /\ up[n]
  /\ up' = [up EXCEPT ![n] = FALSE]
  /\ UNCHANGED <<managerVars, served, job, device, stopper>>

\* Slip: Stop leaves the context of the commands alone.
StopUncancelled ==
  /\ stopper = "idle" /\ device.running
  /\ device' = [device EXCEPT !.running = FALSE]
  /\ stopper' = "closing"
  /\ UNCHANGED <<managerVars, up, served, job>>

Stop ==
  /\ stopper = "idle" /\ device.running
  /\ device' = [running |-> FALSE, cancelled |-> TRUE]
  /\ stopper' = "closing"
  /\ UNCHANGED <<managerVars, up, served, job>>

\* The sessions in the map are closed, not those still in their handshake.
CloseSessions ==
  /\ stopper = "closing"
  /\ up' = [n \in Conns |-> up[n] /\ served[n] # "listed"]
  /\ stopper' = "waiting"
  /\ UNCHANGED <<managerVars, served, job, device>>

\* Stop returns when every goroutine that was counted has ended.
Stopped ==
  /\ stopper = "waiting"
  /\ \A n \in Conns : served[n] \notin {"handshake", "listed"} /\ job[n] # "running"
  /\ stopper' = "stopped"
  /\ UNCHANGED <<managerVars, up, served, job, device>>

\* The same server is started again; its context stays cancelled.
Start ==
  /\ stopper = "stopped" /\ ~device.running
  /\ device' = [device EXCEPT !.running = TRUE]
  /\ UNCHANGED <<managerVars, up, served, job, stopper>>

DeviceStep(n) ==
  HandleStream(n) \/ StartHandshake(n) \/ StartJob(n) \/ EndJob(n) \/ EndSession(n)

Next ==
  \/ \E c \in Calls : ManagerStep(c)
  \/ \E n \in Conns : DeviceStep(n) \/ Lose(n)
  \/ Stop \/ CloseSessions \/ Stopped \/ Start

\* Goroutines go on; nobody has to resize, to lose a connection or to stop.
Fairness ==
  /\ \A c \in Calls : WF_vars(ManagerStep(c))
  /\ \A n \in 1 .. Cardinality(Calls) : WF_vars(DeviceStep(n))
  /\ WF_vars(CloseSessions) /\ WF_vars(Stopped)

Spec == Init /\ [][Next]_vars /\ Fairness

-----------------------------------------------------------------------------
(* A command runs on a connection for one call at a time, and the manager  *)
(* never closes a connection under it: Disconnect and Close wait for the   *)
(* mutex of the connection.  So an answer is lost only to the network or   *)
(* to the client.                                                          *)
NoneHangsUpOnACommand ==
  [][\A c \in Calls : call[c].pc = "running" =>
       \A d \in Calls \ {c} :
         (call[d].pc = "hangup" /\ call'[d].pc # "hangup") => call[d].conn # call[c].conn]_vars

(* Once Stop has returned no command runs on the client, not even one of a *)
(* stream that was let in before Stop and counted after it (HandleStream   *)
(* adds to the WaitGroup after it has read running), and not after Start:  *)
(* the context stays cancelled.                                            *)
NothingRunsAfterStop ==
  stopper = "stopped" => \A n \in Conns : job[n] # "running"

(* Every call of the manager returns, although Close keeps the manager's   *)
(* mutex while it waits for a shell: provided that commands end.           *)
CallsReturn == \A c \in Calls : <>(call[c].pc = "done")
=============================================================================
