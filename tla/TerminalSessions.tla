--------------------------- MODULE TerminalSessions ---------------------------
(***************************************************************************)
(* The web terminal: TerminalManager.HandleWebSocket (src/pkg/api/         *)
(* terminal_api.go) bridges a WebSocket and a PTY session of               *)
(* SSHClientManager (src/cmd/server/ssh.go), with a SessionAuditor         *)
(* (src/pkg/audit) that stores every command line and a Recorder (src/pkg/ *)
(* recording).                                                             *)
(*                                                                         *)
(* Four goroutines meet at a PTY session: the handler, the one that waits  *)
(* for the shell to end, an operator who closes the session through the    *)
(* API, and one per command that is being stored.  Each section under a    *)
(* lock, each send or close on a channel is a step.  What the two sides    *)
(* show each other is left out: a line of input is a number.               *)
(***************************************************************************)
EXTENDS Integers, Sequences, FiniteSets

CONSTANTS
  Terminals,    \* WebSocket connections, each with the PTY session it opens
  MaxLines,     \* bound on the command lines typed in a terminal
  StoreKinds    \* kinds of audit store: "none", "file", "postgres"

VARIABLES
  storeKind,    \* TerminalManager.auditStore, fixed
  handler,      \* the step of HandleWebSocket
  socket,       \* the WebSocket is open
  listed,       \* PTY sessions in ptySessions
  sessions,     \* TerminalManager.sessions
  shell,        \* the remote shell: "none", "running", "ended"
  marked,       \* PTYSession.closed
  done,         \* PTYSession.Done is closed
  cleanup,      \* the goroutine that waits for the shell
  cleaned,      \* PTYSession.CleanedUp is closed
  remote,       \* the ssh client and the QUIC stream are open
  closer,       \* calls of ClosePTYSession: by the handler, by an operator
  buffer,       \* SessionAuditor.inputBuffer is not empty
  typed,        \* lines entered so far
  saving,       \* goroutines at saveCommand
  cancelled,    \* the context of the auditor is cancelled
  log,          \* the lines in the audit store
  recording     \* the Recorder: "none", "open", "saved"

auditVars == <<buffer, typed, saving, cancelled, log, recording>>
ptyVars == <<listed, shell, marked, done, cleanup, cleaned, remote, closer>>
vars == <<storeKind, handler, socket, sessions, ptyVars, auditVars>>

Closers == {"handler", "operator"}

TypeOK ==
  /\ storeKind \in StoreKinds
  /\ handler \in [Terminals -> {"idle", "lookup", "loop", "finish", "close", "done"}]
  /\ sessions \subseteq Terminals /\ listed \subseteq Terminals
  /\ shell \in [Terminals -> {"none", "running", "ended"}]
  /\ cleanup \in [Terminals -> {"none", "wait", "done", "unlist", "close", "end"}]
  /\ closer \in [Terminals \X Closers ->
                   {"idle", "take", "mark", "close", "wait", "waitcleaned", "end"}]
  /\ \A t \in Terminals : typed[t] \in 0..MaxLines
  /\ recording \in [Terminals -> {"none", "open", "saved"}]

Init ==
  /\ storeKind \in StoreKinds
  /\ handler = [t \in Terminals |-> "idle"]
  /\ socket = [t \in Terminals |-> FALSE]
  /\ listed = {} /\ sessions = {}
  /\ shell = [t \in Terminals |-> "none"]
  /\ marked = [t \in Terminals |-> FALSE]
  /\ done = [t \in Terminals |-> FALSE]
  /\ cleanup = [t \in Terminals |-> "none"]
  /\ cleaned = [t \in Terminals |-> FALSE]
  /\ remote = [t \in Terminals |-> FALSE]
  /\ closer = [p \in Terminals \X Closers |-> "idle"]
  /\ buffer = [t \in Terminals |-> FALSE]
  /\ typed = [t \in Terminals |-> 0]
  /\ saving = {}
  /\ cancelled = [t \in Terminals |-> FALSE]
  /\ log = [t \in Terminals |-> {}]
  /\ recording = [t \in Terminals |-> "none"]

-----------------------------------------------------------------------------
(* HandleWebSocket, up to its loop.                                        *)

(* StartPTYSession: a stream, an ssh handshake, a shell; what fails on the *)
(* way closes what was opened and ends the handler.                        *)
StartPTYSession(t) ==
  /\ handler[t] = "idle"
  /\ \/ /\ handler' = [handler EXCEPT ![t] = "lookup"]
        /\ socket' = [socket EXCEPT ![t] = TRUE]
        /\ listed' = listed \cup {t}
        /\ shell' = [shell EXCEPT ![t] = "running"]
        /\ cleanup' = [cleanup EXCEPT ![t] = "wait"]
        /\ remote' = [remote EXCEPT ![t] = TRUE]
     \/ /\ handler' = [handler EXCEPT ![t] = "done"]
        /\ UNCHANGED <<socket, listed, shell, cleanup, remote>>
  /\ UNCHANGED <<storeKind, sessions, marked, done, cleaned, closer, auditVars>>

(* The reader, the writer and Done are looked up by the id; then auditor,  *)
(* recorder and session are set up.  A session that has ended meanwhile is *)
(* not found: the handler closes it and returns.                           *)
LookUp(t) ==
  /\ handler[t] = "lookup"
  /\ IF t \in listed
     THEN /\ handler' = [handler EXCEPT ![t] = "loop"]
          /\ sessions' = sessions \cup {t}
          /\ \E r \in {"none", "open"} : recording' = [recording EXCEPT ![t] = r]
          /\ UNCHANGED closer
     ELSE /\ handler' = [handler EXCEPT ![t] = "close"]
          /\ closer' = [closer EXCEPT ![<<t, "handler">>] = "take"]
          /\ UNCHANGED <<sessions, recording>>
  /\ UNCHANGED <<storeKind, socket, listed, shell, marked, done, cleanup, cleaned,
                 remote, buffer, typed, saving, cancelled, log>>

-----------------------------------------------------------------------------
(* The loop.  SessionAuditor.RecordInput runs in the handler: printable    *)
(* input fills the buffer, Enter stores a line that is not empty in a      *)
(* goroutine of its own, Ctrl+C and Ctrl+U clear.                          *)

Reads(t) == handler[t] = "loop" /\ socket[t]

TypeText(t) ==
  /\ Reads(t) /\ storeKind # "none"
  /\ buffer' = [buffer EXCEPT ![t] = TRUE]
  /\ UNCHANGED <<storeKind, handler, socket, sessions, ptyVars, typed, saving,
                 cancelled, log, recording>>

Clear(t) ==
  /\ Reads(t) /\ buffer[t]
  /\ buffer' = [buffer EXCEPT ![t] = FALSE]
  /\ UNCHANGED <<storeKind, handler, socket, sessions, ptyVars, typed, saving,
                 cancelled, log, recording>>

Enter(t) ==
  /\ Reads(t) /\ typed[t] < MaxLines
  /\ buffer[t]
  /\ typed' = [typed EXCEPT ![t] = @ + 1]
  /\ saving' = saving \cup {[term |-> t, line |-> typed[t] + 1]}
  /\ buffer' = [buffer EXCEPT ![t] = FALSE]
  /\ UNCHANGED <<storeKind, handler, socket, sessions, ptyVars, cancelled, log, recording>>

(* saveCommand: the database refuses a cancelled context, the files do not *)
(* look at it.                                                             *)
SaveCancellable(s) ==
  /\ saving' = saving \ {s}
  /\ log' = IF cancelled[s.term] THEN log
            ELSE [log EXCEPT ![s.term] = @ \cup {s.line}]

SaveCommand(s) ==
  /\ saving' = saving \ {s}
  /\ log' = IF storeKind = "postgres" /\ cancelled[s.term] THEN log
            ELSE [log EXCEPT ![s.term] = @ \cup {s.line}]

Save ==
  /\ \E s \in saving : SaveCommand(s)
  /\ UNCHANGED <<storeKind, handler, socket, sessions, ptyVars, buffer, typed,
                 cancelled, recording>>

(* The browser goes away.                                                  *)
Hangup(t) ==
  /\ socket[t]
  /\ socket' = [socket EXCEPT ![t] = FALSE]
  /\ UNCHANGED <<storeKind, handler, sessions, ptyVars, auditVars>>

(* The shell ends: exit, or the connection to the client is lost.          *)
ShellEnds(t) ==
  /\ shell[t] = "running"
  /\ shell' = [shell EXCEPT ![t] = "ended"]
  /\ UNCHANGED <<storeKind, handler, socket, sessions, listed, marked, done, cleanup,
                 cleaned, remote, closer, auditVars>>

(* The loop ends: Done is closed, the output ended, the socket is gone, or *)
(* a write to the shell failed.  The deferred calls follow.                *)
Leave(t) ==
  /\ handler[t] = "loop"
  /\ done[t] \/ shell[t] = "ended" \/ ~socket[t]
  /\ handler' = [handler EXCEPT ![t] = "finish"]
  /\ sessions' = sessions \ {t}
  /\ UNCHANGED <<storeKind, socket, ptyVars, auditVars>>

Finish(t) ==
  /\ handler[t] = "finish"
  /\ cancelled' = [cancelled EXCEPT ![t] = TRUE]
  /\ recording' = [recording EXCEPT ![t] = IF @ = "open" THEN "saved" ELSE @]
  /\ handler' = [handler EXCEPT ![t] = "close"]
  /\ closer' = [closer EXCEPT ![<<t, "handler">>] = "take"]
  /\ UNCHANGED <<storeKind, socket, sessions, listed, shell, marked, done, cleanup,
                 cleaned, remote, buffer, typed, saving, log>>

Return(t) ==
  /\ handler[t] = "close"
  /\ closer[<<t, "handler">>] = "end"
  /\ handler' = [handler EXCEPT ![t] = "done"]
  /\ socket' = [socket EXCEPT ![t] = FALSE]
  /\ UNCHANGED <<storeKind, sessions, ptyVars, auditVars>>

(* CloseSession of the API: the socket of a session it knows is closed,    *)
(* then the PTY session.                                                   *)
CloseSession(t) ==
  /\ closer[<<t, "operator">>] = "idle"
  /\ t \in listed
  /\ socket' = [socket EXCEPT ![t] = IF t \in sessions THEN FALSE ELSE @]
  /\ closer' = [closer EXCEPT ![<<t, "operator">>] = "take"]
  /\ UNCHANGED <<storeKind, handler, sessions, listed, shell, marked, done, cleanup,
                 cleaned, remote, auditVars>>

-----------------------------------------------------------------------------
(* ClosePTYSession.  Who takes the session out of the map goes on; if the  *)
(* session is marked already, it waits for CleanedUp without a limit, else *)
(* it closes Done and the ssh session and waits for 5 seconds.             *)

Step(t, p, s) == closer' = [closer EXCEPT ![<<t, p>>] = s]

Take(t, p) ==
  /\ closer[<<t, p>>] = "take"
  /\ Step(t, p, IF t \in listed THEN "mark" ELSE "end")
  /\ listed' = listed \ {t}
  /\ UNCHANGED <<storeKind, handler, socket, sessions, shell, marked, done, cleanup,
                 cleaned, remote, auditVars>>

Mark(t, p) ==
  /\ closer[<<t, p>>] = "mark"
  /\ Step(t, p, IF marked[t] THEN "waitcleaned" ELSE "close")
  /\ marked' = [marked EXCEPT ![t] = TRUE]
  /\ UNCHANGED <<storeKind, handler, socket, sessions, listed, shell, done, cleanup,
                 cleaned, remote, auditVars>>

CloseShell(t, p) ==
  /\ closer[<<t, p>>] = "close"
  /\ done' = [done EXCEPT ![t] = TRUE]
  /\ shell' = [shell EXCEPT ![t] = "ended"]
  /\ Step(t, p, "wait")
  /\ UNCHANGED <<storeKind, handler, socket, sessions, listed, marked, cleanup, cleaned,
                 remote, auditVars>>

Wait(t, p) ==
  /\ \/ /\ closer[<<t, p>>] \in {"wait", "waitcleaned"}
        /\ cleaned[t]
        /\ UNCHANGED remote
     \/ /\ closer[<<t, p>>] = "wait"                    \* the 5 seconds are over
        /\ remote' = [remote EXCEPT ![t] = FALSE]
  /\ Step(t, p, "end")
  /\ UNCHANGED <<storeKind, handler, socket, sessions, listed, shell, marked, done,
                 cleanup, cleaned, auditVars>>

(* The goroutine of StartPTYSession: when the shell has ended it marks the *)
(* session, closes Done, takes it out of the map and closes the resources, *)
(* unless a closer has marked it: then it only returns.  CleanedUp is      *)
(* closed in both cases.                                                   *)
ShellReaped(t) ==
  /\ cleanup[t] = "wait"
  /\ shell[t] = "ended"
  /\ marked' = [marked EXCEPT ![t] = TRUE]
  /\ cleanup' = [cleanup EXCEPT ![t] = IF marked[t] THEN "end" ELSE "done"]
  /\ cleaned' = [cleaned EXCEPT ![t] = marked[t]]
  /\ UNCHANGED <<done, listed, remote>>

(* The steps that are left to it: Done, the map, then the resources.       *)
CleanUnclosed(t) ==
  \/ /\ cleanup[t] = "done"
     /\ done' = [done EXCEPT ![t] = TRUE]
     /\ cleanup' = [cleanup EXCEPT ![t] = "unlist"]
     /\ UNCHANGED <<marked, cleaned, listed, remote>>
  \/ /\ cleanup[t] = "unlist"
     /\ listed' = listed \ {t}
     /\ cleanup' = [cleanup EXCEPT ![t] = "close"]
     /\ UNCHANGED <<marked, done, cleaned, remote>>
  \/ /\ cleanup[t] = "close"
     /\ cleanup' = [cleanup EXCEPT ![t] = "end"]
     /\ remote' = [remote EXCEPT ![t] = FALSE]
     /\ UNCHANGED <<marked, done, listed, cleaned>>

Clean(t) ==
  \/ /\ cleanup[t] = "done"
     /\ done' = [done EXCEPT ![t] = TRUE]
     /\ cleanup' = [cleanup EXCEPT ![t] = "unlist"]
     /\ UNCHANGED <<marked, cleaned, listed, remote>>
  \/ /\ cleanup[t] = "unlist"
     /\ listed' = listed \ {t}
     /\ cleanup' = [cleanup EXCEPT ![t] = "close"]
     /\ UNCHANGED <<marked, done, cleaned, remote>>
  \/ /\ cleanup[t] = "close"
     /\ cleanup' = [cleanup EXCEPT ![t] = "end"]
     /\ remote' = [remote EXCEPT ![t] = FALSE]
     /\ cleaned' = [cleaned EXCEPT ![t] = TRUE]
     /\ UNCHANGED <<marked, done, listed>>

CleanUp(t) ==
  /\ ShellReaped(t) \/ Clean(t)
  /\ UNCHANGED <<storeKind, handler, socket, sessions, shell, closer, auditVars>>

-----------------------------------------------------------------------------
HandlerStep(t) == StartPTYSession(t) \/ LookUp(t) \/ Leave(t) \/ Finish(t) \/ Return(t)
CloserStep(t, p) == Take(t, p) \/ Mark(t, p) \/ CloseShell(t, p) \/ Wait(t, p)
User(t) == TypeText(t) \/ Clear(t) \/ Enter(t) \/ Hangup(t) \/ ShellEnds(t)

Next ==
  \/ \E t \in Terminals : HandlerStep(t) \/ User(t) \/ CloseSession(t) \/ CleanUp(t)
  \/ \E t \in Terminals, p \in Closers : CloserStep(t, p)
  \/ Save

Spec == Init /\ [][Next]_vars

-----------------------------------------------------------------------------
(* No call of ClosePTYSession waits for a cleanup that nobody does: one    *)
(* that found the session marked has no timeout, so the goroutine that     *)
(* waits for the shell must still be on its way, or have closed CleanedUp; *)
(* and if it is still waiting for the shell, somebody ends the shell.      *)
WaitersAreServed ==
  \A t \in Terminals, p \in Closers :
    closer[<<t, p>>] = "waitcleaned" =>
      \/ cleaned[t]
      \/ cleanup[t] \in {"done", "unlist", "close"}
      \/ /\ cleanup[t] = "wait"
         /\ shell[t] = "ended" \/ \E q \in Closers : closer[<<t, q>>] = "close"

(* Every command line that was entered is in the audit store or on its way *)
(* there.  Only with the database, and only after the terminal is closed,  *)
(* can one be lost: closing the auditor cancels the stores under way.      *)
CommandsAreLogged ==
  \A t \in Terminals : storeKind # "none" =>
    \A n \in 1..typed[t] :
      \/ n \in log[t]
      \/ [term |-> t, line |-> n] \in saving
      \/ storeKind = "postgres" /\ cancelled[t]

(* When a PTY session is closed and its cleanup has ended, the ssh client  *)
(* and the QUIC stream of the session are closed.  The code returns early  *)
(* where its comment says that the resources still have to be cleaned up:  *)
(* a session that ClosePTYSession marks first keeps both open.             *)
ResourcesReleased ==
  \A t \in Terminals :
    cleaned[t] /\ (\A p \in Closers : closer[<<t, p>>] \in {"idle", "end"}) => ~remote[t]
=============================================================================
