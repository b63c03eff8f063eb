---------------------------- MODULE RemoteAccess ----------------------------
(***************************************************************************)
(* The parts an operator reaches a client through: ssh over QUIC,          *)
(* terminals with their audit log and recordings, the notices of tasks,    *)
(* file transfer, and the messages of the transport.  They share no state, *)
(* so a behaviour runs one of them.                                        *)
(***************************************************************************)
EXTENDS Integers, Sequences, FiniteSets

CONSTANTS
  SshCalls, SshPlans,
  Terminals, MaxLines, StoreKinds,
  AuditKinds, AuditSessions, AuditDays, MaxRecords,
  RecordingIds, RecordingCalls, RecordingPlans, RecordingDays,
  MaxTime,             \* bound: the clock of the audit log and of the recordings
  Browsers, HubSize, SendSize, MaxNotices,
  Transfers, TransferWorkers, TransferRequests, TaskQueueSize, TransferPlans,
  MessageCalls, MessageClients, Waiters, MessageQueueSize, MessageWorkers,
  Tokens, MessagePlans

VARIABLES
  part,          \* the part that runs, fixed
  sshPlan, sshListed, sshMu, sshCall, holder, up, served, sshJob, device,
  stopper,
  storeKind, handler, socket, terminalListed, sessions, shell, marked, done,
  cleanup, cleaned, remote, closer, buffer, typed, saving, cancelled, log,
  recording,
  kind, auditNow, auditDisk, touched, handle, saved, cutoff,
  recordingPlan, recordingNow, recorder, cast, meta, rows, started,
  recordingCall, recordingMu,
  clients, broadcast, sent, handled, client, send, closed, since, received,
  transferPlan, entry, task, row, active, taskQueue, worker, session,
  request, files, transferDisk, crashes,
  messagePlan, online, messageCall, messageListed, left, counted, promise,
  copy, queue, messageJob, answer, callback, waiter, listening

H == INSTANCE SSHConnections WITH
  Calls <- SshCalls, Plans <- SshPlans, plan <- sshPlan, listed <- sshListed,
  mu <- sshMu, call <- sshCall, job <- sshJob
P == INSTANCE TerminalSessions WITH listed <- terminalListed
A == INSTANCE AuditStores WITH
  Kinds <- AuditKinds, Sessions <- AuditSessions, Days <- AuditDays,
  now <- auditNow, disk <- auditDisk
R == INSTANCE Recordings WITH
  Ids <- RecordingIds, Calls <- RecordingCalls, Plans <- RecordingPlans,
  Days <- RecordingDays, plan <- recordingPlan, now <- recordingNow,
  call <- recordingCall, mu <- recordingMu
W == INSTANCE TaskHub WITH
  Clients <- Browsers, QueueSize <- HubSize, MaxMessages <- MaxNotices
F == INSTANCE FileTransfer WITH
  Workers <- TransferWorkers, Requests <- TransferRequests,
  QueueSize <- TaskQueueSize, Plans <- TransferPlans, plan <- transferPlan,
  disk <- transferDisk
M == INSTANCE Messages WITH
  Calls <- MessageCalls, Clients <- MessageClients,
  QueueSize <- MessageQueueSize, Workers <- MessageWorkers,
  Plans <- MessagePlans, plan <- messagePlan, call <- messageCall,
  listed <- messageListed, job <- messageJob

\* What the constants are.
ASSUME SshAssumption ==
  /\ IsFiniteSet(SshCalls) /\ H!Nobody \notin SshCalls
  /\ SshPlans \subseteq [SshCalls -> H!Operations]
ASSUME TerminalAssumption == MaxLines \in Nat
ASSUME AuditAssumption == MaxTime \in Nat /\ MaxRecords \in Nat /\ AuditDays \subseteq Int
ASSUME RecordingAssumption == R!Nobody \notin RecordingCalls
ASSUME HubAssumption == HubSize \in Nat /\ SendSize \in Nat /\ MaxNotices \in Nat
ASSUME TransferAssumption ==
  /\ TaskQueueSize \in Nat
  /\ \A p \in TransferPlans :
       /\ p.crashes \in Nat /\ p.quota \in Nat
       /\ DOMAIN p.todo \subseteq Transfers /\ IsFiniteSet(DOMAIN p.todo)
       /\ \A t \in DOMAIN p.todo : p.todo[t].size \in Nat
ASSUME MessageAssumption ==
  /\ MessageQueueSize \in Nat /\ MessageWorkers \in Nat /\ Tokens \in Nat \ {0}
  /\ IsFiniteSet(MessageClients) /\ M!Server \notin MessageClients
  /\ MessagePlans \subseteq
       [MessageCalls -> [call : {"promise", "async", "send", "message", "broadcast"},
                         client : MessageClients, type : {"command", "event", "query"},
                         wait : BOOLEAN, callback : BOOLEAN]]

sshVars == <<
  sshPlan, sshListed, sshMu, sshCall, holder, up, served, sshJob, device,
  stopper>>
terminalVars == <<
  storeKind, handler, socket, terminalListed, sessions, shell, marked, done,
  cleanup, cleaned, remote, closer, buffer, typed, saving, cancelled, log,
  recording>>
auditVars == <<kind, auditNow, auditDisk, touched, handle, saved, cutoff>>
recordingVars == <<
  recordingPlan, recordingNow, recorder, cast, meta, rows, started,
  recordingCall, recordingMu>>
hubVars == <<
  clients, broadcast, sent, handled, client, send, closed, since, received>>
transferVars == <<
  transferPlan, entry, task, row, active, taskQueue, worker, session,
  request, files, transferDisk, crashes>>
messageVars == <<
  messagePlan, online, messageCall, messageListed, left, counted, promise,
  copy, queue, messageJob, answer, callback, waiter, listening>>
vars == <<part, sshVars, terminalVars, auditVars, recordingVars, hubVars, transferVars, messageVars>>

\* The parts that do not run stay in an initial state.
Init ==
  /\ part \in {"ssh", "terminal", "audit", "recording", "hub", "transfer", "message"}
  /\ H!Init /\ (part # "ssh" => sshPlan = CHOOSE p \in SshPlans : TRUE)
  /\ P!Init /\ (part # "terminal" => storeKind = CHOOSE k \in StoreKinds : TRUE)
  /\ A!Init /\ (part # "audit" => kind = CHOOSE k \in AuditKinds : TRUE)
  /\ R!Init /\ (part # "recording" => recordingPlan = CHOOSE p \in RecordingPlans : TRUE)
  /\ W!Init
  /\ F!Init /\ (part # "transfer" => transferPlan = CHOOSE p \in TransferPlans : TRUE)
  /\ M!Init /\ (part # "message" => messagePlan = CHOOSE p \in MessagePlans : TRUE)

Next ==
  \/ part = "ssh" /\ H!Next /\ UNCHANGED <<part, terminalVars, auditVars, recordingVars, hubVars, transferVars, messageVars>>
  \/ part = "terminal" /\ P!Next /\ UNCHANGED <<part, sshVars, auditVars, recordingVars, hubVars, transferVars, messageVars>>
  \/ part = "audit" /\ A!Next /\ UNCHANGED <<part, sshVars, terminalVars, recordingVars, hubVars, transferVars, messageVars>>
  \/ part = "recording" /\ R!Next /\ UNCHANGED <<part, sshVars, terminalVars, auditVars, hubVars, transferVars, messageVars>>
  \/ part = "hub" /\ W!Next /\ UNCHANGED <<part, sshVars, terminalVars, auditVars, recordingVars, transferVars, messageVars>>
  \/ part = "transfer" /\ F!Next /\ UNCHANGED <<part, sshVars, terminalVars, auditVars, recordingVars, hubVars, messageVars>>
  \/ part = "message" /\ M!Next /\ UNCHANGED <<part, sshVars, terminalVars, auditVars, recordingVars, hubVars, transferVars>>

\* H!Fairness, F!Fairness and M!Fairness, of the part that runs.
Fairness ==
  /\ \A c \in SshCalls : WF_sshVars(part = "ssh" /\ H!ManagerStep(c))
  /\ \A n \in 1 .. Cardinality(SshCalls) : WF_sshVars(part = "ssh" /\ H!DeviceStep(n))
  /\ WF_sshVars(part = "ssh" /\ H!CloseSessions) /\ WF_sshVars(part = "ssh" /\ H!Stopped)
  /\ \A w \in TransferWorkers : WF_transferVars(part = "transfer" /\ F!Work(w))
  /\ \A t \in Transfers : WF_transferVars(part = "transfer" /\ (F!MarkPending(t) \/ F!OpenSession(t)))
  /\ \A q \in TransferRequests : WF_transferVars(part = "transfer" /\ F!SaveTask(q))
  /\ \A k \in MessageCalls : WF_messageVars(part = "message" /\ M!CallStep(k))
                          /\ WF_messageVars(part = "message" /\ M!Timeout(k))
  /\ \A k \in MessageCalls, c \in MessageClients : WF_messageVars(part = "message" /\ M!CopyStep(<<k, c>>))
  /\ \A n \in MessageClients \cup {M!Server} : WF_messageVars(part = "message" /\ M!Work(n))
  /\ \A w \in Waiters : WF_messageVars(part = "message" /\ M!WaiterStep(w))

Spec == Init /\ [][Next]_vars /\ Fairness

-----------------------------------------------------------------------------
(* What an operator did stays on record: every command line is stored or   *)
(* on its way (saveCommand, Close), a cleanup that races writers, failures *)
(* and restarts takes no line of the days to keep (DeleteOldRecords), nor  *)
(* the file of a recording under way (DeleteOldRecordings).                *)
RecordsAreKept ==
  /\ P!TypeOK /\ A!TypeOK /\ R!TypeOK
  /\ P!CommandsAreLogged
  /\ A!RecentIsKept
  /\ R!RunningIsKept

(* Nobody hangs up under a command of another call, which only Disconnect  *)
(* and Close could, and which they wait for (cmd/server/ssh.go).           *)
NoneHangsUpOnACommand == H!NoneHangsUpOnACommand

(* Once Stop of the client's ssh server has returned, no command runs,     *)
(* although HandleStream counts a stream after it has looked (server.go).  *)
NothingRunsAfterStop == H!TypeOK /\ H!NothingRunsAfterStop

(* Both callers of ClosePTYSession, the handler that leaves and an         *)
(* operator, wait for a cleanup that somebody does; a command, a message   *)
(* and a broadcast are reported as what became of them (SendTo,            *)
(* SendToWithPromise, Broadcast, handleData).                              *)
WaitersAreServed == P!WaitersAreServed /\ M!TypeOK /\ M!MessagesAreTrue

(* A browser is shown the notices of tasks without a hole, or is dropped   *)
(* (run, writePump).                                                       *)
NoGaps == W!TypeOK /\ W!NoGaps

(* Chunks out of order and repeated, a cancellation and a restart: an      *)
(* upload that is said to be complete is whole, and the uploads that       *)
(* passed the check side by side stay within the quota (Store).            *)
FilesAreWhole == F!TypeOK /\ F!CompletedIsWhole /\ F!QuotaKept

(* Calls of the ssh manager return although Close keeps the manager's      *)
(* mutex while it waits for a shell, a queued upload gets an outcome, and  *)
(* a message is answered or given up by both of its ends.                  *)
CallsReturn ==
  /\ part = "ssh" => H!CallsReturn
  /\ part = "transfer" => F!EventuallySettled
  /\ part = "message" => M!MessagesEnd
=============================================================================
