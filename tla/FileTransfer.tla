---------------------------- MODULE FileTransfer ----------------------------
(***************************************************************************)
(* pkg/filetransfer and api/file_api.go: uploads in chunks, downloads, and *)
(* the local storage.  A task is one object that its worker, the handlers  *)
(* of its session and a cancellation all write; each saves the whole       *)
(* status as it finds it.  A session has a lock, the storage another.      *)
(***************************************************************************)
EXTENDS Integers, SequencesExt

CONSTANTS
  Transfers,   \* tasks
  Workers,     \* workers of the manager
  Requests,    \* chunk, complete and cancel requests under way at a time
  QueueSize,   \* capacity of taskQueue
  Plans        \* what is transferred, with the bounds of a behaviour

VARIABLES
  plan,        \* one of Plans, never changed
  entry,       \* where the handler that creates a task is
  task,        \* the object in memory
  row,         \* status of a task in file_transfers
  active,      \* activeTasks
  taskQueue,   \* the manager's channel
  worker,      \* the task of a worker
  session,     \* upload sessions with their temporary file
  request,     \* a request that has loaded its session
  files,       \* rows of file_metadata that are not deleted
  disk,        \* files of the storage root, by storage path
  crashes      \* restarts so far

vars == <<plan, entry, task, row, active, taskQueue, worker, session, request, files, disk,
          crashes>>

Statuses == {"pending", "transferring", "completed", "failed", "cancelled"}
Tasks == [status : Statuses, started : BOOLEAN, cancelled : BOOLEAN, done : BOOLEAN]
NoSession == [temp |-> "none", received |-> <<>>, committed |-> 0]
Free == [pc |-> "idle"]
NewTask == [status |-> "pending", started |-> FALSE, cancelled |-> FALSE, done |-> FALSE]

Todo == DOMAIN plan.todo
Of(t) == plan.todo[t]
Whole(t) == [i \in 1 .. Of(t).size |-> i]
StoragePath(t) == <<Of(t).user, Of(t).name>>        \* {date}/{user} and the base name
Hash(t, data) == <<Of(t).content, data>>

\* The session's lock is held by a request that has still to save the task.
Locked(t) == \E q \in Requests : request[q].pc = "save" /\ request[q].task = t

TypeOK ==
  /\ plan \in Plans
  /\ entry \in [Transfers -> {"none", "queued", "marked", "refused", "ready"}]
  /\ task \in [Transfers -> Tasks]
  /\ row \in [Transfers -> Statuses \union {"none"}]
  /\ active \subseteq Todo
  /\ Len(taskQueue) <= QueueSize /\ ToSet(taskQueue) \subseteq Todo
  /\ \A w \in Workers : worker[w].pc \in {"idle", "begin", "wait", "judged"}
  /\ \A t \in Transfers : /\ session[t].temp \in {"none", "open", "closed"}
                          /\ ToSet(session[t].received) \subseteq Nat
  /\ \A q \in Requests : request[q].pc \in {"idle", "loaded", "save"}
  /\ \A f \in files : f.storage \in {StoragePath(t) : t \in Todo} /\ f.size \in Nat
  /\ DOMAIN disk \subseteq {StoragePath(t) : t \in Todo}
  /\ crashes \in 0 .. plan.crashes

Init ==
  /\ plan \in Plans
  /\ entry = [t \in Transfers |-> "none"]
  /\ task = [t \in Transfers |-> NewTask]
  /\ row = [t \in Transfers |-> "none"]
  /\ active = {} /\ taskQueue = <<>>
  /\ worker = [w \in Workers |-> Free]
  /\ session = [t \in Transfers |-> NoSession]
  /\ request = [q \in Requests |-> Free]
  /\ files = {} /\ disk = << >>
  /\ crashes = 0

-----------------------------------------------------------------------------
(* The storage.                                                             *)

Used(user) == MapThenSumSet(LAMBDA f : f.size, {f \in files : f.user = user})

\* checkQuota: an anonymous user has the quota for each file, not in all.
QuotaAllows(t) ==
  IF Of(t).user = "anonymous" THEN Of(t).size <= plan.quota
  ELSE Used(Of(t).user) + Of(t).size <= plan.quota

\* The storage root once a file is renamed to a storage path.
Put(path, hash) ==
  [p \in DOMAIN disk \union {path} |-> IF p = path THEN hash ELSE disk[p]]

\* Slip: the quota was checked when the upload began.
StoreUnchecked(t, data) ==
  LET meta == [path |-> Of(t).path, storage |-> StoragePath(t), hash |-> Hash(t, data),
               user |-> Of(t).user, size |-> Of(t).size]
      known == \E f \in files : f.hash = meta.hash
      taken == \E f \in files : f.path = meta.path
  IN IF known \/ taken
     THEN files' = files /\ disk' = Restrict(disk, DOMAIN disk \ {meta.storage})
     ELSE /\ files' = files \union {meta}
          /\ disk' = Put(meta.storage, meta.hash)

\* Store, under the storage's lock: the file is renamed over whatever is at its
\* storage path; if its content is known already, or its path is taken, what is
\* at that storage path is removed again.
Store(t, data) ==
  LET meta == [path |-> Of(t).path, storage |-> StoragePath(t), hash |-> Hash(t, data),
               user |-> Of(t).user, size |-> Of(t).size]
      known == \E f \in files : f.hash = meta.hash
      taken == \E f \in files : f.path = meta.path
  IN CASE ~QuotaAllows(t) -> UNCHANGED <<files, disk>>
       [] QuotaAllows(t) /\ (known \/ taken) ->
            files' = files /\ disk' = Restrict(disk, DOMAIN disk \ {meta.storage})
       [] OTHER -> /\ files' = files \union {meta}
                   /\ disk' = Put(meta.storage, meta.hash)

\* What Store returns without an error: the content is there or was before.
Stored(t, data) ==
  QuotaAllows(t) /\ \/ \E f \in files : f.hash = Hash(t, data)
                    \/ ~ \E f \in files : f.path = Of(t).path

-----------------------------------------------------------------------------
(* Creating a task: InitUpload and RequestDownload, through SubmitTask.     *)

\* The row and the active task are there before the queue is tried; a full
\* queue refuses the task and leaves both.
Submit(t) ==
  /\ t \in Todo /\ entry[t] = "none"
  /\ row' = [row EXCEPT ![t] = "pending"]
  /\ active' = active \union {t}
  /\ IF Len(taskQueue) < QueueSize
     THEN taskQueue' = Append(taskQueue, t) /\ entry' = [entry EXCEPT ![t] = "queued"]
     ELSE UNCHANGED taskQueue /\ entry' = [entry EXCEPT ![t] = "refused"]
  /\ UNCHANGED <<plan, task, worker, session, request, files, disk, crashes>>

InitUpload(t) ==
  /\ t \in Todo /\ Of(t).kind = "upload" /\ QuotaAllows(t)
  /\ Submit(t)

RequestDownload(t) ==
  /\ t \in Todo /\ Of(t).kind = "download" /\ \E f \in files : f.path = Of(t).path
  /\ Submit(t)

\* SubmitTask writes the status once more, after a worker may have begun.
MarkPending(t) ==
  /\ entry[t] = "queued"
  /\ entry' = [entry EXCEPT ![t] = IF Of(t).kind = "upload" THEN "marked" ELSE "ready"]
  /\ task' = [task EXCEPT ![t].status = "pending"]
  /\ UNCHANGED <<plan, row, active, taskQueue, worker, session, request, files, disk, crashes>>

OpenSession(t) ==
  /\ entry[t] = "marked"
  /\ entry' = [entry EXCEPT ![t] = "ready"]
  /\ session' = [session EXCEPT ![t] = [NoSession EXCEPT !.temp = "open"]]
  /\ UNCHANGED <<plan, task, row, active, taskQueue, worker, request, files, disk, crashes>>

-----------------------------------------------------------------------------
(* The workers.                                                             *)

Take(w) ==
  /\ w \in plan.workers /\ worker[w].pc = "idle" /\ taskQueue # <<>>
  /\ worker' = [worker EXCEPT ![w] = [pc |-> "begin", task |-> Head(taskQueue)]]
  /\ taskQueue' = Tail(taskQueue)
  /\ UNCHANGED <<plan, entry, task, row, active, session, request, files, disk, crashes>>

Begin(w) ==
  LET t == worker[w].task
  IN /\ worker[w].pc = "begin"
     /\ IF task[t].status = "cancelled"
        THEN worker' = [worker EXCEPT ![w] = Free] /\ UNCHANGED task
        ELSE /\ worker' = [worker EXCEPT ![w].pc = "wait"]
             /\ task' = [task EXCEPT ![t].status = "transferring", ![t].started = TRUE]
     /\ UNCHANGED <<plan, entry, row, active, taskQueue, session, request, files, disk,
                    crashes>>

\* Slip: an upload has no time limit.
FinishUnlimited(w) ==
  LET t == worker[w].task
  IN /\ worker[w].pc = "wait"
     /\ \E status \in {"completed", "failed"} :
          /\ status = "completed" => Of(t).kind = "upload" /\ task[t].done
          /\ status = "failed" => Of(t).kind = "download" \/ task[t].cancelled
          /\ task' = [task EXCEPT ![t].status = status]
     /\ worker' = [worker EXCEPT ![w].pc = "judged"]
     /\ UNCHANGED <<plan, entry, row, active, taskQueue, session, request, files, disk,
                    crashes>>

\* processUpload returns when the upload is done, with an error when it is
\* cancelled or after five minutes, which the rest of SubmitTask does not
\* take; processDownload returns an error at once.
Finish(w) ==
  LET t == worker[w].task
  IN /\ worker[w].pc = "wait"
     /\ \E status \in {"completed", "failed"} :
          /\ status = "completed" => Of(t).kind = "upload" /\ task[t].done
          /\ Of(t).kind = "upload" /\ entry[t] = "queued" => task[t].done
          /\ task' = [task EXCEPT ![t].status = status]
     /\ worker' = [worker EXCEPT ![w].pc = "judged"]
     /\ UNCHANGED <<plan, entry, row, active, taskQueue, session, request, files, disk,
                    crashes>>

\* updateTaskInDB saves the status that the task has by now.
Record(w) ==
  LET t == worker[w].task
  IN /\ worker[w].pc = "judged"
     /\ row' = [row EXCEPT ![t] = task[t].status]
     /\ active' = active \ {t}
     /\ worker' = [worker EXCEPT ![w] = Free]
     /\ UNCHANGED <<plan, entry, task, taskQueue, session, request, files, disk, crashes>>

-----------------------------------------------------------------------------
(* The handlers of a session.                                               *)

Load(q, op) == \E t \in Todo :
  /\ q \in plan.requests /\ request[q].pc = "idle" /\ session[t].temp # "none"
  /\ request' = [request EXCEPT ![q] = [pc |-> "loaded", op |-> op, task |-> t]]
  /\ UNCHANGED <<plan, entry, task, row, active, taskQueue, worker, session, files, disk,
                 crashes>>

\* A request that has got the session's lock and what it does with it.
Holds(q, op) ==
  request[q].pc = "loaded" /\ request[q].op = op /\ ~Locked(request[q].task)
Answer(q) == request' = [request EXCEPT ![q] = Free]
Saves(q) == request' = [request EXCEPT ![q].pc = "save"]

\* Slip: a chunk is taken whatever its offset.
UploadAnyChunk(q) ==
  LET t == request[q].task
      s == session[t]
  IN /\ Holds(q, "chunk")
     /\ \E i \in 1 .. Of(t).size :
          session' = IF s.temp = "open" /\ Len(s.received) < Of(t).size
                     THEN [session EXCEPT ![t].received = Append(@, i), ![t].committed = i]
                     ELSE session
     /\ Answer(q)
     /\ UNCHANGED <<plan, entry, task, row, active, taskQueue, worker, files, disk, crashes>>

\* Any chunk beyond the last may come: it is appended to the file wherever it
\* belongs.  One that comes late or twice is refused.
UploadChunk(q) ==
  LET t == request[q].task
      s == session[t]
  IN /\ Holds(q, "chunk")
     /\ \E i \in 1 .. Of(t).size :
          session' = IF s.temp = "open" /\ i > s.committed
                     THEN [session EXCEPT ![t].received = Append(@, i), ![t].committed = i]
                     ELSE session
     /\ Answer(q)
     /\ UNCHANGED <<plan, entry, task, row, active, taskQueue, worker, files, disk, crashes>>

\* The temporary file is closed first of all: whatever is wrong then, it
\* cannot be completed any more.
CompleteUpload(q) ==
  LET t == request[q].task
      s == session[t]
      right == s.temp = "open" /\ Len(s.received) = Of(t).size
  IN /\ Holds(q, "complete")
     /\ session' = [session EXCEPT ![t].temp = "closed"]
     /\ IF right THEN Store(t, s.received) ELSE UNCHANGED <<files, disk>>
     /\ IF right /\ Stored(t, s.received)
        THEN task' = [task EXCEPT ![t].status = "completed", ![t].done = TRUE] /\ Saves(q)
        ELSE UNCHANGED task /\ Answer(q)
     /\ UNCHANGED <<plan, entry, row, active, taskQueue, worker, crashes>>

\* cancelChan is left open: a worker goes on waiting for the upload.
CancelUpload(q) ==
  LET t == request[q].task
  IN /\ Holds(q, "cancel")
     /\ session' = [session EXCEPT ![t].temp = "closed"]
     /\ task' = [task EXCEPT ![t].status = "cancelled"]
     /\ Saves(q)
     /\ UNCHANGED <<plan, entry, row, active, taskQueue, worker, files, disk, crashes>>

\* The end of both, still under the session's lock.
SaveTask(q) ==
  LET t == request[q].task
  IN /\ request[q].pc = "save"
     /\ row' = [row EXCEPT ![t] = task[t].status]
     /\ session' = [session EXCEPT ![t] = NoSession]
     /\ Answer(q)
     /\ UNCHANGED <<plan, entry, task, active, taskQueue, worker, files, disk, crashes>>

-----------------------------------------------------------------------------
(* Downloads, cancellation and restart.                                     *)

\* CancelTask, of a task whose handler has answered: the channel is closed, the
\* row saved, the task no longer active.
CancelTask(t) ==
  /\ t \in active /\ entry[t] \in {"ready", "refused"}
  /\ task' = [task EXCEPT ![t].status = "cancelled", ![t].cancelled = TRUE]
  /\ row' = [row EXCEPT ![t] = "cancelled"]
  /\ active' = active \ {t}
  /\ UNCHANGED <<plan, entry, taskQueue, worker, session, request, files, disk, crashes>>

\* StartDownload and the Close of its reader: no worker has a part in it.
Download(t) ==
  /\ t \in Todo /\ Of(t).kind = "download" /\ entry[t] = "ready"
  /\ \E f \in files : f.path = Of(t).path /\ f.storage \in DOMAIN disk
  /\ task' = IF t \in active THEN [task EXCEPT ![t].status = "completed"] ELSE task
  /\ row' = [row EXCEPT ![t] = "completed"]
  /\ UNCHANGED <<plan, entry, active, taskQueue, worker, session, request, files, disk,
                 crashes>>

\* A restart loses all but the rows and the storage.  restorePendingTasks takes
\* up what was unfinished, without a session and without a doneChan; what the
\* queue has no room for fails.
Restart ==
  LET pending == SetToSeq({t \in Todo : row[t] = "pending"})
      fits == Min({QueueSize, Len(pending)})
  IN /\ crashes < plan.crashes
     /\ crashes' = crashes + 1
     /\ entry' = [t \in Transfers |-> IF entry[t] = "none" THEN "none" ELSE "refused"]
     /\ task' = [t \in Transfers |-> NewTask]
     /\ taskQueue' = SubSeq(pending, 1, fits)
     /\ row' = [t \in Transfers |-> IF t \in ToSet(SubSeq(pending, fits + 1, Len(pending)))
                                    THEN "failed" ELSE row[t]]
     /\ active' = ToSet(pending)
     /\ worker' = [w \in Workers |-> Free]
     /\ session' = [t \in Transfers |-> NoSession]
     /\ request' = [q \in Requests |-> Free]
     /\ UNCHANGED <<plan, files, disk>>

-----------------------------------------------------------------------------
Work(w) == Take(w) \/ Begin(w) \/ Finish(w) \/ Record(w)

Serve(q) == UploadChunk(q) \/ CompleteUpload(q) \/ CancelUpload(q) \/ SaveTask(q)

Next ==
  \/ \E t \in Transfers :
       \/ InitUpload(t) \/ RequestDownload(t) \/ MarkPending(t) \/ OpenSession(t)
       \/ CancelTask(t) \/ Download(t)
  \/ \E w \in Workers : Work(w)
  \/ \E q \in Requests : Serve(q) \/ \E op \in {"chunk", "complete", "cancel"} : Load(q, op)
  \/ Restart

\* A worker goes on: the longest it waits is the time limit of an upload.  So
\* does a handler that creates a task or holds the lock of its session.
Fairness == /\ \A w \in Workers : WF_vars(Work(w))
            /\ \A t \in Transfers : WF_vars(MarkPending(t) \/ OpenSession(t))
            /\ \A q \in Requests : WF_vars(SaveTask(q))

Spec == Init /\ [][Next]_vars /\ Fairness

-----------------------------------------------------------------------------
\* An upload whose row says completed has been stored, whole and in order,
\* although chunks overtake each other and are sent again, and although its
\* worker, its session and a cancellation write one status (UploadChunk,
\* CompleteUpload, processTask).
CompletedIsWhole ==
  \A t \in Todo :
    row[t] = "completed" /\ Of(t).kind = "upload"
      => \E f \in files : f.hash = Hash(t, Whole(t))

\* Uploads that pass the check side by side cannot exceed a user's quota
\* together: the storage checks again under its lock (Store).
QuotaKept ==
  \A f \in files : f.user # "anonymous" => Used(f.user) <= plan.quota

\* An upload the queue has taken, before or after a restart, does not stay
\* pending for good, whatever handlers write into its status meanwhile
\* (processTask, restorePendingTasks).
EventuallySettled ==
  \A t \in Transfers :
    t \in ToSet(taskQueue) /\ Of(t).kind = "upload" ~> row[t] # "pending"

\* What the comment on the storage says of a file whose content is known: the
\* one just uploaded is removed.  So every file the table lists is there.
ListedIsThere ==
  \A f \in files : f.storage \in DOMAIN disk /\ disk[f.storage] = f.hash

=============================================================================
