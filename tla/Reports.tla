------------------------------ MODULE Reports ------------------------------
(***************************************************************************)
(* What is saved of a client's hardware, and the log of a deploy task as a *)
(* page follows it.  Hardware comes from two sides: the client reports it  *)
(* when it starts, over a channel one goroutine reads (cmd/server), and    *)
(* the answer of each hardware.info command is saved by a goroutine of its *)
(* own (pkg/hardware).  They meet at the row of the device and at a cache  *)
(* that spares the row when nothing has changed.  A page polls the log     *)
(* while the run of the task writes it (StreamDeployTaskLogs).  Errors of  *)
(* the database are left out.                                              *)
(***************************************************************************)
EXTENDS Integers, SequencesExt

CONSTANTS
  Answers,    \* hardware.info commands
  QueueSize,  \* room in hardwareReportChan (100)
  TTL,        \* Store.cacheTTL
  Timeout,    \* of MarkOfflineDevices
  MaxTime,    \* bound: the clock
  Plans       \* what a behaviour is about, the random ids of the log, and the
              \* bounds on reports and on requests of an administrator

VARIABLES
  plan,     \* kind, reports, edits, and ids: of the log's rows, in order of time
  now,
  machine,  \* the hardware the client runs on
  channel,  \* hardwareReportChan
  reported, \* reports so far
  device,   \* the row
  had,      \* history: the hardware the row has had
  cache,    \* Store.cache of the client
  once,     \* Store.enabledOnce
  saver,    \* SaveHardwareInfo
  changes,  \* device_hardware_history
  edits,    \* requests so far
  last,     \* history: the last save that ended
  metEnd,   \* history: when a save ended that another one met
  byHand,   \* history: the status is that of a request
  task,     \* DeployTask.Status
  run,      \* the goroutine that writes the log
  logs,     \* DeployTaskLog, in the order of time
  viewer,   \* StreamDeployTaskLogs
  shown     \* history: what it has sent

deviceVars == <<now, machine, channel, reported, device, had, cache, once, saver,
                changes, edits, last, metEnd, byHand>>
streamVars == <<task, run, logs, viewer, shown>>
vars == <<plan, deviceVars, streamVars>>

Savers == Answers \union {"report"}
Hardware == {"old", "new"}
NoDevice == [hw |-> "none", seen |-> 0, status |-> "none", hidden |-> FALSE]
Idle == [pc |-> "none", hw |-> "none", at |-> 0, met |-> FALSE]
Final == {"completed", "cancelled"}

TypeOK ==
  /\ plan \in Plans
  /\ now \in 0 .. MaxTime
  /\ machine \in Hardware
  /\ channel \in Seq(Hardware) /\ Len(channel) <= QueueSize
  /\ reported \in 0 .. plan.reports /\ edits \in 0 .. plan.edits
  /\ device \in [hw : Hardware \union {"none"}, seen : 0 .. MaxTime,
                 status : {"none", "online", "offline", "unknown"}, hidden : BOOLEAN]
  /\ cache \in [hw : Hardware \union {"none"}, at : 0 .. MaxTime]
  /\ had \subseteq Hardware
  /\ once \in BOOLEAN /\ byHand \in BOOLEAN
  /\ saver \in [Savers -> [pc : {"none", "answered", "touch", "find", "upsert", "cache", "compare", "done"},
                           hw : Hardware \union {"none"}, at : 0 .. MaxTime, met : BOOLEAN]]
  /\ task \in {"running"} \union Final
  /\ run \in {"running", "done"}
  /\ IsPrefix(logs, plan.ids)
  /\ viewer \in [pc : {"none", "poll", "read", "done"}, last : 0 .. Len(plan.ids),
                 status : {"running"} \union Final]

Init ==
  /\ plan \in Plans
  /\ now = 0 /\ machine = "old" /\ channel = <<>> /\ reported = 0
  /\ device = NoDevice /\ had = {} /\ cache = [hw |-> "none", at |-> 0] /\ once = FALSE
  /\ saver = [s \in Savers |-> Idle]
  /\ changes = <<>> /\ edits = 0 /\ last = Idle /\ metEnd = -TTL /\ byHand = FALSE
  /\ task = "running" /\ run = "running" /\ logs = <<>> /\ shown = <<>>
  /\ viewer = [pc |-> "none", last |-> 0, status |-> "running"]

AtWork(s) == saver[s].pc \in {"touch", "find", "upsert", "cache", "compare"}
Visible == device # NoDevice /\ ~device.hidden

-----------------------------------------------------------------------------
(* The client, and what arrives of it.                                     *)

Tick ==
  /\ now < MaxTime
  /\ now' = now + 1
  /\ UNCHANGED <<machine, channel, reported, device, had, cache, once, saver, changes, edits, last, metEnd, byHand>>

\* The client comes back on other hardware.
Replace ==
  /\ machine = "old"
  /\ machine' = "new"
  /\ UNCHANGED <<now, channel, reported, device, had, cache, once, saver, changes, edits, last, metEnd, byHand>>

\* handleHardwareReport: a full channel drops the report.
Report ==
  /\ reported < plan.reports
  /\ reported' = reported + 1
  /\ channel' = IF Len(channel) < QueueSize THEN Append(channel, machine) ELSE channel
  /\ UNCHANGED <<now, machine, device, had, cache, once, saver, changes, edits, last, metEnd, byHand>>

\* processHardwareReports takes the next one.
Take ==
  /\ saver["report"].pc = "none"
  /\ channel # <<>>
  /\ saver' = [saver EXCEPT !["report"] = [Idle EXCEPT !.pc = "answered", !.hw = Head(channel)]]
  /\ channel' = Tail(channel)
  /\ UNCHANGED <<now, machine, reported, device, had, cache, once, changes, edits, last, metEnd, byHand>>

\* hardware.info is completed: callResultHandlers starts a goroutine.
Answer(a) ==
  /\ saver[a].pc = "none"
  /\ saver' = [saver EXCEPT ![a] = [Idle EXCEPT !.pc = "answered", !.hw = machine]]
  /\ UNCHANGED <<now, machine, channel, reported, device, had, cache, once, changes, edits, last, metEnd, byHand>>

-----------------------------------------------------------------------------
(* SaveHardwareInfo.                                                       *)

Cached(s) == cache.hw = saver[s].hw /\ now - cache.at < TTL

\* The saves under way and the one that begins have met.
Begun(s) ==
  [q \in Savers |->
     IF q = s THEN [saver[s] EXCEPT !.pc = IF Cached(s) THEN "touch" ELSE "upsert",
                                    !.at = now, !.met = \E p \in Savers : AtWork(p)]
     ELSE IF AtWork(q) THEN [saver[q] EXCEPT !.met = TRUE] ELSE saver[q]]

Begin(s) ==
  /\ saver[s].pc = "answered"
  /\ saver' = Begun(s)
  /\ UNCHANGED <<now, machine, channel, reported, device, had, cache, once, changes, edits, last, metEnd, byHand>>

Go(s, pc) == saver' = [saver EXCEPT ![s].pc = pc]

End(s) ==
  /\ saver' = [saver EXCEPT ![s] = IF s = "report" THEN Idle ELSE [saver[s] EXCEPT !.pc = "done"]]
  /\ last' = saver[s]
  /\ metEnd' = IF saver[s].met THEN now ELSE metEnd

\* Unchanged hardware: the times of the row only, and the row is read back.
Touch(s) ==
  /\ saver[s].pc = "touch"
  /\ device' = IF Visible THEN [device EXCEPT !.seen = saver[s].at, !.status = "online"] ELSE device
  /\ byHand' = (byHand /\ ~Visible)
  /\ Go(s, "find")
  /\ UNCHANGED <<now, machine, channel, reported, had, cache, once, changes, edits, last, metEnd>>

Find(s) ==
  /\ saver[s].pc = "find"
  /\ IF Visible THEN End(s) ELSE Go(s, "upsert") /\ UNCHANGED <<last, metEnd>>
  /\ UNCHANGED <<now, machine, channel, reported, device, had, cache, once, changes, edits, byHand>>

\* The conflict does not set deleted_at: a deleted row stays deleted.
Upsert(s) ==
  /\ saver[s].pc = "upsert"
  /\ device' = [hw |-> saver[s].hw, seen |-> saver[s].at, status |-> "online", hidden |-> device.hidden]
  /\ had' = had \union {saver[s].hw}
  /\ byHand' = FALSE
  /\ Go(s, "cache")
  /\ UNCHANGED <<now, machine, channel, reported, cache, once, changes, edits, last, metEnd>>

PutCache(s) ==
  /\ saver[s].pc = "cache"
  /\ cache' = [hw |-> saver[s].hw, at |-> saver[s].at]
  /\ Go(s, "compare")
  /\ UNCHANGED <<now, machine, channel, reported, device, had, once, changes, edits, last, metEnd, byHand>>

\* recordChangeHistoryIfNeeded compares with the row that was just written.
Compare(s) ==
  /\ saver[s].pc = "compare"
  /\ End(s)
  /\ once' = (once \/ ~Visible)
  /\ LET Record(kind) == Append(changes, [kind |-> kind, met |-> saver[s].met])
     IN changes' = IF ~Visible THEN IF once THEN changes ELSE Record("created")
                   ELSE IF device.hw # saver[s].hw THEN Record("changed") ELSE changes
  /\ UNCHANGED <<now, machine, channel, reported, device, had, cache, edits, byHand>>

-----------------------------------------------------------------------------
(* Requests of an administrator.                                           *)

Edit ==
  /\ edits < plan.edits
  /\ edits' = edits + 1
  /\ UNCHANGED <<now, machine, channel, reported, had, cache, once, saver, changes, last, metEnd>>

MarkOfflineDevices ==
  /\ Edit
  /\ Visible /\ device.status = "online" /\ device.seen < now - Timeout
  /\ device' = [device EXCEPT !.status = "offline"]
  /\ UNCHANGED byHand

UpdateDeviceStatus(status) ==
  /\ Edit
  /\ Visible
  /\ device' = [device EXCEPT !.status = status]
  /\ byHand' = TRUE

DeleteDevice ==
  /\ Edit
  /\ Visible
  /\ device' = [device EXCEPT !.hidden = TRUE]
  /\ UNCHANGED byHand

-----------------------------------------------------------------------------
(* The run of a task and the page that follows its log.                    *)

writeTaskLog ==
  /\ run = "running"
  /\ Len(logs) < Len(plan.ids)
  /\ logs' = Append(logs, plan.ids[Len(logs) + 1])
  /\ UNCHANGED <<task, run, viewer, shown>>

\* The last log is written before the final status is saved, over whatever the
\* row says.
Finish ==
  /\ run = "running"
  /\ logs # <<>>
  /\ run' = "done" /\ task' = "completed"
  /\ UNCHANGED <<logs, viewer, shown>>

\* CancelDeployTask does not stop the run.
Cancel ==
  /\ task = "running"
  /\ task' = "cancelled"
  /\ UNCHANGED <<run, logs, viewer, shown>>

\* The n-th position of a set of positions.
Nth(S, n) == CHOOSE i \in S : Cardinality({j \in S : j <= i}) = n

\* The rows with a greater id than the last one sent, by time.
NewRows ==
  LET new == {i \in DOMAIN logs : logs[i] > viewer.last}
  IN [n \in 1 .. Cardinality(new) |-> logs[Nth(new, n)]]

Send(pc) ==
  /\ shown' = shown \o NewRows
  /\ viewer' = [viewer EXCEPT !.pc = pc, !.last = IF NewRows = <<>> THEN @ ELSE Last(NewRows)]

Open ==
  /\ viewer.pc = "none"
  /\ Send("poll")
  /\ UNCHANGED <<task, run, logs>>

Poll ==
  /\ viewer.pc = "poll"
  /\ viewer' = [viewer EXCEPT !.pc = "read", !.status = task]
  /\ UNCHANGED <<task, run, logs, shown>>

ReadNew ==
  /\ viewer.pc = "read"
  /\ Send(IF viewer.status \in Final THEN "done" ELSE "poll")
  /\ UNCHANGED <<task, run, logs>>

-----------------------------------------------------------------------------
SaveStep(s) == Begin(s) \/ Touch(s) \/ Find(s) \/ Upsert(s) \/ PutCache(s) \/ Compare(s)

DeviceStep ==
  \/ Tick \/ Replace \/ Report \/ Take
  \/ \E a \in Answers : Answer(a)
  \/ \E s \in Savers : SaveStep(s)
  \/ MarkOfflineDevices \/ DeleteDevice
  \/ \E status \in {"online", "offline", "unknown"} : UpdateDeviceStatus(status)

StreamStep == writeTaskLog \/ Finish \/ Cancel \/ Open \/ Poll \/ ReadNew

Next ==
  \/ plan.kind = "device" /\ DeviceStep /\ UNCHANGED <<plan, streamVars>>
  \/ plan.kind = "stream" /\ StreamStep /\ UNCHANGED <<plan, deviceVars>>

Spec == Init /\ [][Next]_vars

-----------------------------------------------------------------------------
(* Properties.                                                              *)

Quiet == \A s \in Savers : ~AtWork(s)
Alone == Quiet /\ last # Idle /\ ~last.met

(* After a save that met no other, the row has its hardware and its time,  *)
(* deleted or not; only saves that did meet can leave row and cache apart, *)
(* and then a save that trusts the cache is wrong no longer than the entry *)
(* lasts.  Nobody saved within the timeout is shown offline but by hand    *)
(* (SaveHardwareInfo, MarkOfflineDevices).                                 *)
DeviceIsTrue ==
  Alone =>
    /\ device.seen = last.at
    /\ device.hw # last.hw => cache.hw = last.hw /\ last.at < metEnd + TTL
    /\ device.status = "offline" /\ ~byHand => last.at < now - Timeout

(* A deleted device is announced as new once, whatever saves meet (the     *)
(* mutex of enabledOnce).                                                  *)
CreatedOnce ==
  \A i, j \in DOMAIN changes : changes[i].kind = "created" /\ changes[j].kind = "created" => i = j

(* With ids that grow, a page shows the log in order and without a hole;   *)
(* with random ones it repeats and leaves out rows, but when it ends with  *)
(* a run that is over it lacks none but those below an id it has shown     *)
(* (StreamDeployTaskLogs reads the status before the log).                 *)
StreamIsOrderly ==
  /\ (\A i, j \in DOMAIN plan.ids : i < j => plan.ids[i] < plan.ids[j]) => IsPrefix(shown, logs)
  /\ viewer.pc = "done" /\ viewer.status = "completed" =>
       \A i \in ToSet(logs) : i \in ToSet(shown) \/ \E j \in ToSet(shown) : j > i

ReportsAreTrue == DeviceIsTrue /\ CreatedOnce /\ StreamIsOrderly

(* Claims of comments that the code does not keep.                         *)

\* store.go:147, recordChangeHistoryIfNeeded: a change of the hardware is put
\* on record.  It is compared with the row that has just been written.
ChangesAreRecorded ==
  Alone /\ had = Hardware /\ metEnd < 0 => \E c \in ToSet(changes) : c.kind = "changed"
=============================================================================
