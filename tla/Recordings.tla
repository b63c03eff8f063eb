------------------------------ MODULE Recordings ------------------------------
(***************************************************************************)
(* src/pkg/recording: Recorder writes the recording of a terminal into a   *)
(* file of its own, then, when it is closed, a .meta file and a row; Store *)
(* finds and removes the files for the API of src/pkg/api/                 *)
(* recording_api.go.  One RWMutex guards Store; the recorders do not take  *)
(* it.  A step is what runs under the lock, or a change of one file.       *)
(***************************************************************************)
EXTENDS Integers, FiniteSets

CONSTANTS
  Ids,          \* recordings
  Calls,        \* requests of the API
  Plans,        \* what they ask for: functions from Calls to Requests
  Days,         \* the age a cleanup keeps
  MaxTime       \* bound: the clock, in days

VARIABLES
  plan,         \* the scenario, fixed
  now,
  recorder,     \* the recorder of each recording
  cast, meta,   \* recordings with a .cast file, with a .meta file
  rows,         \* rows in terminal_recordings
  started,      \* when each recording began
  call,         \* what each request does
  mu            \* Store.mu: its writer, or Nobody

vars == <<plan, now, recorder, cast, meta, rows, started, call, mu>>
fileVars == <<cast, meta, rows>>
Nobody == "nobody"
Requests == {"get", "stream", "delete", "cleanup"}

TypeOK ==
  /\ plan \in Plans /\ now \in 0 .. MaxTime
  /\ recorder \in [Ids -> {"none", "open", "flushed", "described", "closed", "failed"}]
  /\ cast \subseteq Ids /\ meta \subseteq Ids /\ rows \subseteq Ids
  /\ started \in [Ids -> 0 .. MaxTime]
  /\ call \in [Calls -> {"idle", "locked", "walking", "done"}]
  /\ mu \in Calls \cup {Nobody}

Init ==
  /\ plan \in Plans /\ now = 0
  /\ recorder = [i \in Ids |-> "none"]
  /\ cast = {} /\ meta = {} /\ rows = {}
  /\ started = [i \in Ids |-> 0]
  /\ call = [c \in Calls |-> "idle"]
  /\ mu = Nobody

-----------------------------------------------------------------------------
(* The recorder.                                                           *)

Becomes(i, s) == recorder' = [recorder EXCEPT ![i] = s]

\* NewRecorderWithDB: the file with its header.
NewRecorder(i) ==
  /\ recorder[i] = "none"
  /\ Becomes(i, "open")
  /\ cast' = cast \cup {i}
  /\ started' = [started EXCEPT ![i] = now]
  /\ UNCHANGED <<plan, now, meta, rows, call, mu>>

\* Close: what is buffered is flushed, the .meta file is written, then the
\* row.  Whatever fails ends it and it is not tried again.
Close(i) ==
  /\ \/ recorder[i] = "open" /\ Becomes(i, "flushed") /\ UNCHANGED <<meta, rows>>
     \/ recorder[i] = "flushed" /\ Becomes(i, "described") /\ meta' = meta \cup {i} /\ UNCHANGED rows
     \/ recorder[i] = "described" /\ Becomes(i, "closed") /\ rows' = rows \cup {i} /\ UNCHANGED meta
     \/ recorder[i] \in {"open", "flushed", "described"} /\ Becomes(i, "failed") /\ UNCHANGED <<meta, rows>>
  /\ UNCHANGED <<plan, now, cast, started, call, mu>>

-----------------------------------------------------------------------------
(* The store.                                                              *)

storeVars == <<plan, now, recorder, started>>
Go(c, s) == call' = [call EXCEPT ![c] = s]
Doing(c, requests, s) == plan[c].request \in requests /\ call[c] = s

\* Get, List, GetStats: a walk under the read lock.  StreamRecording walks
\* twice, to see whether the file is there and to open it.
Read(c) ==
  /\ Doing(c, {"get", "stream"}, "idle") /\ mu = Nobody
  /\ Go(c, IF plan[c].request = "stream" /\ plan[c].id \in cast THEN "walking" ELSE "done")
  /\ UNCHANGED <<storeVars, fileVars, mu>>

\* Delete and DeleteOldRecordings take the write lock for all they do.
LockStore(c) ==
  /\ Doing(c, {"delete", "cleanup"}, "idle") /\ mu = Nobody
  /\ mu' = c
  /\ Go(c, IF plan[c].request = "delete" THEN "walking" ELSE "locked")
  /\ UNCHANGED <<storeVars, fileVars>>

\* GetFilePath walks under the read lock; with the path the reader opens the
\* file and Delete, which called it with the lock it waits for, removes it.
GetFilePath(c) ==
  /\ Doing(c, {"stream", "delete"}, "walking") /\ mu = Nobody
  /\ LET removed == IF plan[c].request = "delete" THEN {plan[c].id} ELSE {}
     IN cast' = cast \ removed /\ meta' = meta \ removed
  /\ Go(c, "done")
  /\ UNCHANGED <<storeVars, rows, mu>>

Old == {i \in Ids : started[i] < now - Days}

\* Slip: what is old is looked for among the recordings themselves.
DeleteOldCasts(c) ==
  /\ Doing(c, {"cleanup"}, "locked")
  /\ cast' = cast \ Old /\ meta' = meta \ Old
  /\ mu' = Nobody /\ Go(c, "done")
  /\ UNCHANGED <<storeVars, rows>>

\* DeleteOldRecordings goes by the .meta files; the rows stay.
DeleteOldRecordings(c) ==
  /\ Doing(c, {"cleanup"}, "locked")
  /\ cast' = cast \ (Old \cap meta) /\ meta' = meta \ Old
  /\ mu' = Nobody /\ Go(c, "done")
  /\ UNCHANGED <<storeVars, rows>>

Tick ==
  /\ now < MaxTime
  /\ now' = now + 1
  /\ UNCHANGED <<plan, recorder, cast, meta, rows, started, call, mu>>

ApiStep(c) == Read(c) \/ LockStore(c) \/ GetFilePath(c) \/ DeleteOldRecordings(c)

Next ==
  \/ Tick
  \/ \E i \in Ids : NewRecorder(i) \/ Close(i)
  \/ \E c \in Calls : ApiStep(c)

Spec == Init /\ [][Next]_vars

-----------------------------------------------------------------------------
(* A recording that is still being written keeps its file, however old it  *)
(* is, and a .meta file never describes a recording that is gone: what a   *)
(* cleanup removes was finished.                                           *)
RunningIsKept ==
  \A i \in Ids :
    /\ recorder[i] \in {"open", "flushed"} => i \in cast
    /\ i \in meta => i \in cast

(* "Delete deletes a recording by ID" (recording/store.go:261): every      *)
(* request to the API ends.  It does not: Delete waits for itself, and     *)
(* every later request for it.                                             *)
RequestsEnd == \A c \in Calls : <>(call[c] = "done")
=============================================================================
