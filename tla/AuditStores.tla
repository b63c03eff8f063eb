------------------------------ MODULE AuditStores ------------------------------
(***************************************************************************)
(* src/pkg/audit: the stores a terminal's command lines go to, one file    *)
(* for all sessions, one file for each, or a table; behind the API of      *)
(* src/pkg/api/audit_api.go, which reads them and cleans them up.  A mutex *)
(* makes each operation a step.  What matters of a file is which lines it  *)
(* holds and whether the handle that lines are appended through is a       *)
(* handle of the file that is read.                                        *)
(***************************************************************************)
EXTENDS Integers, FiniteSets

CONSTANTS
  Kinds,        \* stores: of "file", "sessions", "postgres"
  Sessions,     \* terminals
  Days,         \* ages the API may be told to keep
  MaxTime,      \* bound: the clock, in days
  MaxRecords    \* bound: command lines

VARIABLES
  kind,         \* the store, fixed
  now,
  disk,         \* what is read: the lines of each file
  touched,      \* ModTime of each file
  handle,       \* files: the handle lines are appended through
  saved,        \* lines SaveCommand has stored (history)
  cutoff        \* the latest time before which a cleanup deletes (history)

vars == <<kind, now, disk, touched, handle, saved, cutoff>>

\* A file is named after its session; the one for all sessions is "log".
File(s) == IF kind = "sessions" THEN s ELSE "log"
Files == Sessions \cup {"log"}
Lines == [session : Sessions, at : 0 .. MaxTime, n : 1 .. MaxRecords]

TypeOK ==
  /\ kind \in Kinds /\ now \in 0 .. MaxTime
  /\ disk \in [Files -> SUBSET Lines] /\ touched \in [Files -> 0 .. MaxTime]
  /\ handle \in [Files -> {"none", "open", "closed", "orphan"}]
  /\ saved \subseteq Lines /\ cutoff \in Int

Init ==
  /\ kind \in Kinds
  /\ now = 0
  /\ disk = [f \in Files |-> {}] /\ touched = [f \in Files |-> 0]
  /\ handle = [f \in Files |-> IF f = "log" /\ kind # "sessions" THEN "open" ELSE "none"]
  /\ saved = {} /\ cutoff = -MaxTime

\* SaveCommand: a session's file is opened when it is first needed and its
\* handle kept; a handle that was closed refuses the line; one of a file that
\* was removed takes it.  The line says when it was typed, not long ago.
SaveCommand(s) == \E age \in {0, 1} :
  LET f == File(s)
      line == [session |-> s, at |-> now - age, n |-> Cardinality(saved) + 1]
      h == IF handle[f] = "none" THEN "open" ELSE handle[f]
  IN /\ Cardinality(saved) < MaxRecords /\ age <= now
     /\ handle' = [handle EXCEPT ![f] = h]
     /\ IF h = "closed" THEN UNCHANGED <<disk, touched, saved>>
        ELSE /\ saved' = saved \cup {line}
             /\ IF h = "orphan" THEN UNCHANGED <<disk, touched>>
                ELSE /\ disk' = [disk EXCEPT ![f] = @ \cup {line}]
                     /\ touched' = [touched EXCEPT ![f] = now]
     /\ UNCHANGED <<kind, now, cutoff>>

Old(f, limit) == {l \in disk[f] : l.at < limit}

\* The table: one statement.
DeleteOldRows(days) ==
  /\ kind = "postgres"
  /\ disk' = [disk EXCEPT !["log"] = @ \ Old("log", now - days)]
  /\ UNCHANGED <<touched, handle>>

\* The file for all sessions: the lines to keep go to a new file that
\* replaces the old one.  What fails after the handle was closed leaves the
\* store without one: with the old lines if it was the writing or renaming.
DeleteOldLines(days) ==
  /\ kind = "file"
  /\ IF Old("log", now - days) = {} THEN UNCHANGED <<disk, touched, handle>>
     ELSE \/ /\ disk' = [disk EXCEPT !["log"] = @ \ Old("log", now - days)]
             /\ touched' = [touched EXCEPT !["log"] = now]
             /\ \E h \in {"open", "closed"} : handle' = [handle EXCEPT !["log"] = h]
          \/ /\ handle' = [handle EXCEPT !["log"] = "closed"]
             /\ UNCHANGED <<disk, touched>>

Stale(days) == {f \in Sessions : disk[f] # {} /\ touched[f] < now - days}

\* Slip: the files go and their handles are kept.
RemoveFiles(days) ==
  /\ kind = "sessions"
  /\ disk' = [f \in Files |-> IF f \in Stale(days) THEN {} ELSE disk[f]]
  /\ handle' = [f \in Files |-> IF f \in Stale(days) /\ handle[f] = "open" THEN "orphan" ELSE handle[f]]
  /\ UNCHANGED touched

\* A file for each session: those nobody has written to for long are removed,
\* some of them may stay; their handles are closed and forgotten.
DeleteOldFiles(days) ==
  /\ kind = "sessions"
  /\ \E removed \in SUBSET Stale(days) :
       disk' = [f \in Files |-> IF f \in removed THEN {} ELSE disk[f]]
  /\ handle' = [f \in Files |-> IF f \in Stale(days) THEN "none" ELSE handle[f]]
  /\ UNCHANGED touched

CleanupOldRecords == \E days \in Days :
  /\ DeleteOldRows(days) \/ DeleteOldLines(days) \/ DeleteOldFiles(days)
  /\ cutoff' = IF now - days > cutoff THEN now - days ELSE cutoff
  /\ UNCHANGED <<kind, now, saved>>

\* The handle of a session may be closed; the next line opens it again.
CloseSession(s) ==
  /\ kind = "sessions" /\ handle[s] = "open"
  /\ handle' = [handle EXCEPT ![s] = "none"]
  /\ UNCHANGED <<kind, now, disk, touched, saved, cutoff>>

\* The server is started again.
Restart ==
  /\ handle' = [f \in Files |-> IF f = "log" /\ kind # "sessions" THEN "open" ELSE "none"]
  /\ UNCHANGED <<kind, now, disk, touched, saved, cutoff>>

Tick ==
  /\ now < MaxTime
  /\ now' = now + 1
  /\ UNCHANGED <<kind, disk, touched, handle, saved, cutoff>>

Next ==
  \/ Tick \/ Restart \/ CleanupOldRecords
  \/ \E s \in Sessions : SaveCommand(s) \/ CloseSession(s)

Spec == Init /\ [][Next]_vars

-----------------------------------------------------------------------------
(* A command line that was stored stays in the audit log until a cleanup   *)
(* that is to delete lines of its age: whatever cleanups, failures of      *)
(* them, closed sessions and restarts there are in between.                *)
RecentIsKept == \A l \in saved : l.at < cutoff \/ l \in disk[File(l.session)]
=============================================================================
