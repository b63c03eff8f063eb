--------------------------- MODULE MCRemoteAccess ---------------------------
(***************************************************************************)
(* Scenarios for the parts of RemoteAccess.                                *)
(***************************************************************************)
EXTENDS RemoteAccess, TLC

SshCall(a, b, c) == "a" :> a @@ "b" :> b @@ "c" :> c
MCSshPlans == {SshCall("connect", "exec", "disconnect"), SshCall("connect", "shell", "close"),
               SshCall("connect", "connect", "exec"), SshCall("connect", "close", "oneshot")}

MCRecordingPlans == {"c1" :> [request |-> x, id |-> "r1"] @@ "c2" :> [request |-> y, id |-> "r1"] :
                     x \in {"get", "stream", "delete", "cleanup"}, y \in {"stream", "cleanup"}}

\* Two uploads of one name, a quota that only one fits, and a restart.
Upload == [kind |-> "upload", user |-> "u", path |-> "a/f", name |-> "f", content |-> "x", size |-> 2]
Chunk == [Upload EXCEPT !.size = 1]
Transfer == [todo |-> "t1" :> Upload, quota |-> 3, crashes |-> 0,
             workers |-> {"w1"}, requests |-> {"q1", "q2"}]
MCTransferPlans == {
  Transfer,
  [Transfer EXCEPT !.requests = {"q1"}, !.quota = 2,
     !.todo = "t1" :> Upload @@ "t2" :> [Chunk EXCEPT !.path = "b/g", !.name = "g", !.content = "y"]],
  [Transfer EXCEPT !.requests = {"q1"}, !.todo = "t1" :> Chunk @@ "t2" :> [Chunk EXCEPT !.path = "b/f"]],
  [Transfer EXCEPT !.requests = {"q1"}, !.crashes = 1, !.workers = {"w1", "w2"},
     !.todo = "t1" :> [Chunk EXCEPT !.user = "anonymous"] @@ "t2" :> [Chunk EXCEPT !.kind = "download"]]}

\* Commands that fill one queue, a broadcast past its tokens, answers that
\* nobody reads or nobody gives, and a command with a callback.
Message(what, c, type, wait, callbackToo) ==
  [call |-> what, client |-> c, type |-> type, wait |-> wait, callback |-> callbackToo]
Command == Message("promise", "m1", "command", TRUE, FALSE)
Multicast == "p" :> Command @@ "q" :> Command
MCMessagePlans == {
  Multicast,
  "p" :> Command @@ "q" :> Message("broadcast", "m1", "event", FALSE, FALSE),
  "p" :> Message("async", "m1", "command", TRUE, FALSE) @@ "q" :> Message("promise", "m2", "query", TRUE, FALSE),
  "p" :> Message("message", "m1", "query", TRUE, FALSE) @@ "q" :> Message("message", "m2", "event", FALSE, FALSE),
  "p" :> Message("message", "m1", "command", TRUE, FALSE) @@ "q" :> Message("send", "m1", "event", TRUE, FALSE),
  "p" :> Message("send", "m1", "command", FALSE, TRUE) @@ "q" :> Message("send", "m2", "query", FALSE, FALSE)}

\* The recordings alone: every request to the API is handled.
RecordingSpec ==
  /\ Init /\ part = "recording" /\ [][Next]_vars
  /\ \A c \in RecordingCalls : WF_recordingVars(R!ApiStep(c))

(* "Delete deletes a recording by ID" (recording/store.go:261): every      *)
(* request to the API ends.  It does not: Delete waits for itself, and     *)
(* every later request for it.                                             *)
RequestsEnd == R!RequestsEnd
=============================================================================
