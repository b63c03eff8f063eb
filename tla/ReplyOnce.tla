------------------------------ MODULE ReplyOnce ------------------------------
(***************************************************************************)
(* What pkg/callback promises its callers: a request is refused at once,   *)
(* or it waits and then gets exactly one answer, which never changes.      *)
(***************************************************************************)
CONSTANT Requests

VARIABLE reply   \* what the caller of each request has seen

Answered == {"ack", "fail", "timeout"}

Init == reply = [q \in Requests |-> "none"]

Refuse(q) == reply[q] = "none" /\ reply' = [reply EXCEPT ![q] = "refused"]
Accept(q) == reply[q] = "none" /\ reply' = [reply EXCEPT ![q] = "waiting"]
Reply(q)  == /\ reply[q] = "waiting"
             /\ \E a \in Answered : reply' = [reply EXCEPT ![q] = a]

Next == \E q \in Requests : Refuse(q) \/ Accept(q) \/ Reply(q)

\* Never a second answer, nor one that was not waited for.
Safety == Init /\ [][Next]_reply

\* A request that waits is answered.
Spec == Safety /\ \A q \in Requests : WF_reply(Reply(q))
=============================================================================
