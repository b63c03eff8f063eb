------------------------------ MODULE Webhooks ------------------------------
(***************************************************************************)
(* pkg/release/webhook and api/webhook_api.go: a Git platform announces a  *)
(* push, and the handler finds the webhook by its token, parses what came, *)
(* filters it, finds or creates the version and creates a deploy task.     *)
(* Requests run side by side and between any two of their statements the   *)
(* configuration may change.                                               *)
(***************************************************************************)
EXTENDS Integers, Sequences

CONSTANTS
  Deliveries,   \* requests of a platform
  Commits,      \* commits; a push without one has the version ""
  Sources,      \* platforms of the webhook: of github, gitlab and gitee
  Payloads,     \* what they send, of PayloadType
  MaxEdits      \* bound: changes of the configuration

VARIABLES
  hook,         \* the row of the webhook
  request,      \* what the handler of a delivery does
  versions,     \* version rows, by the commit they stand for
  tasks,        \* deploy tasks, pending: the version and its row
  triggers,     \* trigger records, by status
  edits         \* changes so far

vars == <<hook, request, versions, tasks, triggers, edits>>

Actions == {"deploy", "build", "other"}
Refs == {"main", "dev"}
Statuses == {"success", "failed", "skipped"}
Tokens == 0 .. MaxEdits      \* the first characters of the secrets, oldest first
Hooks == [state : {"enabled", "disabled", "deleted"}, token : Tokens, source : Sources,
          filter : SUBSET Refs, action : Actions, count : Nat]
PayloadType == [event : {"push", "tag", "release"}, header : BOOLEAN, signed : BOOLEAN,
                ref : Refs, commit : Commits \union {""}]
Waits == {"idle", "allowed", "version", "create", "clients", "record", "count", "done"}
Idle == [pc |-> "idle"]

TypeOK ==
  /\ hook \in Hooks /\ Payloads \subseteq PayloadType
  /\ \A d \in Deliveries : request[d].pc \in Waits
  /\ \A i \in DOMAIN versions : versions[i] \in Commits \union Refs \union {""}
  /\ \A t \in tasks : t.delivery \in Deliveries /\ t.version \in DOMAIN versions
  /\ triggers \in [Statuses -> Nat]
  /\ edits \in 0 .. MaxEdits

Init ==
  /\ hook \in [state : {"enabled"}, token : {0}, source : Sources,
               filter : {{}, {"main"}}, action : {"deploy"}, count : {0}]
  /\ request = [d \in Deliveries |-> Idle]
  /\ versions = <<>> /\ tasks = {}
  /\ triggers = [s \in Statuses |-> 0]
  /\ edits = 0

-----------------------------------------------------------------------------
(* What a handler makes of a payload.                                       *)

Unsupported == [branch |-> "none", tag |-> "none", commit |-> "none"]
Info(branch, tag, commit) == [branch |-> branch, tag |-> tag, commit |-> commit]

\* Gitee is parsed as GitHub is; the event is in a header.  A tag is pushed
\* as a "create" event, which no case takes.
ParseGitHub(p) ==
  CASE p.header /\ p.event = "push"    -> Info(p.ref, "", p.commit)
    [] p.header /\ p.event = "release" -> Info("", p.ref, p.ref)
    [] OTHER -> Unsupported

\* The header's value is no object kind, so only payloads without it are
\* taken.  The commits of a push are under a misspelt key and the ref of a
\* tag under a key that two fields claim: neither is ever decoded.
ParseGitLab(p) ==
  CASE ~p.header /\ p.event = "push"    -> Info(p.ref, "", "")
    [] ~p.header /\ p.event = "tag"     -> Info("", "", "")
    [] ~p.header /\ p.event = "release" -> Info(p.ref, p.ref, "")
    [] OTHER -> Unsupported

ParsePayload(source, p) == IF source = "gitlab" THEN ParseGitLab(p) ELSE ParseGitHub(p)

\* ComputeSignature writes its own name of the algorithm before the digest:
\* what a platform signs with never equals it.  Without a signature none is asked for.
VerifySignature(p) == ~p.signed

Matches(filter, info) == filter = {} \/ {info.branch, info.tag} \intersect filter # {}

-----------------------------------------------------------------------------
(* IncomingWebhook                                                          *)

Go(d, r) == request' = [request EXCEPT ![d] = r]

\* The rate limiter lets the request in (RateLimiter!Allow) or it ends here.
Incoming(d) == \E t \in 0 .. hook.token, p \in Payloads :
  /\ request[d].pc = "idle"
  /\ Go(d, [pc |-> "allowed", token |-> t, payload |-> p])
  /\ UNCHANGED <<hook, versions, tasks, triggers, edits>>

\* What a request goes on with; until it is known its version is none.
Found(pc, status, info) ==
  [pc |-> pc, status |-> status, commit |-> info.commit, version |-> 0,
   found |-> hook.state, filtered |-> ~Matches(hook.filter, info)]

\* The row is read once; from here on the request works on that copy.
FindWebhook(d) ==
  LET p == request[d].payload
      info == ParsePayload(hook.source, p)
      known == /\ hook.state = "enabled" /\ request[d].token = hook.token
               /\ VerifySignature(p) /\ info # Unsupported
      wanted == Matches(hook.filter, info)
  IN /\ request[d].pc = "allowed"
     /\ \/ ~known /\ Go(d, [pc |-> "done"])
        \/ known /\ wanted /\ hook.action = "deploy" /\ Go(d, Found("version", "success", info))
        \/ known /\ wanted /\ hook.action = "build" /\ Go(d, Found("record", "success", info))
        \/ known /\ (wanted => hook.action = "other") /\ Go(d, Found("record", "skipped", info))
     /\ UNCHANGED <<hook, versions, tasks, triggers, edits>>

\* triggerDeploy: the version of the commit, the first there is.
FindVersion(d) ==
  LET r == request[d]
      same == {i \in DOMAIN versions : versions[i] = r.commit}
  IN /\ r.pc = "version"
     /\ \/ same = {} /\ Go(d, [r EXCEPT !.pc = "create"])
        \/ \E i \in same : /\ \A j \in same : i <= j
                           /\ Go(d, [r EXCEPT !.pc = "clients", !.version = i])
     /\ UNCHANGED <<hook, versions, tasks, triggers, edits>>

\* Nothing forbids a second row for a commit.
CreateVersion(d) ==
  LET r == request[d]
  IN /\ r.pc = "create"
     /\ \/ /\ versions' = Append(versions, r.commit)
           /\ Go(d, [r EXCEPT !.pc = "clients", !.version = Len(versions) + 1])
        \/ Go(d, [r EXCEPT !.pc = "record", !.status = "failed"]) /\ UNCHANGED versions
     /\ UNCHANGED <<hook, tasks, triggers, edits>>

\* No clients: neither a task nor an error.
CreateTask(d) ==
  LET r == request[d]
  IN /\ r.pc = "clients"
     /\ \/ Go(d, [r EXCEPT !.pc = "record"]) /\ UNCHANGED tasks
        \/ Go(d, [r EXCEPT !.pc = "record", !.status = "failed"]) /\ UNCHANGED tasks
        \/ /\ tasks' = tasks \union {[delivery |-> d, version |-> r.version]}
           /\ Go(d, [r EXCEPT !.pc = "record"])
     /\ UNCHANGED <<hook, versions, triggers, edits>>

\* What the filter skips is recorded and not counted.
RecordTrigger(d) ==
  LET r == request[d]
  IN /\ r.pc = "record"
     /\ triggers' = [triggers EXCEPT ![r.status] = @ + 1]
     /\ Go(d, [r EXCEPT !.pc = IF r.filtered THEN "done" ELSE "count"])
     /\ UNCHANGED <<hook, versions, tasks, edits>>

\* trigger_count = trigger_count + 1, where the row is still there.
CountTrigger(d) ==
  /\ request[d].pc = "count"
  /\ hook' = IF hook.state = "deleted" THEN hook ELSE [hook EXCEPT !.count = @ + 1]
  /\ Go(d, [request[d] EXCEPT !.pc = "done"])
  /\ UNCHANGED <<versions, tasks, triggers, edits>>

-----------------------------------------------------------------------------
(* The configuration's own handlers.                                        *)

Edit(h) ==
  /\ hook.state # "deleted" /\ edits < MaxEdits
  /\ hook' = h
  /\ edits' = edits + 1
  /\ UNCHANGED <<request, versions, tasks>>

\* Only the columns that are named change: the count is left alone.
UpdateWebhook == \E s \in {"enabled", "disabled"}, f \in {{}, {"main"}}, a \in Actions :
  Edit([hook EXCEPT !.state = s, !.filter = f, !.action = a]) /\ UNCHANGED triggers
DeleteWebhook == Edit([hook EXCEPT !.state = "deleted"]) /\ UNCHANGED triggers
RegenerateWebhookSecret == Edit([hook EXCEPT !.token = @ + 1]) /\ UNCHANGED triggers

\* A record of success, and nothing is triggered.
TestWebhook == Edit(hook) /\ triggers' = [triggers EXCEPT !["success"] = @ + 1]

-----------------------------------------------------------------------------
Serve(d) ==
  \/ FindWebhook(d) \/ FindVersion(d) \/ CreateVersion(d) \/ CreateTask(d)
  \/ RecordTrigger(d) \/ CountTrigger(d)

Next ==
  \/ \E d \in Deliveries : Incoming(d) \/ Serve(d)
  \/ UpdateWebhook \/ DeleteWebhook \/ RegenerateWebhookSecret \/ TestWebhook

Spec == Init /\ [][Next]_vars

-----------------------------------------------------------------------------
\* The history explains the webhook's count: no trigger is counted that has no
\* record, however deliveries and edits overlap (IncomingWebhook).
TriggersRecorded ==
  hook.count <= triggers["success"] + triggers["failed"] + triggers["skipped"]

\* A deploy task comes from a delivery that found its webhook enabled and its
\* filter satisfied, at one and the same moment, and stands for the version of
\* that delivery's commit, also when two deliveries create the version at
\* once (IncomingWebhook, triggerDeploy).
TasksWanted ==
  \A t \in tasks :
    LET r == request[t.delivery]
    IN r.found = "enabled" /\ ~r.filtered /\ versions[t.version] = r.commit

=============================================================================
