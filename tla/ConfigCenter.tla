--------------------------- MODULE ConfigCenter ---------------------------
(***************************************************************************)
(* pkg/configcenter, handler.go over store.go: one configuration, its      *)
(* releases, its gray rules, its change log and its edit lock.  Handlers   *)
(* run side by side; each call of the store is a step of its own, so that  *)
(* a handler may write back a row others have changed since it read it.    *)
(* The publication a release starts is a goroutine of its own.             *)
(***************************************************************************)
EXTENDS Integers, Sequences, FiniteSets

CONSTANTS
  Requests,     \* requests, each of one operation
  Contents,     \* contents an author may write
  Rules,        \* gray rules
  Sessions,     \* editing sessions
  TTL,          \* time an edit lock lasts
  MaxTime,      \* bound: the clock
  Plans         \* which operation each request is: subset of [Requests -> Operations]

VARIABLES
  plan,         \* the operations, chosen once
  config,       \* the row of the configuration, or Nothing
  releases,     \* release rows, oldest first
  rules,        \* gray rule rows
  logs,         \* change log
  request,      \* what a handler does and what it has read
  pushes,       \* goroutines of pushConfig: indices of releases
  lock,         \* edit lock rows: the index on config_id admits one
  now, grants   \* the clock, and how many locks were granted

vars == <<plan, config, releases, rules, logs, request, pushes, lock, now, grants>>

Operations == {"create", "update", "delete", "release", "rollback",
               "addRule", "editRule", "dropRule", "lock", "none"}
Nothing == [version |-> 0]
Row(content, version) == [content |-> content, version |-> version]
Types == {"full", "rollback"}
Status == {"pending", "success", "deleted"}
Release(content, version, type) ==
  [content |-> content, version |-> version, type |-> type, status |-> "pending"]
Entry(type, old, new) == [type |-> type, old |-> old, new |-> new]
None == "none"
Idle == [pc |-> "idle"]

TypeOK ==
  /\ config # Nothing => config.content \in Contents /\ config.version \in Nat \ {0}
  /\ \A i \in DOMAIN releases : releases[i].type \in Types /\ releases[i].status \in Status
  /\ rules \subseteq [rule : Rules, enabled : BOOLEAN]
  /\ \A r \in Requests : request[r].pc \in
       {"idle", "save", "increment", "log", "drop", "create", "find", "rule", "clean",
        "look", "take", "held", "done"}
  /\ pushes \subseteq DOMAIN releases
  /\ \A l \in lock : l.session \in Sessions /\ l.expires \in Nat
  /\ now \in 0 .. MaxTime /\ grants \in 0 .. Cardinality(Requests)

Init ==
  /\ plan \in Plans
  /\ config = Nothing /\ releases = <<>> /\ rules = {} /\ logs = <<>>
  /\ request = [r \in Requests |-> Idle]
  /\ pushes = {} /\ lock = {} /\ now = 0 /\ grants = 0

-----------------------------------------------------------------------------
(* A handler that ends, and one that goes on.                               *)

At(r, pc) == request[r].pc = pc
Goto(r, next) == request' = [request EXCEPT ![r] = next]
Finish(r) == Goto(r, [pc |-> "done"])
OthersLock == UNCHANGED <<lock, now, grants>>

\* GetConfig: the row with its associations, or 404.
Reads(r, op, next) ==
  /\ At(r, "idle") /\ plan[r] = op
  /\ IF config = Nothing THEN Finish(r) ELSE Goto(r, next)
  /\ UNCHANGED <<plan, config, releases, rules, logs, pushes>> /\ OthersLock

CreateChangeLog(r) ==
  /\ At(r, "log")
  /\ logs' = Append(logs, request[r].entry)
  /\ Finish(r)
  /\ UNCHANGED <<plan, config, releases, rules, pushes>> /\ OthersLock

\* The keys are unique: a second configuration under them is refused.
CreateConfig(r, content) ==
  /\ At(r, "idle") /\ plan[r] = "create"
  /\ IF config = Nothing
     THEN /\ config' = Row(content, 1)
          /\ Goto(r, [pc |-> "log", entry |-> Entry("create", None, content)])
     ELSE UNCHANGED config /\ Finish(r)
  /\ UNCHANGED <<plan, releases, rules, logs, pushes>> /\ OthersLock

UpdateConfig(r, content) ==
  Reads(r, "update", [pc |-> "save", row |-> Row(content, config.version),
                      rels |-> releases, rules |-> rules])

\* Save writes every column it has read and the associations it has read: a
\* gray rule deleted meanwhile comes back.  A row deleted meanwhile comes back
\* unless an association of it refuses to be written.
Save(r) ==
  /\ At(r, "save")
  /\ LET seen == request[r]
         Old == {x \in seen.rules : \A y \in rules : y.rule # x.rule}
     IN IF config = Nothing /\ (seen.rules # {} \/ \E i \in DOMAIN seen.rels :
                                                      seen.rels[i].status # "deleted")
        THEN UNCHANGED <<config, rules>> /\ Finish(r)
        ELSE /\ config' = seen.row
             /\ rules' = rules \union Old
             /\ Goto(r, [pc |-> "increment", content |-> seen.row.content])
  /\ UNCHANGED <<plan, releases, logs, pushes>> /\ OthersLock

\* The old content of the entry is read from the row after it was changed.
IncrementVersion(r) ==
  /\ At(r, "increment")
  /\ config' = IF config = Nothing THEN Nothing ELSE [config EXCEPT !.version = @ + 1]
  /\ Goto(r, [pc |-> "log", entry |-> Entry("update", request[r].content, request[r].content)])
  /\ UNCHANGED <<plan, releases, rules, logs, pushes>> /\ OthersLock

DeleteConfig(r) == Reads(r, "delete", [pc |-> "drop", content |-> config.content])

\* What belongs to the row is deleted with it.
Drop(r) ==
  /\ At(r, "drop")
  /\ config' = Nothing /\ rules' = {}
  /\ releases' = [i \in DOMAIN releases |-> [releases[i] EXCEPT !.status = "deleted"]]
  /\ Goto(r, [pc |-> "log", entry |-> Entry("delete", request[r].content, None)])
  /\ UNCHANGED <<plan, logs, pushes>> /\ OthersLock

-----------------------------------------------------------------------------
(* Releases.                                                                *)

ReleaseConfig(r) ==
  Reads(r, "release",
        [pc |-> "create", release |-> Release(config.content, config.version, "full"),
         entry |-> Entry("release", None, config.content)])

RollbackConfig(r, version) ==
  Reads(r, "rollback", [pc |-> "find", version |-> version, content |-> config.content])

\* Of the releases of the version, which are listed newest first, the first is
\* taken.
ListReleases(version) ==
  {i \in DOMAIN releases : releases[i].version = version /\ releases[i].status # "deleted"}

FindTarget(r) ==
  /\ At(r, "find")
  /\ LET found == ListReleases(request[r].version)
     IN \/ found = {} /\ Finish(r)
        \/ \E i \in found :
             /\ \A j \in found : j <= i
             /\ Goto(r, [pc |-> "create",
                         release |-> Release(releases[i].content, releases[i].version, "rollback"),
                         entry |-> Entry("rollback", request[r].content, releases[i].content)])
  /\ UNCHANGED <<plan, config, releases, rules, logs, pushes>> /\ OthersLock

\* The slip of the rollback that only writes its row.
CreateUnpushed(r) ==
  /\ At(r, "create")
  /\ IF config = Nothing
     THEN UNCHANGED <<releases, logs>>
     ELSE /\ releases' = Append(releases, request[r].release)
          /\ logs' = Append(logs, request[r].entry)
  /\ Finish(r)
  /\ UNCHANGED <<plan, config, rules, pushes>> /\ OthersLock

\* The row belongs to a configuration: without one it is refused.  The
\* publication starts once the entry of the log is written; both are one
\* step here, since nothing reads the log.
CreateRelease(r) ==
  /\ At(r, "create")
  /\ IF config = Nothing
     THEN UNCHANGED <<releases, logs, pushes>>
     ELSE /\ releases' = Append(releases, request[r].release)
          /\ logs' = Append(logs, request[r].entry)
          /\ pushes' = pushes \union {Len(releases) + 1}
  /\ Finish(r)
  /\ UNCHANGED <<plan, config, rules>> /\ OthersLock

\* Nothing is sent: the row is marked.
PushConfig(i) ==
  /\ i \in pushes
  /\ pushes' = pushes \ {i}
  /\ releases' = [releases EXCEPT ![i].status = IF @ = "deleted" THEN @ ELSE "success"]
  /\ UNCHANGED <<plan, config, rules, logs, request>> /\ OthersLock

-----------------------------------------------------------------------------
(* Gray rules.                                                              *)

CreateGrayRule(r, rule) ==
  /\ At(r, "idle") /\ plan[r] = "addRule"
  /\ rules' = IF config = Nothing \/ \E x \in rules : x.rule = rule THEN rules
              ELSE rules \union {[rule |-> rule, enabled |-> TRUE]}
  /\ Finish(r)
  /\ UNCHANGED <<plan, config, releases, logs, pushes>> /\ OthersLock

UpdateGrayRule(r, rule, enabled) ==
  /\ At(r, "idle") /\ plan[r] = "editRule"
  /\ IF \E x \in rules : x.rule = rule
     THEN Goto(r, [pc |-> "rule", rule |-> [rule |-> rule, enabled |-> enabled]])
     ELSE Finish(r)
  /\ UNCHANGED <<plan, config, releases, rules, logs, pushes>> /\ OthersLock

SaveGrayRule(r) ==
  /\ At(r, "rule")
  /\ LET rule == request[r].rule
     IN rules' = IF config = Nothing THEN rules
                 ELSE {x \in rules : x.rule # rule.rule} \union {rule}
  /\ Finish(r)
  /\ UNCHANGED <<plan, config, releases, logs, pushes>> /\ OthersLock

DeleteGrayRule(r, rule) ==
  /\ At(r, "idle") /\ plan[r] = "dropRule"
  /\ rules' = {x \in rules : x.rule # rule}
  /\ Finish(r)
  /\ UNCHANGED <<plan, config, releases, logs, pushes>> /\ OthersLock

-----------------------------------------------------------------------------
(* The edit lock.  No operation above asks for it.                          *)

OthersRows == UNCHANGED <<plan, config, releases, rules, logs, pushes>>
Expired(l) == now > l.expires

AcquireLock(r, session) ==
  /\ At(r, "idle") /\ plan[r] = "lock"
  /\ Goto(r, [pc |-> "clean", session |-> session, expires |-> now + TTL])
  /\ OthersRows /\ OthersLock

CleanupExpiredLocks(r) ==
  /\ At(r, "clean")
  /\ lock' = {l \in lock : ~Expired(l)}
  /\ Goto(r, [request[r] EXCEPT !.pc = "look"])
  /\ OthersRows /\ UNCHANGED <<now, grants>>

LookForLock(r) ==
  /\ At(r, "look")
  /\ Goto(r, [pc |-> "take", session |-> request[r].session, expires |-> request[r].expires,
              found |-> lock])
  /\ OthersRows /\ OthersLock

\* The slip that deletes the lock of the configuration, whichever it is.
CheckAnyLock(r) ==
  /\ At(r, "take") /\ request[r].found # {}
  /\ IF \E l \in request[r].found : ~Expired(l)
     THEN Finish(r) /\ UNCHANGED lock
     ELSE lock' = {} /\ Goto(r, [request[r] EXCEPT !.found = {}])
  /\ OthersRows /\ UNCHANGED <<now, grants>>

\* The lock found is valid and refuses the request, or its row is deleted by
\* its key, which another request may have done.
CheckLock(r) ==
  /\ At(r, "take") /\ request[r].found # {}
  /\ IF \E l \in request[r].found : ~Expired(l)
     THEN Finish(r) /\ UNCHANGED lock
     ELSE lock' = lock \ request[r].found /\ Goto(r, [request[r] EXCEPT !.found = {}])
  /\ OthersRows /\ UNCHANGED <<now, grants>>

\* A row of the configuration that is there refuses the insertion.
TakeLock(r) ==
  /\ At(r, "take") /\ request[r].found = {}
  /\ IF lock = {}
     THEN /\ lock' = {[session |-> request[r].session, expires |-> request[r].expires,
                       row |-> grants + 1]}
          /\ grants' = grants + 1
          /\ Goto(r, [pc |-> "held", row |-> grants + 1, session |-> request[r].session])
     ELSE UNCHANGED <<lock, grants>> /\ Finish(r)
  /\ OthersRows /\ UNCHANGED now

ReleaseLock(r) ==
  /\ At(r, "held")
  /\ lock' = {l \in lock : l.session # request[r].session}
  /\ Finish(r)
  /\ OthersRows /\ UNCHANGED <<now, grants>>

\* Time matters to locks only.
Tick ==
  /\ now < MaxTime /\ \E r \in Requests : plan[r] = "lock"
  /\ now' = now + 1
  /\ UNCHANGED <<plan, config, releases, rules, logs, request, pushes, lock, grants>>

-----------------------------------------------------------------------------

Handle(r) ==
  \/ CreateChangeLog(r) \/ Save(r) \/ IncrementVersion(r) \/ DeleteConfig(r) \/ Drop(r)
  \/ ReleaseConfig(r) \/ FindTarget(r) \/ CreateRelease(r) \/ SaveGrayRule(r)
  \/ \E content \in Contents : CreateConfig(r, content) \/ UpdateConfig(r, content)
  \/ \E version \in 1 .. 2 : RollbackConfig(r, version)
  \/ \E rule \in Rules : \/ CreateGrayRule(r, rule) \/ DeleteGrayRule(r, rule)
                         \/ \E enabled \in BOOLEAN : UpdateGrayRule(r, rule, enabled)
  \/ \E session \in Sessions : AcquireLock(r, session)
  \/ CleanupExpiredLocks(r) \/ LookForLock(r) \/ CheckLock(r) \/ TakeLock(r)
  \/ ReleaseLock(r)

Next == (\E r \in Requests : Handle(r)) \/ (\E i \in pushes : PushConfig(i)) \/ Tick

Fairness == \A i \in 1 .. Cardinality(Requests) : WF_vars(PushConfig(i))
Spec == Init /\ [][Next]_vars /\ Fairness

-----------------------------------------------------------------------------

(* An edit lock that has not expired is given up by its own session only:  *)
(* two requests that both find an expired lock cannot take each other's.   *)
LockIsKept ==
  [][\A l \in lock \ lock' :
       Expired(l) \/ \E r \in Requests : request[r].pc = "held" /\ request'[r].pc = "done"
                                        /\ request[r].session = l.session]_vars

Pending(i) == i \in DOMAIN releases /\ releases[i].status = "pending"

(* A release that was written ends: the events of it that a page listens   *)
(* to stop at a final status only.                                         *)
ReleasesEnd == \A i \in 1 .. Cardinality(Requests) : Pending(i) ~> ~Pending(i)
=============================================================================
