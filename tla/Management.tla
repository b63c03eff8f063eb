----------------------------- MODULE Management -----------------------------
(***************************************************************************)
(* The services that keep the state of clients and tasks: the              *)
(* configuration centre and its push engine, alerting, scheduled tasks,    *)
(* the sharded session manager, the reports of clients.  They share no     *)
(* state, so a behaviour runs one of them.                                 *)
(***************************************************************************)
EXTENDS Integers, Sequences, FiniteSets

CONSTANTS
  Handlers, Contents, GrayRuleIds, EditSessions, LockTTL, ConfigPlans,
  Subscribers, ConfigKeys, PushCalls, Pushes, PushPlans,
  Fingerprints, AlertRules, AlertCalls, Channels, Notifiers, NoticeQueueSize,
  AlertTimeout, AlertPlans,
  Tasks, Groups, TaskClients, TaskRequests, TaskPlans,
  ConnectedSessions, ClientOf, ShardOf, SlotSize, TimeoutTicks, Interval,
  Grace, MaxTimeoutCount,
  Answers, ReportQueueSize, CacheTTL, OfflineTimeout, ReportPlans,
  \* bounds: the clocks, restarts, changes of rules, calls of CloseAll
  MaxConfigTime, MaxAlertTime, MaxReportTime, MaxPushRestarts, MaxTaskRestarts,
  MaxRuleEdits, MaxCloseAll

VARIABLES
  part,          \* the part that runs, fixed
  configPlan, config, releases, rules, logs, configRequest, pushes, lock,
  configNow, grants,
  pushPlan, online, subscribers, writer, pushRows, pushCall, push, messages,
  arrived, pushRestarts,
  alertPlan, alertNow, table, loaded, fired, visit, edits, alertRows, cache,
  alertCall, queue, retry, sending, history,
  taskPlan, taskRows, bound, groups, entries, registry, taskRequest, sent,
  executions, taskRestarts, taskCrossed,
  shard, count, silent, timeouts, used, closed, wheel, clock, checker,
  closing, shardCrossed,
  reportPlan, reportNow, machine, channel, reported, device, had, hwCache,
  once, saver, changes, reportEdits, last, metEnd, byHand,
  deployTask, deployRun, deployLogs, viewer, shown

C == INSTANCE ConfigCenter WITH
  Requests <- Handlers, Rules <- GrayRuleIds, Sessions <- EditSessions,
  TTL <- LockTTL, MaxTime <- MaxConfigTime, Plans <- ConfigPlans,
  plan <- configPlan, request <- configRequest, now <- configNow
P == INSTANCE ConfigPush WITH
  Clients <- Subscribers, Keys <- ConfigKeys, Calls <- PushCalls,
  MaxRestarts <- MaxPushRestarts, Plans <- PushPlans, plan <- pushPlan,
  rows <- pushRows, call <- pushCall, restarts <- pushRestarts
A == INSTANCE Alerting WITH
  Rules <- AlertRules, Calls <- AlertCalls, Workers <- Notifiers,
  QueueSize <- NoticeQueueSize, Timeout <- AlertTimeout,
  MaxTime <- MaxAlertTime, MaxEdits <- MaxRuleEdits, Plans <- AlertPlans,
  plan <- alertPlan, now <- alertNow, rows <- alertRows, call <- alertCall
T == INSTANCE TaskScheduler WITH
  Clients <- TaskClients, Requests <- TaskRequests, Plans <- TaskPlans,
  MaxRestarts <- MaxTaskRestarts, plan <- taskPlan, rows <- taskRows,
  request <- taskRequest, restarts <- taskRestarts, crossed <- taskCrossed
S == INSTANCE ShardedSessions WITH
  Sessions <- ConnectedSessions, Client <- ClientOf, crossed <- shardCrossed
I == INSTANCE Reports WITH
  QueueSize <- ReportQueueSize, TTL <- CacheTTL, Timeout <- OfflineTimeout,
  MaxTime <- MaxReportTime, Plans <- ReportPlans, plan <- reportPlan,
  now <- reportNow, cache <- hwCache, edits <- reportEdits,
  task <- deployTask, run <- deployRun, logs <- deployLogs

\* Rows of tb_task, and what a request carries.
Schedules == STRING \cup {"none"}
TaskRowSet == [expr : Schedules, gone : BOOLEAN]
CallOK(c) ==
  /\ c.op # "dropgroup" => c.task \in Tasks
  /\ c.op \in {"create", "update"} => c.expr \in Schedules /\ c.groups \subseteq Groups

\* What the constants are.
ASSUME ConfigAssumption ==
  /\ IsFiniteSet(Handlers)
  /\ ConfigPlans \subseteq [Handlers -> C!Operations]
  /\ LockTTL \in Nat /\ MaxConfigTime \in Nat
ASSUME PushAssumption ==
  /\ PushPlans \subseteq
       [calls : [PushCalls -> [op : {"subscribe", "unsubscribe"}, client : Subscribers, key : ConfigKeys]],
        pushes : [Pushes -> [key : ConfigKeys, gray : BOOLEAN]],
        rules : SUBSET P!RuleTypes, sampled : SUBSET Subscribers]
  /\ MaxPushRestarts \in Nat
ASSUME AlertAssumption ==
  /\ NoticeQueueSize \in Nat /\ MaxAlertTime \in Nat /\ MaxRuleEdits \in Nat
  /\ \A p \in AlertPlans :
       /\ p.channels \subseteq Channels
       /\ \A c \in AlertCalls : p.calls[c].print \in Fingerprints /\ p.calls[c].status \in A!Statuses
ASSUME TaskAssumption ==
  /\ Tasks \subseteq Int /\ IsFiniteSet(Tasks) /\ IsFiniteSet(TaskRequests)
  /\ \A p \in TaskPlans : /\ p.rows \in [Tasks -> TaskRowSet] /\ p.bound \subseteq Tasks \X Groups
                          /\ \A r \in TaskRequests : CallOK(p.calls[r])
ASSUME ShardAssumption ==
  /\ IsFiniteSet(ConnectedSessions) /\ S!NoSession \notin ConnectedSessions /\ "wheel" \notin S!Shards
  /\ SlotSize \in Nat \ {0} /\ TimeoutTicks \in Nat
  /\ Interval \in Nat \ {0} /\ Grace \in Nat /\ MaxTimeoutCount \in Nat \ {0}
ASSUME ReportAssumption ==
  /\ ReportQueueSize \in Nat /\ CacheTTL \in Nat /\ OfflineTimeout \in Nat /\ MaxReportTime \in Nat
  /\ \A p \in ReportPlans : /\ p.reports \in Nat /\ p.edits \in Nat
                            /\ p.ids \in Seq(Nat) /\ \A i \in DOMAIN p.ids : p.ids[i] \in 1 .. Len(p.ids)

configVars == <<
  configPlan, config, releases, rules, logs, configRequest, pushes, lock,
  configNow, grants>>
pushVars == <<
  pushPlan, online, subscribers, writer, pushRows, pushCall, push, messages,
  arrived, pushRestarts>>
alertVars == <<
  alertPlan, alertNow, table, loaded, fired, visit, edits, alertRows, cache,
  alertCall, queue, retry, sending, history>>
taskVars == <<
  taskPlan, taskRows, bound, groups, entries, registry, taskRequest, sent,
  executions, taskRestarts, taskCrossed>>
shardVars == <<
  shard, count, silent, timeouts, used, closed, wheel, clock, checker,
  closing, shardCrossed>>
reportVars == <<
  reportPlan, reportNow, machine, channel, reported, device, had, hwCache,
  once, saver, changes, reportEdits, last, metEnd, byHand,
  deployTask, deployRun, deployLogs, viewer, shown>>
vars == <<part, configVars, pushVars, alertVars, taskVars, shardVars, reportVars>>

\* The parts that do not run stay in an initial state.
Init ==
  /\ part \in {"config", "push", "alert", "task", "shard", "report"}
  /\ C!Init /\ (part # "config" => configPlan = CHOOSE p \in ConfigPlans : TRUE)
  /\ P!Init /\ (part # "push" => pushPlan = CHOOSE p \in PushPlans : TRUE)
  /\ A!Init /\ (part # "alert" => alertPlan = CHOOSE p \in AlertPlans : TRUE)
  /\ T!Init /\ (part # "task" => taskPlan = CHOOSE p \in TaskPlans : TRUE)
  /\ S!Init
  /\ I!Init /\ (part # "report" => reportPlan = CHOOSE p \in ReportPlans : TRUE)

Next ==
  \/ part = "config" /\ C!Next /\ UNCHANGED <<part, pushVars, alertVars, taskVars, shardVars, reportVars>>
  \/ part = "push" /\ P!Next /\ UNCHANGED <<part, configVars, alertVars, taskVars, shardVars, reportVars>>
  \/ part = "alert" /\ A!Next /\ UNCHANGED <<part, configVars, pushVars, taskVars, shardVars, reportVars>>
  \/ part = "task" /\ T!Next /\ UNCHANGED <<part, configVars, pushVars, alertVars, shardVars, reportVars>>
  \/ part = "shard" /\ S!Next /\ UNCHANGED <<part, configVars, pushVars, alertVars, taskVars, reportVars>>
  \/ part = "report" /\ I!Next /\ UNCHANGED <<part, configVars, pushVars, alertVars, taskVars, shardVars>>

\* C!Fairness and A!Fairness, of the part that runs.
Fairness ==
  /\ \A i \in 1 .. Cardinality(Handlers) : WF_configVars(part = "config" /\ C!PushConfig(i))
  /\ \A w \in Notifiers \cup {"retry"} : WF_alertVars(part = "alert" /\ A!Notify(w))

Spec == Init /\ [][Next]_vars /\ Fairness

-----------------------------------------------------------------------------
(* The requests that find an edit lock expired cannot take it from each    *)
(* other (AcquireEditLock deletes, then inserts under a unique index).     *)
LockIsKept == C!LockIsKept

(* Once Unsubscribe has returned, no message about the configuration       *)
(* is written for the client, although pushes run side by side.            *)
NoneAfterUnsubscribe == P!NoneAfterUnsubscribe

(* Two calls of ProcessAlert that both find no alert of a fingerprint do   *)
(* not both create one: the table refuses what the cache let through.      *)
CreatedOnce == A!CreatedOnce

(* The cron library fires what the rows of the tasks say, except for tasks *)
(* that two requests changed at the same time (CronScheduler.UpdateTask).  *)
JobsFollowRows == T!TypeOK /\ T!JobsFollowRows

(* The sharded manager: the counter is the number of sessions although two *)
(* goroutines remove one, and no silent session stays although the wheel   *)
(* loses some of them.                                                     *)
SessionsAreCounted == S!TypeOK /\ S!CountIsExact /\ S!SilentIsRemoved

(* What is on record of a client is what it said: a row of a pushed        *)
(* message (HandleConfigAck), the row of its hardware but for saves that   *)
(* meet, and then no longer than the cache lasts (SaveHardwareInfo); and   *)
(* a page shows the log of a task as its run wrote it                      *)
(* (StreamDeployTaskLogs).                                                 *)
ReportsAreTrue ==
  /\ C!TypeOK /\ A!TypeOK /\ P!TypeOK /\ P!AckedByItsClient
  /\ I!TypeOK /\ I!ReportsAreTrue

(* Every release gets a final status, for which its page listens, and no   *)
(* notification goes round between the notifier's queues for ever.         *)
WorkEnds ==
  /\ part = "config" => C!ReleasesEnd
  /\ part = "alert" => A!NotificationsEnd
=============================================================================
