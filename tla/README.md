# A verification development of quic-flow

quic-flow keeps QUIC connections between one server and many clients, sends
them commands and waits for their answers, alone, as a multicast or in batches,
and builds a release centre, terminals over ssh, file transfer, scheduled tasks,
configuration and alerting on top. This directory holds TLA+ models of the
parts where steps of several actors meet, the TLC configurations that check
them on small instances, and proofs for TLAPS.

Run a check with `tlc -config Promise.cfg PromiseManager.tla`, a proof with
`tlapm RequestProofs.tla`. Modules whose values for TLC are more than a
line have an MC module; the others end with them, or the configuration gives
them.
`PROJECT.json` maps every definition to the lines it models and lists
components, runs, hazards, findings, theorems and mutants. A mutant replaces a
definition by a slip, an operator beside it that a plausible bug would make of
it (`NextTryOffByOne`, `VisitForgets`); each property has one that breaks
it, and other slips in the modules were tried the same way.

## 1. Inventory

| Part | State | Operations | Interacts with | What is hard | What makes it correct |
|---|---|---|---|---|---|
| Promise manager, `pkg/callback` | map of message ID to promise, an atomic counter, removal channel, a timer for each promise | Create, Complete, Fail, Timeout, delayed removal, cleanup, Stop | server, command manager, batch executor | answer against timer against both removal loops; counter beside the map | one answer per waiter, nobody forgotten, entry found while somebody waits, counter follows map |
| Session manager, `pkg/session`, with the handlers of `pkg/transport/server` | map of client ID to session, counter, heartbeat times | Add, Remove, UpdateLastHeartbeat, checkHeartbeats, CloseAll, handleConnection, handlePing, Stop | client, promise manager | two connections of one client; the checker acts on what it read before | no session without a handler, a live session is lost to nothing but its sibling, the silent ones go |
| Sharded sessions and time wheel, `pkg/session` | shards, counter, wheel | Add, Remove, heartbeats, checkers, CloseAll | tests only | two expiry mechanisms for one session; the counter is set to 0 by CloseAll | counter is the number of sessions, silence is noticed |
| Dispatcher, `pkg/dispatcher` | task channels, round robin index, workers, response channels | Dispatch, DispatchByHash, DispatchSync, batches, Stop | stream handlers, message handlers | full queues, contexts that end, channels closed by a batch that fails | a message is processed once, in order where order is promised, callers return |
| Messages, `pkg/transport` | streams, promises, callbacks of commands and their listeners | SendTo, SendToWithPromise, AsyncSend, Broadcast, SendMessage, WaitForCallback | dispatcher, promise manager, command handler | a handler that outlives the timeout of its answer; clients leave while a broadcast runs | an acknowledgement says what became of the message; both ends come to an end |
| Client, `pkg/transport/client` | state, current connection, failure count, `disconnectCh` | Connect, dial, reconnectLoop, heartbeatLoop, receiveLoop, Disconnect | server's session map | old loops act on the current connection; one signal for many causes | a lost connection is noticed and replaced, the wait never shrinks, Disconnect returns |
| Command manager, `pkg/command` | map of commands, multicast tasks | SendCommand, SendCommandToMultiple, CancelMultiCommand, cleanup, Stop | promise manager, client's handler | cancel, timeout and answer race; a result slice read while workers write it | completed was executed, counters fit results, the call returns |
| Batch executor, `pkg/batch` | job status and counters, semaphore, results | Execute, ExecuteSync, CancelJob, job timeout, Stop | server, command payloads | retries against late answers; the job ends while tasks still run | counters add up, no client is asked too often, the job ends |
| Deploy tasks, `pkg/release/api` | one row for each task | create, start, cancel, pause, promote, roll back, and the goroutines behind them | remote executor, callbacks | every writer saves the whole row it read earlier | canaries first, completed means deployed, strategies stop a run |
| Release engine, `pkg/release/engine` | one row for each release, results of targets, commands under way | create, approve, start, cancel, promote; rolling, canary, blue-green | remote executor, clients | parallel targets save one row; cancel touches the row only | canaries before the rest, success means deployed, every wait has a deadline |
| Callbacks, `pkg/release/callback` | retry queue, pending map, history rows, semaphore | trigger, send, enqueue, workers, scheduler, retry by hand | deploy tasks, chat services | a task is in the queue and in the pending map at once; its counter has no lock | messages are bounded, success was received, the queue falls quiet |
| Webhooks, `pkg/release/webhook` | webhook row, triggers, rate limit windows | IncomingWebhook, edits, Allow, cleanup | versions, deploy tasks | edits between the statements of a delivery | a deploy task comes from one wanted delivery, limits hold |
| Catalogue, `pkg/release/api` and `credential` | rows of projects, environments, targets, versions, variables, credentials, members | create, update, delete, link | deploy tasks, engine | check and write in separate statements | rows break only by a race that took place |
| Configurations on their way, `models/config_merge.go`, `executor/remote.go` | version, project, task override | merge, preview, build parameters | deploy tasks, clients | three layers, two copies of fields, edits meanwhile | clients of a run get one configuration, the highest layer wins |
| Commands at a host, `pkg/router/handlers` | containers, work directories, git trees, backups | container.deploy, container.collect, release.execute, release.check, gitpull.deploy, git.versions | docker, git | a script stops anywhere; two commands in one directory | a container goes only for a command that took it; the old tree is kept |
| Git client, `pkg/git` | key files, GIT_SSH_COMMAND | FetchVersions | git | one variable for the whole process | git runs with another key only beside its request |
| ssh over QUIC, `cmd/server/ssh.go`, `pkg/ssh` | connections, their mutexes, streams, commands | Connect, Exec, ExecOneShot, shells, Disconnect, Close, HandleStream, Stop | terminals | Close keeps the manager's mutex; a stream let in before Stop | calls return, nothing runs after Stop |
| Web terminals, `pkg/api/terminal_api.go`, `pkg/audit` | PTY sessions, pumps, line buffer | HandleWebSocket, ClosePTYSession, saveCommand | ssh, audit stores, recorder | two closers of one session | whoever waits for the cleanup is served, no command line is lost |
| Audit stores, `pkg/audit` | file, files, table; append handle | Save, Query, DeleteOldRecords | terminals, API | rewriting the file lines are appended to | lines of the days to keep stay |
| Recordings, `pkg/recording` | cast and meta files, rows | record, get, stream, delete, cleanup | terminals, API | recorders do not take the lock; Delete takes it twice | a running recording keeps its file; requests end (they do not: section 4) |
| Task hub, `pkg/api/task_ws_api.go` | clients, broadcast queue, send channels | register, broadcast, pumps | scheduled tasks | a slow browser | notices without a hole |
| File transfer, `pkg/filetransfer`, `pkg/api/file_api.go` | tasks, queue, workers, chunks, stored files, quota | create, upload, complete, cancel, store, restart | HTTP API | chunks out of order against completion and cancel | complete is whole, quota holds, queued work ends |
| Scheduled tasks, `pkg/task` | rows, groups, cron entries, registry | create, update, enable, delete, trigger, dispatch, restart | clients | update is remove and add | cron fires what the rows say |
| Configuration centre, `pkg/configcenter` | configuration, releases, rules, logs, lock; subscribers, versions sent | create, update, release, roll back, gray rules, lock; subscribe, publish, acknowledge | clients | whole rows written back; publications side by side | a lock is not taken away, nothing follows an unsubscription, releases end |
| Alerting, `pkg/alert` | compiled rules, cache of alerts, rows, two queues | evaluate, process, resolve, expire, notify; handlers | monitoring, chat services | cache and rows change apart | one alert for a fingerprint, notifications end |
| Reports, `pkg/hardware`, task logs | channel, row of a device, cache of its hash, history; log rows | report, save, mark offline, delete; follow a log | clients, command results, web interface | two savers of one row and one cache; a poll by random ids | the row is what the client said last; a page misses no log it could show |
| Accounts, `pkg/auth` | users, roles, menus, tokens | register, create, update, delete, login | every handler | uniqueness checked before it is written; deletion only marks | rows break only by a race; an active user is served |
| Lists and statistics, all handlers | tables, pages | list, count, report | web interface | count and page are two statements, pages are requests | a row is missed or repeated only for a cause |
| Collectors, profiling, scripts, pools, configuration, monitoring, command lines, web interface | mostly none of their own | I/O, conversion, CRUD | | | left out, see section 8 |

## 2. Modules and plan

Built so far, in this order:

1. `PromiseManager` with its abstract contract `ReplyOnce`: everything that waits for a client rests on it.
2. `SessionManager`, `Dispatcher`, `ReconnectClient`: who is online, how messages are processed, the other end of a session.
3. `CommandManager`, `BatchExecutor`.
4. `DeployTask`, `ReleaseEngine`: rows written by overlapping requests and goroutines.

   The theorems about the modules up to here are in the modules `...Proofs`
   (section 7): those about the two ends of a request, those about the two
   ends of a connection and those about commands and batches of them share one
   each.
5. Round the release centre: `Callbacks`, `Webhooks`, `RateLimiter`, `Catalog`, `DeployConfig`, `Accounts`, `Listings`, `HostDeploy`, `GitPull`, `GitClient`, and `ReleaseCentre`, which puts them together; the theorems about the first three are in `ReleaseCentreProofs`.
6. Keeping state for clients: `ConfigCenter`, `ConfigPush`, `Alerting`, `TaskScheduler`, `ShardedSessions`, `Reports`, and `Management`, which puts them together and has its theorems in `ManagementProofs`.
7. Reaching a client: `Messages`, `SSHConnections`, `TerminalSessions`, `AuditStores`, `Recordings`, `TaskHub`, `FileTransfer`, and `RemoteAccess`, which puts them together and has its theorems in `RemoteAccessProofs`.

The first seven components and the engine have a run of their own. The modules
of 5, 6 and 7 share three: `ReleaseCentre`, `Management` and `RemoteAccess`
instantiate each of them with its own variables (`MCReleaseCentre`,
`MCManagement` and `MCRemoteAccess` give their constants their values), and the
variable `part`, which never changes, says which one a behaviour runs; the
others stay in one initial state. The state space of such a run is the disjoint
union of those of its parts, so nothing is lost against separate runs, and the
properties of a run are conjunctions over its parts. The modules of a run share
no state in the code either: what one needs of another (a client that answers,
a target that is deployed) is an outcome chosen in it.

## 3. How the modules correspond to the code

*A step is one atomic operation on shared state*: one call on a `sync.Map` or
an atomic counter, one critical section, one channel operation, one database
statement, one command of a script. What a goroutine does between two of them
on its own data belongs to the step. Variables that only properties read are
histories and marked so. Where requests are chosen beforehand, `plan` holds
them: it is one of `Plans` and never changes, so a run covers many small
scenarios, each with all of its interleavings.

**PromiseManager.** `promises` is the `sync.Map`, `count` the counter beside
it, `delayedRemoveCh` the channel. `CheckCapacity`, `Store` and `CountUp` are the three
accesses of Create; `Send` and what follows are the callers in `server.go`.
`TimerStep` is the goroutine of `time.AfterFunc`: hook, removal, Timeout.
`Settle` is the critical section of Complete, Fail and Timeout. `TakeDelayed`
and `RemoveDue` are `delayedRemoveLoop`, `CleanupVisits` and `CleanupRemoves`
the two passes of `cleanup`. `ReplyOnce` is the contract: a request is refused,
or waits and is then answered once.

**SessionManager.** A session is identified with its connection. The steps of
`handleConnection` follow the state of `handler`; `PingStamps` and `PingResets`
are the two stores of a heartbeat; `CheckerStep` walks over the map as
`checkHeartbeats` does, with a pause between reading a session, closing it and
removing its ID. Time passes in ticks of the checker.

**Dispatcher.** `Enqueue` is the select in Dispatch, `Take`, `Finish` and
`Exit` the worker, `Collect` the loop that waits for responses. The
single-queue dispatcher is the instance with `QueueConfig = 1`.

**ReconnectClient.** `loop` is the position in reconnectLoop, `dialer` who is
inside dial, `signal` the content of `disconnectCh`, `owed` the goroutines
between setting the state and giving the signal. `heartbeatLoop` and
`receiveLoop` read `c.conn` again in each step, as the code does. The server is
its session for this client: it refuses a second one and expires a silent one.

**Messages.** A copy `<<k, c>>` is the message of call `k` between the server
and client `c`. `Dispatch` and `Work` are the receiver's queue and workers,
`Handle` its handler, `GiveUp` the processing timeout of `receive.go` while the
handler runs on; `Spawn`, `SendOne` and `Join` are Broadcast with its tokens;
`LookUp`, `Listen` and `StopListening` are `WaitForCallback`.

**CommandManager.** `worker[i]` is the goroutine for client `i`, `cmd[i]` its
command's status, `promise[i]` what the waiter gets, `exec[i]` what the client
did. The canceller first marks the task, then cancels the context, then checks
and updates each command in two critical sections.

**BatchExecutor.** `step` and `next` are `executeJob`, `taskWorker[i]` is
`executeTask` with its retry loop, `sem` the semaphore, `current` and `old` the
messages on the way to a client for the current attempt and for earlier ones.

**DeployTask.** Request `r` reads the row (`Read`), writes its copy (`Start`,
`Cancel`, `Pause`, `Promote`) and may go on as a goroutine with that copy:
`Prepare` chooses the clients, `Mark`, `Deploy` and `Record` handle one of
them, `Stop` is the failure strategy, `Finish` the end; `Undo` and `UndoEnd`
are `rollbackDeployTask`, whose loop passes over clients without an outcome
(`NextTouched`), `AutoRollback` is `autoRollbackClient`. A Save
replaces the row as a whole.

**ReleaseEngine.** `pc[r]` is where request `r` is, and then the execution it
launches; `copy[r]` its copy of the release, which the goroutines of its
targets share; `row` is the database. `todo[r]` and `rest[r]` are the targets
still to do, before and after the canaries; the slices of the code, which
divide the list in its order, are the first so many of such a set (`First`,
`Batch`). `work[r][t]` is the goroutine of a target: it sends a command
(`cmd[r][t]`), polls it to its deadline, writes its result into the shared copy
and saves a snapshot of that. `judged` says that an execution has passed its
canaries.

**Callbacks, Webhooks, RateLimiter.** `sender[d]` is the goroutine of one
event, `late` an answer that came after its timeout, `queue` and `pending` the
two places of a retry task, whose `attempts` all workers change without a lock.
A delivery goes step by step from its token to a deploy task, while the webhook
is edited. `Allow` and `cleanup` are steps under one mutex.

**Catalog, Accounts.** One row, or the members of one project, and three
requests whose statements interleave; `races` collects which pairs of requests
met, which is what the properties explain damage by.

**DeployConfig, HostDeploy, GitPull, GitClient.** `Merged` is
`config_merge.go`, `got[c]` what arrives at client `c`. `Script` is the list
of commands `BuildDeployScript` writes; it may stop after any of them. A git
tree is what is checked out, the branch it is on, the local and the fetched
commit; backups are named by the second. `sshKey` is GIT_SSH_COMMAND.

**Listings.** A `Lister` says what a handler filters by, orders by, does with
the size of a page and answers as the total, and each handler is one record;
a report is the list of its statements. One action walks the pages, others
write rows in between.

**ConfigCenter, ConfigPush, Alerting, TaskScheduler, ShardedSessions.** Each
call of a store is a step. In `ConfigPush` the mutexes of a configuration are
`writer` and the publications that hold it for reading. `Alerting` has the
processor's cache and the rows apart, and the notifier's two queues.
`TaskScheduler` keeps gorm's rule that zero fields of a struct are not written.
`checker` and `wheel` are the two loops of the sharded manager.

**Reports.** `channel` is `hardwareReportChan`, `saver[s]` a call of
`SaveHardwareInfo`, by the goroutine that reads the channel (`"report"`) or by
that of a command's result; it goes from the cache to the row and back in the
order of the code, and notes in `met` whether another save was under way
meanwhile. `viewer` is a page that follows `logs`; `viewer.last` is `lastID`,
compared with ids that are random.

**SSHConnections, TerminalSessions, AuditStores, Recordings, TaskHub.** `mu`
and `holder` are the mutexes of manager and connection; `served`, `device` and
`stopper` are the client's side. `marked`, `done` and `cleaned` are the three
channels and flags round ClosePTYSession. `handle` says whether the open file
is still the one that is read. `send` and `closed` are the channels of a
browser, which only the hub closes.

**FileTransfer.** `task` is the object that worker, handlers and cancellation
write, `row` its image in the database, `session` the chunks, `files` and
`transferDisk` the storage with its content hashes.

## 4. What the runs check

Most of the invariants that join several facts contain `TypeOK` of their modules,
which also bounds channels, tokens and counters; in the first ten runs of the
table it is a theorem (section 7).

| Run | Properties | What it shows |
|---|---|---|
| `promise` | WaitingIsFound | no queued or repeated removal takes away the promise of a waiting caller |
| | CountTracksMap | the counter is the size of the map, whichever of the four removals comes first |
| | EachIsServed | every caller is answered, every settled entry leaves the map |
| | ImplementsReplyOnce | the manager implements the contract: one answer, refused or answered |
| `session` | SessionsAreSound | a registered session has a handler that will remove it, one in use is lost only to another connection of its client, the checker closes only what was silent |
| | SessionsEnd | closed sessions leave the map and silent ones are closed |
| `dispatcher` | TasksAreKept | no message is lost, duplicated or processed after it was refused; one worker keeps their order |
| | TasksAreServed | accepted messages are processed, waiting callers return |
| `client` | ReconnectIsOwed | whenever the client is not connected something will make it try again |
| | BackoffNeverShrinks | the wait grows from failure to failure up to the maximum |
| | ClientGoesOn | it gets a session again, and Disconnect ends |
| `command` | AnswersAreTrue | completed comes from a client that ran the command; a task that succeeded has all its results; counters fit the workers that were started |
| | MulticastReturns | the call returns whatever the clients do |
| `batch` | CountsAddUp, EndIsExact | the counters fit the results at every moment and are exact when the job has ended by itself |
| | RunsAreEarned | success means executed; a client runs the command at most `MaxRetries + 1` times |
| | JobEnds | the job ends |
| `deploy` | DeploysAreSound | canaries first; completed means a success for every client and the new version unless rolled back; counters and results fit; *abort* and *pause* stop at the first failure |
| | EventuallySettled | the task leaves *running*, whichever copy is saved last |
| `release` | ReleasesAreWhole | canaries before the rest; success means deployed; blue-green succeeds on all targets or not at all |
| | StartsAreAllowed | no execution without approval, none after a cancellation nothing was under way at |
| | EventuallySettled | a running release ends or pauses unless the server crashes |
| `remote_access` | RecordsAreKept | no command line is lost before its time, no running recording loses its file |
| | NothingRunsAfterStop, NoneHangsUpOnACommand | Stop of the client's ssh server waits for all; a connection is not closed under a command of another call |
| | WaitersAreServed | both closers of a terminal are served; acknowledgements and broadcasts say what became of the messages |
| | NoGaps | a browser sees the notices of tasks without a hole, or is dropped |
| | FilesAreWhole | an upload said to be complete is whole, the quota is kept |
| | CallsReturn | ssh calls return, queued uploads get an outcome, messages end at both ends |
| `management` | JobsFollowRows | cron fires what the rows say unless two requests for one task met |
| | SessionsAreCounted | the counter of the sharded manager, and no silent session stays |
| | LockIsKept, NoneAfterUnsubscribe | edit locks and subscriptions of the configuration centre |
| | ReportsAreTrue | delivery rows say what their own client said; so does the row of a device unless saves met, and then no longer than the cache lasts; a page ends with every log it could still show |
| | CreatedOnce | two reports of a new alert create one |
| | WorkEnds | releases of a configuration and notifications end |
| `release_centre` | DeliveriesAreAccounted | messages of a callback are bounded and success was received; a deploy task has one wanted delivery; rate limits hold |
| | CommandsAreAsConfigured | the highest layer wins and all clients of a run get one configuration; containers, trees and keys at hosts and server are as answered |
| | OnlyRacesBreak | rows, accounts, pages and reports go wrong only where the race that explains it took place |
| | CallbacksFallQuiet | every callback gets through or is given up |

One run shows a property violated, with the shortest behaviour TLC finds:
`recording_delete`. `Delete` (`recording/store.go:266`) takes the lock of the
store and calls `Get`, which takes it again for reading: the request never
ends, nor does any later one for a recording. It runs the recordings alone
(`RecordingSpec` of `MCRemoteAccess`), with fairness for each request. The comment in line 261 says that
it deletes a recording.

*OnlyRacesBreak* and *JobsFollowRows* are conditional by intent: these handlers
do break under races, and the property says that nothing else breaks them, with
each race named. A new path to the same damage violates them.

## 5. Bounds, and why they are enough

- `promise`: two promises, capacity one, two callers, one responder, a removal
  channel with room for one. Two promises are what a stale removal, a lost
  place in the map and the capacity race need; with room for one the channel is
  both full and not full.
- `session`: two connections of one client, of which the second sends no
  heartbeat but its first (`QuietSpec`), a gap of one tick, two timeouts. All
  hazards are between two sessions of one ID; two timeouts are the least with
  which a counter can be reset between them.
- `dispatcher`: two batches of two messages, three queues configured for two
  workers, room for one. This fills queues, makes callers block, and exercises
  the cap on the number of queues.
- `client`: three connection numbers, one heartbeatLoop kept, two network
  faults, a backoff that doubles once before its maximum. `MaxReceivers` and
  `MaxOwed` cap goroutines that all do the same thing. Jitter is zero here: it is
  added after the cap and only changes the length of one wait.
- `command`: two clients; only the first has an execution that fails
  (`OneFails`, they are interchangeable), and the cleanup, which comes half an
  hour after the end, waits for everything else (`LateCleanup`).
- `batch`: three clients, one token, one retry: the third client waits for a
  token through two others, and an answer can be late by one attempt.
- `deploy`: two clients, three requests of any kind, and three configurations:
  a canary with *continue*, a canary with *abort* and automatic rollback, and a
  webhook's task without results with *pause*. Three requests let two starts, a
  promotion, a pause, a cancel or a rollback overlap with the goroutines of the
  others.
- `release`: two targets and eleven plans, each with one to three requests, a
  crash or targets that may be deleted. Two targets are both parallel and one
  after the other; the plans cover each strategy, each way to name canaries and
  each kind of executor.
- `remote_access`: three ssh calls in four plans; one terminal with two command
  lines; two audited sessions over three days; one recording and two requests;
  two browsers, four notices, room for two; two transfers, two requests, a queue
  with room for one, one restart; two messages to two clients over queues with
  room for one and one token. Each queue is full and empty, each timeout comes
  before and after its answer.
- `management`: four requests to the configuration centre (a lock has to
  expire and be taken twice), three calls and two publications over two keys
  with a restart, three calls about one alert, three requests about two tasks
  with a restart, two sessions of one client in one shard; two reports, a
  command's result and a request about one device, or three reports without a
  request (two that meet, one that trusts the cache, one after it), and three
  logs whose ids are in four orders.
- `release_centre`: four setups of callbacks with up to three attempts; two
  deliveries of a webhook and an edit; two requests in a window; three
  requests to rows and accounts; all settings of one field in three layers;
  tables of three or four rows read in pages of two or three, with one write;
  two or three commands at a host; two requests to git. Pages of 20 and
  100 rows are 2 and 3 here: what matters is that a table has more than a page
  and that a client may ask for more than the cap.

Deadlock checking is off in all configurations: each system comes to rest when
the callers are served, the clients are gone or the manager is stopped.

## 6. Fairness

Only goroutines, timers and tickers of the program are fair, weakly: the Go
scheduler runs what can run, and no step that is assumed fair waits for a peer.
Nothing makes a client answer, connect, ping or leave, a network fail or
recover by choice, an operator cancel, or the server stop. Remote executions of
`DeployTask` and attempts of `BatchExecutor` end because they have timeouts,
commands of `ReleaseEngine` because their polling has a deadline. In
`CommandManager` and `DeployTask` fairness is stated once, for the union of
the goroutines' steps: this is less than the scheduler gives, and enough,
because none of these goroutines runs for ever. In `ReconnectClient` a dial
that is not disturbed any more succeeds, and disturbances are bounded by
`MaxFaults`; without either assumption a client need not get its session.
`Messages` takes for granted that a handler ends, as each has a time limit of
its own; `SSHConnections` that commands end, and says so in *CallsReturn*. In
the shared runs fairness is that of the part that runs; parts with safety
properties only have none.

## 7. What is proved

Each proof module shows the same three things of one inductive invariant: `Init`
implies it, every step keeps it (one lemma for each conjunct and one case for
each action, or one lemma for each action and a step for each conjunct), and it
implies the property. The strengthened invariants were first
checked as invariants of the runs. Nothing is assumed but the ASSUME of the
component's module, which TLC evaluates in its run.

| Module | Assumption | Invariant | Properties of runs proved |
|---|---|---|---|
| `RequestProofs`: promises | `PromiseAssumption` | `WInv`, `CInv`, `AInv`, `BInv` | WaitingIsFound, CountTracksMap, the safety part of ImplementsReplyOnce |
| `ConnectionProofs`: sessions | `SessionAssumption` | `SInv` | SessionsAreSound |
| `RequestProofs`: dispatcher | `DispatcherAssumption`, `FreeAssumption` | `DInv` | TasksAreKept |
| `ConnectionProofs`: client | `ClientAssumption` | `RInv` | ReconnectIsOwed, BackoffNeverShrinks |
| `CommandProofs`: multicast | `CommandAssumption` | `CInv` | AnswersAreTrue |
| `CommandProofs`: batch | `BatchAssumption` | `BInv` | CountsAddUp, EndIsExact, RunsAreEarned |
| `DeployTaskProofs` | `DeployAssumption` | `DInv` | DeploysAreSound |
| `ReleaseEngineProofs` | `EngineAssumption` | `EInv`, `Permitted` | ReleasesAreWhole, StartsAreAllowed |
| `RemoteAccessProofs` | `SshAssumption`, `TerminalAssumption`, `AuditAssumption`, `RecordingAssumption`, `HubAssumption`, `TransferAssumption`, `MessageAssumption` | `RemoteInv` | RecordsAreKept, NoneHangsUpOnACommand, NothingRunsAfterStop, WaitersAreServed, NoGaps, FilesAreWhole |
| `ManagementProofs` | `ConfigAssumption`, `PushAssumption`, `AlertAssumption`, `TaskAssumption`, `ShardAssumption`, `ReportAssumption` | `ManagementInv` | JobsFollowRows, SessionsAreCounted, ReportsAreTrue, LockIsKept, NoneAfterUnsubscribe, CreatedOnce |
| `ReleaseCentreProofs` | `CallbackAssumption`, `HookAssumption`, `LimitAssumption` | `DeliveriesInv` | DeliveriesAreAccounted |

### Promise manager

`RequestProofs` proves for any number of promises, responders and
callers, any capacity and any size of the removal channel, from
`PromiseAssumption` alone:

| Theorem | Statement |
|---|---|
| TypeCorrect | every variable keeps its type, the removal channel its capacity |
| WaitingAlwaysFound | `[]WaitingIsFound` |
| CounterExact | `[]CountTracksMap` |
| OneAnswer | `[]AnsweredOnce`: Complete, Fail and Timeout send a waiter exactly one response |
| OvershootAtMost | `[]OvershootBounded`: concurrent Creates pass the capacity by at most `MaxCallers - 1` |
| AnswersOnceOnly | `Contract!Safety`: what the callers see is a behaviour of `ReplyOnce`, without its fairness |

None of these is inductive. *WaitingIsFound* needs to know that an ID is in the
removal channel, among the pending or the collected ones only if its promise is
settled or its timer has fired (`WInv`), because the loops delete by ID without
looking at the promise. *CountTracksMap* is an arithmetic fact about
cardinalities that change by one with every store and delete; `CInv` adds
`Counted` to `WInv`: the set of promises in the map is finite, the counter is
its size less the promises stored and not yet counted, and the map and the
Creates that have passed the check together stay within the overshoot. From
the last part follows *OvershootBounded*. *AnsweredOnce* is inductive together
with the types (`AInv`).

*AnswersOnceOnly* is a step simulation under the mapping `Replies`: CheckCapacity is
*Refuse* or nothing, Store is *Accept*, a critical section of Complete, Fail or
Timeout that finds the promise open is *Reply*, and every other step leaves
`Replies` alone. The mapping tells a waiting caller from one that has not come
yet by its position, so a step that settles a promise must come after its Store:
`BInv` adds this to `AInv` (`AcceptedFirst`: a responder that holds a promise,
a timer that runs and a completed promise belong to a caller whose Store is done). It
holds whatever the IDs; only the theorems about the map need them unique.

Message IDs are assumed to be unique where the
statement says `UniqueIds`, as the callers' UUIDs are; nothing else is assumed.

The two theorems that no run states, OneAnswer and OvershootAtMost,
hold in the instance of `promise` as well: the first follows there from
*ImplementsReplyOnce*, the second has too few promises to fail.

### Sessions

`ConnectionProofs`: *SessionTypeCorrect* and *SessionsAlwaysSound*, for any
connections of any clients, any gap and any maximum of timeouts. The three parts
of *SessionsAreSound* are not inductive, because the checker acts on what it
read two steps before. `Held` says what a step of the checker may still rely on:
the session it holds was stored under the key it holds, was late when it was
read, and is closed before its ID is removed. `Counted` says that a session in
the map with a full count of timeouts is the one the checker is about to close;
without it a count could pass its maximum.
`MapSound`, `Pinged` and `LateMarked` say that only sessions whose Add has
stored them are in the map or stamped, and that silence is remembered.

### Dispatcher

`RequestProofs`: *DispatcherTypeCorrect* and *TasksAlwaysKept*, for any
number of callers, queues, workers and any room in a queue, if the messages of all
callers are different, as their IDs are. `Placed`, `Apart` and `Tallied` say
that an accepted message is in exactly one of queues, workers and `finished`,
and that their sizes add up; `Fresh` that what a caller has not handed over no
queue has. The order of finishing follows from `InOrder`, which orders every pair
of places (finished before the worker before the queue) and needs `Homed`: a
hashed message never leaves its queue. Lemmas on Append, Head and Tail say what
they do to the elements and the order of a sequence.

### Client

`ConnectionProofs`: *ReconnectTypeCorrect*, *ReconnectAlwaysOwed* and the
action property *BackoffMonotone*, for any initial and maximal backoff, any
jitter of at most a quarter and any bounds. `Dialing` ties the dialer to the
position of reconnectLoop. `PingOwed` is what makes *ReconnectIsOwed* inductive: a
connection lost while the loop still waits for the first ping has its signal in
the channel or on the way, so the loop may go to sleep after it. `Waits` bounds
the backoff at the positions it is used at; between they pass the maximum.

### Command manager

`CommandProofs`: *CommandTypeCorrect*, *NoneCountedTwice* and
*AnswersAlwaysTrue*, for any number of clients. `Executed` follows a completion
through the five places it is written to (answer, command, worker, slice of
results, response) back to an execution. `Counted` says that the success count
is the number of results that say completed while workers store results one by
one; `Responded` what the caller copied while workers still write. `Worked` fits
a worker's position to its result, also for those a cancelled loop
has filled in.

### Batch executor

`CommandProofs` proves for any number of clients, tokens and retries,
from `BatchAssumption` alone:

| Theorem | Statement |
|---|---|
| BatchTypeCorrect | every variable keeps its type; tokens, counters and messages on the way stay within their bounds |
| ConcurrencyHolds | `[]ConcurrencyBounded`: at most `MaxConcurrency` clients are served together |
| CountersExact | `[]CountsAddUp` |
| EndHasAllResults | `[]EndIsExact` |
| SuccessIsReal | `[]SuccessWasExecuted` |
| ExecutionsBounded | `[]RunsBounded` |
| RunsAlwaysEarned | `[]RunsAreEarned`, the last two together |

They follow from one invariant, `BInv`. `Tallied` says that tokens and counters
are the cardinalities of sets of clients, which a step changes by one element
or not at all. `Recorded` ties a client's result to the position of its worker,
which makes those sets fit together, and says that no worker is started twice.
`Attempted` counts messages delivered and on the way against attempts begun: it
is needed because a late message is executed long after its attempt.
`Earned` follows a success from the answer through the worker to the result.
`Concluded` carries what the job's goroutine knows after `wg.Wait()` past a
cancellation or a timeout. The first two have no run of their own: `Batch.cfg` with either added finds no
error.

### Deploy tasks

`DeployTaskProofs`: *DeployTypeCorrect* and *DeploysAlwaysSound*, for any list of
different clients, any configurations and any number of requests. Every request has a
copy of the row and saves it as a whole, so each fact about the row is a fact
about all copies under way (`Phases`, `Share`, `Passed`, `AccountOf`): whichever is
saved last, the row has it. `Phases` says that only a start or a promotion
deploys, and on which statuses; `Share` that a run before any promotion holds
canaries only; `Passed` that a run over all clients without a failure has left a
success and the new version behind for everyone it has passed, from which
*CompletedIsDeployed* follows in `Finish`. `Accounted` is the arithmetic of the counters: until
a promotion each client is counted once, because the results of the clients a run
has still to do are *pending* or *running* in its copy. `Unfailed` says that a
run which stops at a failure has none behind it. After a promotion the counters
are not those of the results (section 9, *PromotesTheRest*), and nothing is
claimed.

### Release engine

`ReleaseEngineProofs`: *EngineInvariant*, *ReleaseTypeCorrect*,
*ReleasesAlwaysWhole* and *StartsAlwaysAllowed*, for any list of different
targets, any plan and any number of overlapping requests. *StepKinds* first
reduces the steps to nine kinds (a handler, the four steps of an execution between
batches, the step of a target's goroutine, a deletion, a restart, none), and
each conjunct of `EInv` is shown for the kinds. Saves overtake each other, so
`Honest` says of the row, every copy and every snapshot under way that a success
in it has been deployed, and of every command that an answer *ok* means so;
with `GoalKept`, that a target which has what the operation leaves keeps it,
whoever deploys to it next. `Covered` says that a target an execution owes a
result is to be done, being done or done, from which the verdict on the
canaries and the success of a blue-green release follow at the end of their
batches; it is claimed for canary releases only up to that verdict, because the
code does not look at the others. `CanaryChosen` says that the canaries are among
the first batches whatever has been deleted. `Placed` and `Worked` say who
holds a copy and with which status. For *StartsAlwaysAllowed*, `Permitted`
carries what StartRelease has read of the approval to its save; *CancelledStays*
follows because a goroutine works only within an execution (`Placed`).

### Remote access

`RemoteAccessProofs` proves all the safety properties of the run
`remote_access`, each for any constants with the assumptions: any calls with any
plans, terminals, sessions, requests, browsers, transfers, clients, and any
room in the queues. `RemoteInv` is the conjunction of an invariant for each
part. *PartsStep* says that a step of one part leaves the others alone, so each
part's lemma about its own steps is enough.

| Theorem | Statement | Rests on |
|---|---|---|
| RemoteInvHolds | `[]RemoteInv`, which includes the types | all of the following |
| NeverHangsUp | the action property *NoneHangsUpOnACommand* | `SshInv` |
| NothingRunsOnceStopped | `[]NothingRunsAfterStop` | `SshInv` |
| RecordsStay | `[]RecordsAreKept` | `TerminalInv`, `AuditInv`, `RecordingInv` |
| WaitersServed | `[]WaitersAreServed` | `TerminalInv`, `MessageInv` |
| NoNoticeIsSkipped | `[]NoGaps` | `HubInv` |
| CompletedFilesAreWhole | `[]FilesAreWhole` | `TransferInv` |

- `SshInv`: a connection is numbered by the calls that have opened one so far
  (`Opened`), a one-shot call has its connection for itself (`OwnConnection`),
  and whoever runs a command or hangs up on a listed connection is its `holder`
  (`HoldersSound`), so two of them are never on one connection.
  *NothingRunsAfterStop* needs that the context is cancelled from the first
  step of Stop on (`StopCancels`).
- `TerminalInv`: a caller of ClosePTYSession that waits has left a cleanup that
  is still to be done or over (`Closing`, `Cleaning`), so it is not forgotten
  whichever of handler, operator and shell comes first. *CommandsAreLogged* is
  inductive with it.
- `AuditInv`: no line in a session's file is younger than the file
  (`NoneIsYounger`), so a file that is old enough to go has only lines that are,
  and no append goes to a file that has been replaced (`orphan`).
- `RecordingInv`: who walks over the store to delete has its lock
  (`LockIsHeld`), and a recording that has not ended has no metadata to be found
  by (`UnfinishedIsUndescribed`).
- `HubInv`: with each notice numbered in its turn, what a browser has been shown
  and what waits for it are the numbers from its first one on, up to what the
  hub has handed out (`Shown`).
- `TransferInv`: an upload counts as done only when its whole content is stored
  (`WholeIsThere`), the chunks received are increasing numbers among those
  committed (`InOrder`), so as many as there are can only be all of them, and
  the sizes of a user's files stay within the quota. The quota adds sizes with the
  fold of the community modules. `Total` is the same sum as a function on the
  subsets of a finite set; that it exists, does not depend on where it is
  defined and changes by the size of what is added or removed (*SumExists*,
  *SumsAgree*, *TotalAdd*, *TotalRemove*) is shown by a smallest subset that
  would have it otherwise (*LeastSet*).
- `MessageInv`: where a copy of a message stands, at its sender, under way, in a
  queue, with a handler, with its answer, agrees with what caller, promise,
  broadcast and callback believe (`CopyInv`, `CallInv`, `PromiseInv`,
  `ListedInv`), no message is queued twice (`QueuedOnce`), and a broadcast never
  sends to more clients together than it has tokens (`TokensKept`).

### Management

`ManagementProofs` does the same for all the safety properties of the run
`management`: any requests, clients, publications, rules, tasks, sessions and
reports, and any lengths of queues, timeouts and bounds. `ManagementInv` is the
conjunction of an invariant for each service, and *PartsStep* again says that a
step of one leaves the others alone.

| Theorem | Statement | Rests on |
|---|---|---|
| ManagementInvHolds | `[]ManagementInv`, which includes the types | all of the following |
| LockKept | the action property *LockIsKept* | `ConfigInv` |
| QuietAfterUnsubscribe | the action property *NoneAfterUnsubscribe* | `PushInv` |
| AlertCreatedOnce | the action property *CreatedOnce* | `AlertInv` |
| SchedulesFollow | `[]JobsFollowRows` | `SchedInv` |
| SessionsCounted | `[]SessionsAreCounted` | `ShardInv` |
| ReportsTrue | `[]ReportsAreTrue` | `ReportInv`, and the types of the first three |

- `ConfigInv`: what a request carries from one statement to the next
  (`Carries`). A lock has not been granted more often than there are requests
  that got it (`Granted`), which bounds the counter by a cardinality.
- `PushInv`: a delivery said to have arrived was acknowledged by its own client
  (`AckedByItsClient`), and whom a push has still to write to is subscribed at
  that moment, because a push keeps the read lock while it sends and
  Unsubscribe waits for it.
- `AlertInv`: a call between the insertion of a row and the entry in the cache
  is the only one of its fingerprint there (`Inserted`), since the table refuses
  the second row and none is taken out of it.
- `SchedInv`: each job of the registry is an entry of cron, and each entry is
  registered or about to be by exactly one request (`Registered`). The rest is
  per task (`Followed`): two requests that change one task have met and it is
  marked as crossed; otherwise row and entries agree as far as the one request
  at work has come (`InStep`), and entirely when there is none (`Settled`).
- `ShardInv`: the counter lies between what can have been added and removed,
  and is exact unless a CloseAll was met by new sessions (`Counted`). A
  session's silence is bounded by its missed checks times the interval and the
  time since the last one (`Watched`); the products are bounded by lemmas of
  their own (*BoundFacts*), with the number of missed checks as a variable.
- `ReportInv`: of two overlapping saves each knows of the other (`Paired`), so
  a save that met none can rely on what it has read (`OnItsWay`), and row and
  cache differ only by an entry older than the end of saves that met
  (`Trusted`). A page that follows a log has shown its beginning as long as the
  ids grow (`InOrder`), and the run is over before its status says so
  (`Ended`), so the page ends with all of it.

### Release centre: deliveries

`ReleaseCentreProofs` proves the property of `release_centre` about callbacks,
webhooks and their rate limit, *DeliveriesInvHolds* and *DeliveriesAccounted*
(`[]DeliveriesAreAccounted`): for any deploy tasks, workers, attempts, sizes of
the queue, requests by hand, deliveries, payloads and edits, keys and times.
`LimitAssumption` has a block last at least as long as the window, which is so
with every window the code sets (one minute against five).

- `CallbackInv`: the bound on the messages is a potential. `Budget` is what is
  left of `2 + manual + max(max + 1)/2` when the messages received, the first one
  while it is to come and those still to be sent by hand are taken off. The retry
  task of a deploy task has at most two `Entries`: in the map and on its way to
  the channel, in the channel, or with a worker. An entry costs a message
  until its attempt is made, and goes on from the count its worker has read, or
  from the one on record (`Nexts`). `FitsIn` says that two entries, the slower with
  `i` and the faster with `j` attempts left, need no more than what they cost, plus
  `j`, plus `Triangle(i)`: each time the slower one writes the count it read, the
  faster one falls back to it, and has one lap more. *Moved*, *SentOne* and *Bumped*
  are the three things that happen to an entry, proved about numbers and sets
  alone; every action of senders, workers, scheduler and handlers is one of
  them or leaves the entries alone (*Untouched*). That there are only two entries
  follows: Enqueue makes them once, and every step replaces one by one.
  `Successes`: whoever says success or is about to, in a row, as a sender or a
  worker, has had a message through.
- `WebhookInv`: what a request carries when it has been parsed (`Asks`), that a
  task comes from a request that goes on unchanged (`Comes`), and that the
  count of the webhook and the requests about to add to it (`Counting`) stay
  within the records.
- `LimitInv`: a key's window holds all that was let in within its length
  (`Remembered`) or there is none and nothing was (`KeyIsLimited`), whenever the
  cleaner comes; a block that runs is the one the window remembers.

### What stays with TLC

- Liveness: *EachIsServed*, *SessionsEnd*, *TasksAreServed*, *ClientGoesOn*,
  *MulticastReturns*, *JobEnds*, both *EventuallySettled*, *CallsReturn*,
  *WorkEnds*, *CallbacksFallQuiet* and the fairness half of *ImplementsReplyOnce*. The
  prover has neither fairness nor ENABLED.
- Two safety properties of `release_centre`, *CommandsAreAsConfigured* and
  *OnlyRacesBreak*: each is a conjunction over parts that share no state, in
  modules whose instances are bound by the data they enumerate (pages, scripts,
  configurations in layers).

## 8. Abstractions and what is not modelled

In general:

- Messages, commands and payloads are IDs; encoding, logging, metrics and hooks
  are left out, except where a property is about them.
- QUIC is a connection that is open, lost or closed. Streams of one connection
  are reliable; whole connections are not.
- Data races of the code on single words (states, slices of results) are
  interleavings of whole reads and writes.
- The database answers every statement; the failure of a statement, which most
  goroutines ignore, is modelled where a property depends on it (audit stores).
- A crash of the server is modelled in the release engine, file transfer, the
  push engine, the scheduler and the audit stores. Nothing takes up a deploy
  task afterwards: it stays *running* for ever. Tasks in *scheduled* wait for
  a request, as no scheduler starts them.

In particular:

- `DeployTask`: AutoRollback is chosen; its column has the default true.
- `Messages`: the processing timeout of the client is 30 s whatever the
  command allows; Stop of a server amid messages is left out.
- `DeployConfig` stops at the parameters of a command: those fields the
  executor does not carry over (merged scripts, working directory, restart
  limit, CPU shares, platform; command and entrypoint for kubernetes) do not
  reach a client, and the model drops them too. A version edited between the
  canaries and the promotion gives the rest another configuration.
- `HostDeploy`: what docker does is the state of the named container.
  container.deploy ignores its operation and inspects by name; an empty script
  is a success.
- `GitPull`: git is a tree with a head, a branch and two commits; the commit is
  ignored by a clone, and errors of checkout and pull are, as in the code.
- `GitClient`: only *main* and *master* are looked for as the default branch.
- `ReleaseEngine`: releases of the kinds container and gitpull always deploy;
  one of the kind kubernetes never succeeds, as nothing registers its command.
- `Alerting`: the CEL environment of the code declares no variables, so a
  condition is constant or cannot be evaluated; matchesSilence answers false.
  The server constructs neither this nor the push engine of the configuration
  centre, nor the sharded sessions: the models say what whoever does would get.
- `ConfigCenter`: its publication sends nothing (the engine is not
  connected) and ends the release; handlers that write do not look at the edit
  lock; *Save* of a row read before its deletion brings it back.
- `FileTransfer`: downloads are one step; Pause, Resume and the frames of
  `protocol.go` have no caller; deletion is a stub.
- `Webhooks`: signatures never match the form a sender uses (`github=...`), and
  the branch filter compares with the full reference: both are modelled as they
  are.
- `Reports`: one device; the database does not fail; a task that ends as
  *failed* counts as completed.
- `Listings`: filters that a handler accepts and does not apply, totals that
  are another number and pages that are ignored are part of its record, and
  *PagesAreAccounted* makes no promise for those.

Not modelled, with the reason in `PROJECT.json`: what is collected of hardware,
processes and profiles at a host, casbin, captcha
and menus, creation of tables, the setup wizard, client tags, single-statement
CRUD of scripts, groups, snapshots and silences, the text of templates and
scripts, encryption of credentials, codec and frames, buffer pools, loading of
configuration, monitoring, error values, command lines, examples, load test and
web interface. None has a protocol between goroutines or requests.

## 9. Claims that do not hold

Some modules end with claims made by documents, comments or names that the
code does not keep. Put one as INVARIANT or PROPERTY into the configuration
named here and TLC shows how it fails.

| Definition | Configuration | What happens |
|---|---|---|
| PromiseManager!MapWithinCapacity | `Promise.cfg` | concurrent Creates pass the capacity that `data-model.md:381` calls a maximum |
| PromiseManager!HookMeansTimeout | `Promise.cfg` | the timeout hook runs and the acknowledgement still wins (`hooks.go:41`) |
| PromiseManager!ActiveGaugeDrains | `Promise.cfg` | a promise that is hooked and then acknowledged is subtracted twice from the gauge of active promises |
| SessionManager!OnlineIsListed | `Session.cfg` | the late disconnect of an old connection removes the session of the new one, which stays open and unlisted (`server.go:474`) |
| SessionManager!CountIsSize | `Session.cfg` | Stop zeroes the counter while a handler is between Store and Add |
| SessionManager!ClosedAfter45s (property) | `Session.cfg` with `Gap = 3`, `MaxTimeouts = 3`, `AgeBound = 9` | with the defaults a silent client is closed after 25 to 30 s, not 45 s |
| SessionManager!StoppedIsEmpty | `Session.cfg` | a handler stores its session after CloseAll has walked over the map |
| Dispatcher!ClosedChannelIsHandled | `Dispatcher.cfg` | a batch that fails half-way closes response channels on which workers still send, which panics (`dispatcher.go:294`) |
| Dispatcher!FullQueueRefuses | `Dispatcher.cfg` | a full queue blocks its caller instead of refusing (`data-model.md:411`) |
| Dispatcher!ArrivalOrder | `Dispatcher.cfg` | messages overtake each other between queues |
| Dispatcher!HashOrder | `Dispatcher.cfg` with `QueueConfig = 1` | with several workers messages overtake each other within a queue |
| ReconnectClient!OneHeartbeatLoop | `Client.cfg` with `Beats = {h1, h2}` | each reconnect starts one more heartbeatLoop (`heartbeat.go:12`, FR-006) |
| ReconnectClient!EventuallyStable (property) | `Client.cfg` | a receiveLoop of a replaced connection takes down the current one, again and again |
| ReconnectClient!WaitWithinMax | `Client.cfg` with `Jitter <- {0, 1}` | jitter is added after the cap: a wait of 75 s with a maximum of 60 s |
| ReconnectClient!DisconnectedIsClosed | `Client.cfg` | Disconnect closes the current connection and leaves a replaced one open |
| CommandManager!CompletedIsSuccess | `Command.cfg` | a failed execution is acknowledged as a success and reported as completed |
| CommandManager!WaitsForAll | `Command.cfg` | a multicast that is cut short reports clients it did not wait for |
| CommandManager!CancelledAreCounted | `Command.cfg` | clients cancelled before they were sent to are missing in the count |
| CommandManager!CancelsOnlyUnfinished (property) | `Command.cfg` | a command completed between check and update is set to cancelled |
| BatchExecutor!CancelledStays | `Batch.cfg` | a job cancelled before its goroutine starts is set to running and completes (`README.md:604`) |
| BatchExecutor!CancelStopsSending (property) | `Batch.cfg` | a cancelled job goes on sending |
| DeployTask!PromotesTheRest | `DeployTask.cfg` | a promotion deploys to the canary clients again and counts them twice (`release-system-usage.md:455`) |
| DeployTask!CancelledStays (property) | `DeployTask.cfg` | a running goroutine saves its copy over *cancelled* |
| DeployTask!CompletedIsNew | `DeployTask.cfg` | an automatic rollback of an earlier run undoes a client after the task has completed; a task without results completes whatever happens |
| DeployTask!PromotedAfterCanaries (property) | `DeployTask.cfg` | the status is *canary* from the first moment, so a promotion may come before any canary has been deployed |
| Callbacks!FailedWasRefused | `ReleaseCentre.cfg`, by way of `B!` | the assertions on a channel's settings never hold, so a row says failed and the endpoint was never asked |
| FileTransfer!ListedIsThere | `RemoteAccess.cfg`, by way of `F!` | an upload to the path of a file with the same content overwrites and then removes it |
| TerminalSessions!ResourcesReleased | `RemoteAccess.cfg`, by way of `P!` | a session that ClosePTYSession marks first keeps its ssh client and its stream open |
| Reports!ChangesAreRecorded | `Management.cfg`, by way of `I!` | new hardware is compared with the row that has just been written, so its change is not put on record (`hardware/store.go:147`) |

Other disagreements met on the way, which the models follow and no property is
about: `AsyncSend` has no caller that could settle its promise, which can only
time out; the server answers `SendMessage` with a frame the client refuses;
`WaitForCallback` may miss a result between its look and its listening, and
the timeout of one waiter removes the listeners of all; the stream task cannot
be cancelled; `CancelTask` of a file transfer ends as *failed*, and a transfer
refused by a full queue leaves its row *pending*; deleting a scheduled
task whose update overlaps leaves a cron entry behind; the statistics of
alerts reuse one GORM statement; the largest role number of a deleted role
refuses the next one; two concurrent removals leave a project without owners;
`UpdateVersion` may overwrite the count of deployments; a deleted device
that reports again stays deleted; and a page that follows a task asks for ids
greater than the last, which are random UUIDs, so it repeats and leaves out
lines.
