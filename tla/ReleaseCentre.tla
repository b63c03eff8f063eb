--------------------------- MODULE ReleaseCentre ---------------------------
(***************************************************************************)
(* What surrounds the release engine: the callbacks of deploy tasks, the   *)
(* webhooks that trigger them and their rate limit, the rows the           *)
(* administrators edit, the lists and reports they read, the accounts of   *)
(* the server, the commands at a host, and git.  They share no state, so a *)
(* behaviour runs one of them.                                             *)
(***************************************************************************)
EXTENDS Integers, Sequences, FiniteSets

CONSTANTS
  CallbackTasks, CallbackWorkers, RetryQueueSize, MaxConcurrent, CallbackSetups,
  Deliveries, HookCommits, Sources, HookPayloads,
  LimitKeys, MaxReqs, Window, BlockTime,
  Handlers, CatalogUsers, CatalogPlans,
  ConfigClients, ConfigRuns, ConfigPlans,
  AccountUsers, Menus, Lifetime, AccountPlans,
  DefaultSize, LargestSize, Sizes, Tables, Online,
  HostJobs, Containers,
  GitJobs, GitDirs,
  KeyRequests, KeyPlans,
  \* bounds: changes, the clocks, role numbers, writes and pages of a list
  MaxHookEdits, MaxLimitTime, MaxConfigEdits, MaxRole, MaxAccountTime,
  MaxWrites, MaxPages

VARIABLES
  part,          \* the part that runs, fixed
  setup, config, sender, late, rows, history, queue, pending, attempts,
  worker, manual, received, callbackRefused,
  hook, webhookRequest, versions, tasks, triggers, webhookEdits,
  limitNow, requests, admitted, blocks,
  catalogPlan, row, gone, linked, members, catalogRequest, deployed,
  catalogRaces, demoted,
  configPlan, project, version, run, got, preview, configEdits,
  accountPlan, users, roles, menusOf, accountRequest, accountNow, tokens,
  seen, blacklist, accountRaces, wanted, unchecked, accountRefused,
  listPlan, table, walk, shown, figures, writes,
  hostPlan, host, hostDir, hostJobs, hostBeside,
  gitPlan, tip, gitDir, backups, gitJobs, gitBeside,
  keyPlan, sshKey, keyFiles, work, answer, keyBeside

B == INSTANCE Callbacks WITH
  DeployTasks <- CallbackTasks, Workers <- CallbackWorkers,
  QueueSize <- RetryQueueSize, Setups <- CallbackSetups, refused <- callbackRefused
W == INSTANCE Webhooks WITH
  Commits <- HookCommits, Payloads <- HookPayloads, MaxEdits <- MaxHookEdits,
  request <- webhookRequest, edits <- webhookEdits
L == INSTANCE RateLimiter WITH
  Keys <- LimitKeys, MaxTime <- MaxLimitTime, now <- limitNow
G == INSTANCE Catalog WITH
  Requests <- Handlers, Users <- CatalogUsers, Plans <- CatalogPlans,
  plan <- catalogPlan, request <- catalogRequest, races <- catalogRaces
D == INSTANCE DeployConfig WITH
  Clients <- ConfigClients, Runs <- ConfigRuns, Plans <- ConfigPlans, MaxEdits <- MaxConfigEdits,
  plan <- configPlan, edits <- configEdits
U == INSTANCE Accounts WITH
  Requests <- Handlers, Users <- AccountUsers, MaxTime <- MaxAccountTime,
  Plans <- AccountPlans, plan <- accountPlan, request <- accountRequest, now <- accountNow,
  races <- accountRaces, refused <- accountRefused
R == INSTANCE Listings WITH
  Default <- DefaultSize, Cap <- LargestSize, plan <- listPlan
H == INSTANCE HostDeploy WITH
  Jobs <- HostJobs, plan <- hostPlan,
  dir <- hostDir, jobs <- hostJobs, beside <- hostBeside
P == INSTANCE GitPull WITH
  Jobs <- GitJobs, Dirs <- GitDirs, plan <- gitPlan,
  dir <- gitDir, jobs <- gitJobs, beside <- gitBeside
K == INSTANCE GitClient WITH
  Requests <- KeyRequests, Plans <- KeyPlans, plan <- keyPlan,
  beside <- keyBeside

\* NewRetryQueue, NewRateLimiter: the defaults block for longer than the window.
ASSUME CallbackAssumption == RetryQueueSize \in Nat /\ \A c \in CallbackSetups : B!IsSetup(c)
ASSUME HookAssumption ==
  IsFiniteSet(Deliveries) /\ HookPayloads \subseteq W!PayloadType /\ MaxHookEdits \in Nat
ASSUME LimitAssumption ==
  /\ MaxReqs \in Nat /\ Window \in Nat /\ BlockTime \in Nat /\ MaxLimitTime \in Nat
  /\ Window <= BlockTime

callbackVars == <<
  setup, config, sender, late, rows, history, queue, pending, attempts,
  worker, manual, received, callbackRefused>>
webhookVars == <<
  hook, webhookRequest, versions, tasks, triggers, webhookEdits>>
limitVars == <<limitNow, requests, admitted, blocks>>
catalogVars == <<
  catalogPlan, row, gone, linked, members, catalogRequest, deployed,
  catalogRaces, demoted>>
configVars == <<
  configPlan, project, version, run, got, preview, configEdits>>
accountVars == <<
  accountPlan, users, roles, menusOf, accountRequest, accountNow, tokens,
  seen, blacklist, accountRaces, wanted, unchecked, accountRefused>>
listVars == <<listPlan, table, walk, shown, figures, writes>>
hostVars == <<hostPlan, host, hostDir, hostJobs, hostBeside>>
gitVars == <<gitPlan, tip, gitDir, backups, gitJobs, gitBeside>>
keyVars == <<keyPlan, sshKey, keyFiles, work, answer, keyBeside>>
vars == <<part, callbackVars, webhookVars, limitVars, catalogVars, configVars, accountVars, listVars, hostVars, gitVars, keyVars>>

\* The parts that do not run stay in an initial state.
Init ==
  /\ part \in {"callback", "webhook", "limit", "catalog", "config", "account", "list", "host", "git", "key"}
  /\ B!Init /\ (part # "callback" => setup = CHOOSE s \in CallbackSetups : TRUE)
  /\ W!Init /\ (part # "webhook" => hook.source = (CHOOSE s \in Sources : TRUE) /\ hook.filter = {})
  /\ L!Init
  /\ G!Init /\ (part # "catalog" => catalogPlan = CHOOSE p \in CatalogPlans : TRUE)
  /\ D!Init /\ (part # "config" => configPlan = CHOOSE p \in ConfigPlans : TRUE)
  /\ U!Init /\ (part # "account" => accountPlan = CHOOSE p \in AccountPlans : TRUE)
  /\ R!Init /\ (part # "list" => listPlan = CHOOSE p \in R!Plans : TRUE)
  /\ H!Init /\ (part # "host" => hostPlan = [jobs |-> CHOOSE j \in HostJobs : TRUE, there |-> CHOOSE c \in Containers : TRUE])
  /\ P!Init /\ (part # "git" => gitPlan = [jobs |-> CHOOSE j \in GitJobs : TRUE, dir |-> CHOOSE d \in GitDirs : TRUE])
  /\ K!Init /\ (part # "key" => keyPlan = CHOOSE p \in KeyPlans : TRUE)

Next ==
  \/ part = "callback" /\ B!Next /\ UNCHANGED <<part, webhookVars, limitVars, catalogVars, configVars, accountVars, listVars, hostVars, gitVars, keyVars>>
  \/ part = "webhook" /\ W!Next /\ UNCHANGED <<part, callbackVars, limitVars, catalogVars, configVars, accountVars, listVars, hostVars, gitVars, keyVars>>
  \/ part = "limit" /\ L!Next /\ UNCHANGED <<part, callbackVars, webhookVars, catalogVars, configVars, accountVars, listVars, hostVars, gitVars, keyVars>>
  \/ part = "catalog" /\ G!Next /\ UNCHANGED <<part, callbackVars, webhookVars, limitVars, configVars, accountVars, listVars, hostVars, gitVars, keyVars>>
  \/ part = "config" /\ D!Next /\ UNCHANGED <<part, callbackVars, webhookVars, limitVars, catalogVars, accountVars, listVars, hostVars, gitVars, keyVars>>
  \/ part = "account" /\ U!Next /\ UNCHANGED <<part, callbackVars, webhookVars, limitVars, catalogVars, configVars, listVars, hostVars, gitVars, keyVars>>
  \/ part = "list" /\ R!Next /\ UNCHANGED <<part, callbackVars, webhookVars, limitVars, catalogVars, configVars, accountVars, hostVars, gitVars, keyVars>>
  \/ part = "host" /\ H!Next /\ UNCHANGED <<part, callbackVars, webhookVars, limitVars, catalogVars, configVars, accountVars, listVars, gitVars, keyVars>>
  \/ part = "git" /\ P!Next /\ UNCHANGED <<part, callbackVars, webhookVars, limitVars, catalogVars, configVars, accountVars, listVars, hostVars, keyVars>>
  \/ part = "key" /\ K!Next /\ UNCHANGED <<part, callbackVars, webhookVars, limitVars, catalogVars, configVars, accountVars, listVars, hostVars, gitVars>>

\* The fairness of B!Spec, of the part that runs.
Fairness ==
  /\ \A d \in CallbackTasks :
       /\ WF_callbackVars(part = "callback" /\ B!SenderStep(d))
       /\ WF_callbackVars(part = "callback" /\ B!CheckPendingTasks(d))
  /\ \A w \in CallbackWorkers : WF_callbackVars(part = "callback" /\ B!WorkerStep(w))

Spec == Init /\ [][Next]_vars /\ Fairness

-----------------------------------------------------------------------------
(* However retries, deliveries, edits and the clock interleave: the        *)
(* messages of a deploy task are bounded although its retry entry is in    *)
(* two places, no row says success before a message got through, the       *)
(* webhook's count has its records, a deploy task comes from one delivery  *)
(* that was wanted, and no window lets more requests in than its limit     *)
(* (RetryQueue.Enqueue, processTask, IncomingWebhook, RateLimiter.Allow).  *)
DeliveriesAreAccounted ==
  /\ part = "callback" => B!TypeOK /\ B!MessagesBounded /\ B!SuccessWasReceived
  /\ part = "webhook" => W!TypeOK /\ W!TriggersRecorded /\ W!TasksWanted
  /\ part = "limit" => L!TypeOK /\ L!RateLimited

(* Clients of one run get one configuration, the highest layer that sets a *)
(* field in it, and what the preview showed, whatever is edited meanwhile; *)
(* at a host a container is gone only for a script that took it, and a     *)
(* success is the container of its own script, unless two deploy one name  *)
(* at a time; a git deployment is what was asked, or keeps what was there; *)
(* and a request's git runs with another's key only beside it              *)
(* (executeDeployTask, ContainerDeploy, GitPullDeploy, setupSSHEnv).       *)
CommandsAreAsConfigured ==
  /\ part = "config" => D!CommandsAreAsConfigured
  /\ part = "host" => H!TypeOK /\ H!HostIsAsAnswered
  /\ part = "git" => P!TypeOK /\ P!GitPullIsAsAsked
  /\ part = "key" => K!TypeOK /\ K!KeysAreKept

(* Every callback that failed gets through or is given up in the end: the  *)
(* queue, the map and the workers fall quiet (RetryQueue).                 *)
CallbacksFallQuiet == part = "callback" => B!EventuallyQuiet

(* The rows of projects, versions, credentials, callbacks, members and     *)
(* accounts break, and a client that walks the pages of a list or reads a  *)
(* report is misled, only where the race or the gap that explains it       *)
(* occurred (the handlers check, count, fetch and write in separate        *)
(* statements).                                                            *)
OnlyRacesBreak ==
  /\ part = "catalog" => G!TypeOK /\ G!OnlyRacesBreak
  /\ part = "account" => U!TypeOK /\ U!AccountsBreakForCause /\ U!ActiveIsServed
  /\ part = "list" => R!TypeOK /\ R!PagesAreAccounted /\ R!ReportsAddUp
=============================================================================
