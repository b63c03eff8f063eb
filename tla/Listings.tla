------------------------------ MODULE Listings ------------------------------
(***************************************************************************)
(* What the HTTP handlers read back: lists in pages and statistics.  A     *)
(* handler counts with one statement and fetches a page with another, a    *)
(* report adds up several, and a client walks the pages while other        *)
(* requests insert, delete and edit rows.  The sizes 20 and 100 of the     *)
(* handlers are Default and Cap here.                                      *)
(***************************************************************************)
EXTENDS Integers, FiniteSets, SequencesExt

CONSTANTS
  Default, Cap,   \* the size of a page by default, and the largest
  Sizes,          \* sizes a client asks for
  Tables,         \* the rows at first
  Online,         \* clients with a session, by the number of their row
  MaxWrites,      \* bound: writes
  MaxPages        \* bound: pages a client asks for

VARIABLES
  plan,     \* a lister with the field that is asked for and the size, or a report; the rows
  table,    \* the rows
  walk,     \* the client: the page, the total it was told, the rows to look up
  shown,    \* the rows it was shown, page after page
  figures,  \* the numbers of the report
  writes    \* [kind, at : the step the handler was at] (history)

vars == <<plan, table, walk, shown, figures, writes>>

All == 1000
Field == ""
Statuses == {"success", "failed", "running"}
Levels == {"critical", "info"}
Kinds == {"insert", "delete", "touch", "edit"}

\* Does the row have the value that is asked for?  When was it made?
Rows == [id : Nat, at : Nat, hit : BOOLEAN, status : Statuses, level : Levels]

TypeOK ==
  /\ table \subseteq Rows /\ Cardinality({r.id : r \in table}) = Cardinality(table)
  /\ walk.pc \in {"ask", "page", "look", "done", "failed"}
  /\ walk.page \in 1 .. MaxPages + 1 /\ walk.total \in 0 .. All
  /\ \A w \in writes : w.kind \in Kinds

-----------------------------------------------------------------------------
(* Listers: the fields a request may ask for and those the statement       *)
(* applies, the treatment of the size, what the client is told of the      *)
(* number of rows and of the size, the order, and whether it is by a time  *)
(* that moves.                                                             *)

Lister(asks, applies, size, total) ==
  [asks |-> asks, applies |-> applies, counts |-> applies, size |-> size,
   total |-> total, from |-> "page", told |-> "asked", order |-> "newest",
   moves |-> FALSE, lookup |-> FALSE, sessions |-> FALSE, divides |-> FALSE]
Unpaged(asks, applies) == Lister(asks, applies, "none", "none")
AnyOrder(l) == [l EXCEPT !.order = "any"]

\* Alerts.
AlertFilter == {"status", "severity", "group", "rule", "ruleName", "from", "to"}
ListAlerts == Lister(AlertFilter \union {"alertName"}, AlertFilter, "default", "count")
RuleFilter == {"enabled", "severity"}
ListRules == [Lister(RuleFilter, RuleFilter, "default", "count") EXCEPT !.told = "used"]
ListChannels == Unpaged({"enabled"}, {"enabled"})
SilenceFilter == {"rule", "active"}
ListSilences == Unpaged(SilenceFilter, SilenceFilter)
\* Groups are made of one page of alerts, and their number is the total.
ListAlertGroups == Lister({}, {}, "default", "shown")
GetAlertGroup == [Lister({"group"}, {"group"}, "fixed", "count")
                    EXCEPT !.from = "ignored", !.told = "all"]

\* Configurations.
ConfigFilter == {"namespace", "group", "dataID", "type", "tags"}
ListConfigs == Lister(ConfigFilter, ConfigFilter, "optional", "count")
ReleaseFilter == {"config", "namespace", "group", "dataID", "type", "status"}
ListAllReleases == Lister(ReleaseFilter \union {"releasedBy"}, ReleaseFilter, "optional", "count")
ListConfigReleases == Lister({"config"}, {"config"}, "optional", "count")
GrayRuleFilter == {"config", "type", "enabled"}
ListAllGrayRules == Lister(GrayRuleFilter, GrayRuleFilter, "raw", "count")
ListGrayRules == Unpaged({"config"}, {"config"})
SubscriberFilter == {"namespace", "client", "status"}
ListSubscribers ==
  [Lister(SubscriberFilter, SubscriberFilter, "optional", "count") EXCEPT !.moves = TRUE]
\* The page asked for is repeated in the answer and otherwise ignored.
ListChangeLogs ==
  [Lister({"config"}, {"config"}, "fixed", "shown") EXCEPT !.from = "ignored", !.told = "default"]
ListSnapshots == [Lister({"config"}, {"config"}, "optional", "none") EXCEPT !.from = "ignored"]
ListNamespaces == AnyOrder(Unpaged({}, {}))
ListTags == AnyOrder(Unpaged({}, {}))
ListGroups == AnyOrder(Unpaged({"namespace"}, {"namespace"}))

\* The release centre.  The number of deployment logs is that of all of them.
ListReleases == Lister({"project"}, {"project"}, "raw", "count")
ListDeployTasks == Unpaged({"status"}, {"status"})
ListDeployLogs == [Lister({"status", "client"}, {"status", "client"}, "raw", "count")
                     EXCEPT !.counts = {}]
ListProjectDeployLogs == Lister({"status"}, {"status"}, "raw", "count")
GetDeployTaskLogs == [Lister({"client"}, {"client"}, "raw", "count") EXCEPT !.order = "oldest"]
CallbackFilter == {"task", "config", "event", "channel", "status"}
ListCallbackHistory ==
  [Lister(CallbackFilter, CallbackFilter, "range", "count") EXCEPT !.told = "used"]
ListTaskCallbackHistory == Unpaged({}, {})
ListMessageTemplates == Unpaged({"channel", "type"}, {"channel", "type"})
ListWebhooks == Unpaged({}, {})
ListTriggerHistory == [Lister({}, {}, "fixed", "none") EXCEPT !.from = "ignored"]
ListCredentials == Unpaged({"scope", "type"}, {"scope", "type"})
GetProjectCredentials == Unpaged({}, {})
SearchUsers == [AnyOrder(Lister({"q"}, {"q"}, "fixed", "none")) EXCEPT !.from = "ignored"]
ListUsers == [AnyOrder(Lister({"search"}, {"search"}, "fixed", "none")) EXCEPT !.from = "ignored"]
\* The target of each installation is looked for by a statement of its own.
ListProjectInstallations ==
  [AnyOrder(Unpaged({"version"}, {"version"})) EXCEPT !.lookup = TRUE]

\* The command manager, the executors, the scheduled tasks, the scripts, the users.
ListCommands == AnyOrder(Unpaged({"client", "status"}, {"client", "status"}))
ListJobs == AnyOrder(Unpaged({}, {}))
TaskFilter == {"status", "keyword"}
ListTasks == Lister(TaskFilter, TaskFilter, "raw", "count")
ExecutionFilter == {"task", "client", "status", "keyword"}
GetExecutionList == Lister(ExecutionFilter, ExecutionFilter, "raw", "count")
GetScripts == Unpaged({"category", "status"}, {"category", "status"})
GetScriptExecutions == [Lister({}, {}, "default", "none") EXCEPT !.from = "ignored"]
UserFilter == {"username", "nickname", "enable"}
GetUserList == Lister(UserFilter, UserFilter, "raw", "count")

\* The audit log, the recordings and the files.
CommandFilter == {"session", "client", "username", "command", "from", "to"}
FileCommands == [Lister(CommandFilter, CommandFilter, "default", "none") EXCEPT !.order = "oldest"]
SessionFileCommands == Lister(CommandFilter, CommandFilter, "default", "none")
PostgresCommands == Lister(CommandFilter, CommandFilter, "default", "none")
RecordingFilter == {"session", "client", "username", "from", "to"}
FileRecordings == Lister(RecordingFilter, RecordingFilter, "default", "none")
DBRecordings == Lister(RecordingFilter, RecordingFilter, "default", "none")
\* The number of the page is the offset divided by the limit.
ListTransfers == [Lister({"type", "status"}, {"type", "status"}, "optional", "count")
                    EXCEPT !.divides = TRUE]
ListFiles == [AnyOrder(Lister({"path"}, {"path"}, "optional", "shown")) EXCEPT !.from = "ignored"]

\* Devices and clients.  The list of clients adds the sessions to each page of
\* the devices; the total of the sessions alone is lost in an inner variable.
ListDevices == [Lister({"status"}, {"status"}, "range", "count") EXCEPT !.moves = TRUE]
SearchByHostname == [Lister({"q"}, {"q"}, "range", "count") EXCEPT !.order = "name"]
GetDeviceHistory == [Lister({}, {}, "range", "none") EXCEPT !.from = "ignored"]
ListSessions == AnyOrder(Lister({}, {}, "optional", "count"))
ListClients == [Lister({"status"}, {"status"}, "cap", "count")
                  EXCEPT !.told = "used", !.sessions = TRUE, !.moves = TRUE]
ListClientsOfSessions == [AnyOrder(Lister({}, {}, "cap", "lost")) EXCEPT !.told = "used"]

Listers ==
  {ListAlerts, ListRules, ListChannels, ListSilences, ListAlertGroups,
   GetAlertGroup, ListConfigs, ListAllReleases, ListConfigReleases,
   ListAllGrayRules, ListGrayRules, ListSubscribers, ListChangeLogs,
   ListSnapshots, ListNamespaces, ListTags, ListGroups, ListReleases,
   ListDeployTasks, ListDeployLogs, ListProjectDeployLogs, GetDeployTaskLogs,
   ListCallbackHistory, ListTaskCallbackHistory, ListMessageTemplates,
   ListWebhooks, ListTriggerHistory, ListCredentials, GetProjectCredentials,
   SearchUsers, ListUsers, ListProjectInstallations, ListCommands, ListJobs,
   ListTasks, GetExecutionList, GetScripts, GetScriptExecutions, GetUserList,
   FileCommands, SessionFileCommands, PostgresCommands, FileRecordings,
   DBRecordings, ListTransfers, ListFiles, ListDevices, SearchByHostname,
   GetDeviceHistory, ListSessions, ListClients, ListClientsOfSessions}

-----------------------------------------------------------------------------
(* Pages.                                                                   *)

\* LIMIT 0 gives no row; a handler without a limit gives all of them.
Limit(l, size) ==
  CASE l.size = "default" -> IF size < 1 THEN Default ELSE size
    [] l.size = "range" -> IF size \in 1 .. Cap THEN size ELSE Default
    [] l.size = "cap" -> IF size \in 1 .. Cap THEN size ELSE Cap
    [] l.size = "optional" -> IF size < 1 THEN All ELSE size
    [] l.size = "fixed" -> Cap
    [] l.size = "raw" -> size
    [] l.size = "none" -> All

Told(l, size) ==
  CASE l.told = "used" -> Limit(l, size) [] l.told = "default" -> Default
    [] l.told = "all" -> All [] OTHER -> size

Offset(l, size, page) ==
  IF l.from = "ignored" \/ Limit(l, size) = All THEN 0 ELSE (page - 1) * Limit(l, size)

Matching(fields) == {r \in table : plan.ask \in fields => r.hit}

\* The database is free to order the rows of one moment, and a Go map all of them.
Arranged(l, rows) ==
  {s \in SetToSeqs(rows) :
     \A i, j \in DOMAIN s : i < j =>
       CASE l.order = "newest" -> s[i].at >= s[j].at
         [] l.order \in {"oldest", "name"} -> s[i].at <= s[j].at
         [] l.order = "any" -> TRUE}

Cut(l, s) ==
  LET first == Offset(l, plan.size, walk.page)
      last == first + Limit(l, plan.size)
  IN SubSeq(s, first + 1, IF last < Len(s) THEN last ELSE Len(s))

Ids(s) == [i \in DOMAIN s |-> s[i].id]

\* The client asks for the next page while the total it was told is larger than
\* what the pages so far hold; without a total, until a page is not full.
More(l, n, total) ==
  /\ walk.page < MaxPages
  /\ CASE l.total \in {"count", "shown", "lost"} -> walk.page * Told(l, plan.size) < total
                                                     /\ Told(l, plan.size) > 0
       [] OTHER -> l.from = "page" /\ n = Limit(l, plan.size) /\ n > 0

-----------------------------------------------------------------------------
\* Reports: the statements each makes, in order.
GetAlertStats == <<"byStatus", "byStatusAndLevel">>
GetCallbackStats == <<"byStatus", "successes", "byLevel">>
GetProjectDeployStats == <<"total", "success", "failed", "byStatus">>
GetDeployStats == <<"total", "success", "failed", "byStatus">>
GetDeviceStats == <<"total", "success", "failed">>
GetExecutionStats == <<"list">>
GetRecordingStats == <<"total", "byStatus">>
GetAuditStats == <<"list">>
Reports == {GetAlertStats, GetCallbackStats, GetProjectDeployStats, GetDeployStats,
            GetDeviceStats, GetExecutionStats, GetRecordingStats, GetAuditStats}

\* No field, one that the statement applies, one that it does not.
Asked(l) ==
  {Field} \union {CHOOSE f \in fs : TRUE : fs \in {l.applies, l.asks \ l.applies} \ {{}}}
Plans ==
  UNION {{[lister |-> l, ask |-> f, size |-> z, rows |-> t] :
            f \in Asked(l), z \in Sizes, t \in Tables} : l \in Listers}
  \union {[report |-> r, rows |-> t] : r \in Reports, t \in Tables}

Reading == "lister" \in DOMAIN plan
Reporting == "report" \in DOMAIN plan
Under(pc) == Reading /\ walk.pc = pc
Untouched == UNCHANGED <<plan, table, figures, writes>>

Init ==
  /\ plan \in Plans
  /\ table = plan.rows
  /\ walk = [pc |-> "ask", page |-> 1, total |-> 0, look |-> <<>>]
  /\ shown = <<>> /\ figures = <<>> /\ writes = {}

CountRows ==
  /\ Under("ask") /\ plan.lister.total \in {"count", "lost"}
  /\ walk' = [walk EXCEPT !.pc = "page", !.total = Cardinality(Matching(plan.lister.counts))]
  /\ UNCHANGED shown /\ Untouched

\* Sessions of clients that the page does not hold are added to it, and counted.
Added(l, page) == IF l.sessions THEN Online \ ToSet(page) ELSE {}

TotalTold(l, page) ==
  CASE l.total = "count" -> walk.total + Cardinality(Added(l, page))
    [] l.total = "shown" -> Len(page)
    [] OTHER -> 0

FetchPage ==
  LET l == plan.lister IN
  /\ Under(IF l.total \in {"count", "lost"} THEN "page" ELSE "ask")
  /\ \E s \in Arranged(l, Matching(l.applies)) : \E a \in SetToSeqs(Added(l, Ids(Cut(l, s)))) :
       LET page == Ids(Cut(l, s))
           total == TotalTold(l, page)
       IN /\ walk' =
               CASE l.divides /\ plan.size = 0 -> [walk EXCEPT !.pc = "failed"]
                 [] l.lookup -> [walk EXCEPT !.pc = "look", !.look = page]
                 [] More(l, Len(page), total) ->
                      [walk EXCEPT !.pc = "ask", !.page = @ + 1, !.total = total]
                 [] OTHER -> [walk EXCEPT !.pc = "done", !.total = total]
          /\ shown' = IF l.lookup \/ walk'.pc = "failed" THEN shown ELSE shown \o page \o a
  /\ Untouched

\* A row whose target is gone when it is looked for is left out.
LookUp ==
  /\ Under("look")
  /\ IF walk.look = <<>>
     THEN walk' = [walk EXCEPT !.pc = "done"] /\ UNCHANGED shown
     ELSE /\ walk' = [walk EXCEPT !.look = Tail(@)]
          /\ shown' = IF \E r \in table : r.id = Head(walk.look)
                      THEN Append(shown, Head(walk.look)) ELSE shown
  /\ Untouched

-----------------------------------------------------------------------------
(* Reports.                                                                *)

OfStatus(s) == {r \in table : r.status = s}
OfLevel(v) == {r \in table : r.level = v}

\* A statement grouped by status and level has a row for each pair, and the
\* figure of a level is the row that was read last.
LastOf(v) ==
  LET groups == {Cardinality(OfStatus(s) \intersect OfLevel(v)) : s \in Statuses} \ {0}
  IN IF groups = {} THEN {0} ELSE groups

Answers(q) ==
  CASE q = "total" -> {[total |-> Cardinality(table)]}
    [] q \in {"success", "failed"} -> {q :> Cardinality(OfStatus(q))}
    [] q = "successes" -> {[successes |-> Cardinality(OfStatus("success"))]}
    [] q \in {"byStatus", "list"} ->
         {[total |-> Cardinality(table)] @@ [s \in Statuses |-> Cardinality(OfStatus(s))]}
    [] q = "byLevel" -> {[v \in Levels |-> Cardinality(OfLevel(v))]}
    [] q = "byStatusAndLevel" ->
         {[critical |-> c, info |-> i] : c \in LastOf("critical"), i \in LastOf("info")}

Ask ==
  /\ Reporting /\ walk.pc = "ask"
  /\ \E f \in Answers(plan.report[walk.page]) : figures' = figures @@ f
  /\ walk' = IF walk.page = Len(plan.report) THEN [walk EXCEPT !.pc = "done"]
             ELSE [walk EXCEPT !.page = @ + 1]
  /\ UNCHANGED <<plan, table, shown, writes>>

-----------------------------------------------------------------------------
(* Other requests.                                                         *)

Happened(kinds) == \E w \in writes : w.kind \in kinds
Latest == Max({0} \union {r.at : r \in table})
Write(kind) ==
  /\ walk.pc \notin {"done", "failed"} /\ Cardinality(writes) < MaxWrites
  /\ writes' = writes \union {[kind |-> kind, at |-> walk.pc, page |-> walk.page]}
  /\ UNCHANGED <<plan, walk, shown, figures>>

\* A new row is the newest; its name comes anywhere.
NewRows ==
  [id : {Cardinality(plan.rows) + 1}, hit : {TRUE}, level : {"info"},
   at : {Latest + 1} \union (IF Reading /\ plan.lister.order = "name" THEN {0} ELSE {}),
   status : IF Reading THEN {"success"} ELSE Statuses]
Insert ==
  /\ ~Happened({"insert"}) /\ Write("insert")
  /\ \E r \in NewRows : table' = table \union {r}

Delete == Write("delete") /\ \E r \in table : table' = table \ {r}

\* A heartbeat: the row becomes the newest of a list that is by it.
Touch ==
  /\ Reading /\ plan.lister.moves /\ Write("touch")
  /\ \E r \in table : table' = (table \ {r}) \union {[r EXCEPT !.at = Latest + 1]}

\* What the rows are filtered or counted by.
Edit ==
  /\ Write("edit")
  /\ \E r \in table :
       \/ Reading /\ table' = (table \ {r}) \union {[r EXCEPT !.hit = ~@]}
       \/ /\ Reporting
          /\ \E s \in Statuses \ {r.status} : table' = (table \ {r}) \union {[r EXCEPT !.status = s]}

Next == CountRows \/ FetchPage \/ LookUp \/ Ask \/ Insert \/ Delete \/ Touch \/ Edit

Spec == Init /\ [][Next]_vars

-----------------------------------------------------------------------------
(* Properties.                                                              *)

Between == \E w \in writes : w.kind \in {"insert", "touch"} /\ w.at = "page"
Times(x) == Cardinality({i \in DOMAIN shown : shown[i] = x})

\* The rows that were there all along, as they were.
Steady == {r \in plan.rows \intersect table : plan.ask # Field => r.hit}

\* Listers that mislead a client however quiet the table is: a field they do
\* not apply, a total that is another number, a page that is ignored.
Deaf == plan.ask \notin plan.lister.applies \union {Field}
Misleading ==
  {ListAlertGroups, ListChangeLogs, ListClients, ListClientsOfSessions}

\* The rows of one moment may change places between two statements.
Shuffled ==
  /\ walk.page > 1
  /\ plan.lister.order = "any" \/ \E r, s \in Steady : r # s /\ r.at = s.at

\* The client was told another size than the one that was used, or asked for none.
Missized == plan.size < 1 \/ Told(plan.lister, plan.size) \notin {Limit(plan.lister, plan.size), All}

\* What there is no way to ask for: rows beyond a limit without pages.
Truncated ==
  \/ plan.lister.from = "ignored" /\ Cardinality(Steady) + Cardinality(writes) > Limit(plan.lister, plan.size)
  \/ walk.page = MaxPages

(* A client that walks the pages of a list, of its own accord and by the   *)
(* totals it is told, misses a row that was there all along only if a row  *)
(* was deleted or edited, or came between the count and the page; it sees  *)
(* one twice only if a row came before it; and it sees no other row        *)
(* (ListAlerts, ListConfigs, ListReleases, ListCallbackHistory, ...).      *)
PagesAreAccounted ==
  Reading /\ walk.pc = "done" /\ ~Deaf /\ plan.lister \notin Misleading
    /\ ~Shuffled /\ ~Truncated =>
    /\ (~Missized \/ plan.lister.size = "none") /\ ~Happened({"delete", "edit"}) /\ ~Between
         => \A r \in Steady : Times(r.id) > 0
    /\ ~Happened({"touch", "edit"}) /\ (plan.lister.order # "oldest" => ~Happened({"insert"}))
         => \A r \in Steady : Times(r.id) <= 1
    /\ ~Happened({"insert", "edit"}) =>
         \A i \in DOMAIN shown : \E r \in plan.rows : r.id = shown[i] /\ (plan.ask # Field => r.hit)
    /\ writes = {} /\ plan.lister.total = "count" /\ plan.lister # ListDeployLogs
         => walk.total = Cardinality(Steady)

(* The figures of a report are those of one moment when nothing is written *)
(* between its statements; a report of one statement always adds up.  Only *)
(* the levels of the alerts do not: they are counted for one status        *)
(* (GetAlertStats, GetCallbackStats, GetDeviceStats, GetExecutionStats).   *)
ReportsAddUp ==
  Reporting /\ walk.pc = "done" =>
    /\ Len(plan.report) = 1 => figures.total = figures.success + figures.failed + figures.running
    /\ writes = {} =>
         /\ figures.total = Cardinality(table)
         /\ \A s \in Statuses \intersect DOMAIN figures : figures[s] = Cardinality(OfStatus(s))
         /\ \A v \in Levels \intersect DOMAIN figures :
              \/ figures[v] = Cardinality(OfLevel(v))
              \/ /\ plan.report = GetAlertStats
                 /\ figures[v] < Cardinality(OfLevel(v))
                 /\ Cardinality({r.status : r \in OfLevel(v)}) > 1
=============================================================================
