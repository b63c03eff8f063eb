---------------------------- MODULE TaskScheduler ----------------------------
(***************************************************************************)
(* The scheduled tasks of the server (src/pkg/task): TaskManager keeps the *)
(* rows of the tasks and their groups in the database and, for every       *)
(* enabled task, a job in the cron library.  CronScheduler.jobRegistry     *)
(* says which cron entry belongs to which task.  A job dispatches the task *)
(* as it was when the job was added, to the groups the task has when it    *)
(* fires.                                                                  *)
(*                                                                         *)
(* The HTTP handlers run side by side; every database statement and every  *)
(* section under registryMu is a step of its own.  gorm's Updates(struct)  *)
(* leaves zero fields alone, so the disabled status, 0, never reaches the  *)
(* row, and it saves the associations loaded with the struct again.        *)
(***************************************************************************)
EXTENDS Integers, FiniteSets

CONSTANTS
  Tasks,        \* task ids
  Groups,       \* group ids
  Clients,      \* the clients online
  Requests,     \* HTTP requests, each one call
  Plans,        \* scenarios: what each request calls, the rows at the start
  MaxRestarts   \* bound on restarts of the server

VARIABLES
  plan,         \* the scenario, fixed
  rows,         \* tb_task: the row of a task, or NoRow
  bound,        \* tb_task_group_relation
  groups,       \* tb_task_group: the groups not deleted
  entries,      \* the entries of the cron library
  registry,     \* CronScheduler.jobRegistry: entry ids with their task
  request,      \* the progress of each request
  sent,         \* per task, the schedules its messages were sent under
  executions,   \* tb_execution: rows of manual runs, never updated
  restarts,
  crossed       \* tasks two requests changed at the same time, since the start

schedulerVars == <<rows, bound, groups, entries, registry, request, sent,
                   executions, restarts, crossed>>
vars == <<plan, schedulerVars>>

NoRow == [expr |-> "none", gone |-> TRUE]
Valid(expr) == expr \notin {"none", "bad"}
Live(t) == ~rows[t].gone
Idle == [step |-> "idle", row |-> NoRow, enabled |-> FALSE, loaded |-> {}, todo |-> {},
         job |-> {}]
Call(r) == plan.calls[r]
InFlight(r) == request[r].step \notin {"idle", "done"}
EntriesOf(t) == {e \in entries : e.task = t}

TypeOK ==
  /\ DOMAIN rows = Tasks
  /\ bound \subseteq Tasks \X Groups /\ groups \subseteq Groups
  /\ \A e \in entries : e.task \in Tasks /\ Valid(e.expr)
  /\ \A j \in registry : j.task \in Tasks
  /\ DOMAIN request = Requests
  /\ crossed \subseteq Tasks

(* Initialize, the load at the start: a job for every enabled row.         *)
Load(table) ==
  LET on == {t \in Tasks : ~table[t].gone /\ Valid(table[t].expr)}
      number(t) == Cardinality({u \in on : u <= t})
  IN {[id |-> number(t), task |-> t, expr |-> table[t].expr] : t \in on}

Job(e) == [id |-> e.id, task |-> e.task]

Init ==
  /\ plan \in Plans
  /\ rows = plan.rows
  /\ bound = plan.bound
  /\ groups = Groups
  /\ entries = Load(plan.rows)
  /\ registry = {Job(e) : e \in entries}
  /\ request = [r \in Requests |-> Idle]
  /\ sent = [t \in Tasks |-> {}]
  /\ executions = 0
  /\ restarts = 0
  /\ crossed = {}

Goto(r, s) == request' = [request EXCEPT ![r].step = s]

(* A request starts; a change that meets another one of its task is noted. *)
Begin(r, op) ==
  /\ request[r].step = "idle"
  /\ Call(r).op = op
  /\ crossed' = IF \E q \in Requests \ {r} : InFlight(q) /\ Call(q).task = Call(r).task
                THEN crossed \cup {Call(r).task} ELSE crossed

(* CreateTask: the row, then a binding for each group asked for, then the  *)
(* job.                                                                    *)
CreateTask(r) ==
  LET c == Call(r) IN
  /\ Begin(r, "create")
  /\ rows[c.task] = NoRow
  /\ rows' = [rows EXCEPT ![c.task] = [expr |-> c.expr, gone |-> FALSE]]
  /\ request' = [request EXCEPT ![r] =
       [Idle EXCEPT !.step = "add", !.row = rows'[c.task], !.enabled = TRUE,
        !.todo = {[bind |-> TRUE, group |-> g] : g \in c.groups}]]
  /\ UNCHANGED <<plan, bound, groups, entries, registry, sent, executions, restarts>>

(* UpdateTask, EnableTask and DisableTask: GetByID with its groups, then   *)
(* the fields of the request put over the copy.                            *)
UpdateTask(r) ==
  LET c == Call(r)
      t == c.task IN
  /\ Begin(r, "update")
  /\ request' = [request EXCEPT ![r] =
       IF ~Live(t) THEN [Idle EXCEPT !.step = "done"]
       ELSE [Idle EXCEPT
               !.step = IF c.regroup THEN "groups" ELSE "store",
               !.row = [rows[t] EXCEPT !.expr = IF c.expr = "keep" THEN @ ELSE c.expr],
               !.enabled = c.status # 0,
               !.loaded = {g \in groups : <<t, g>> \in bound}]]
  /\ UNCHANGED <<plan, rows, bound, groups, entries, registry, sent, executions, restarts>>

GetGroupIDs(r) ==
  LET t == Call(r).task
      old == {g \in groups : <<t, g>> \in bound}
      new == Call(r).groups IN
  /\ request[r].step = "groups"
  /\ request' = [request EXCEPT
       ![r].step = IF Live(t) THEN "store" ELSE "done",
       ![r].todo = IF Live(t) THEN {[bind |-> FALSE, group |-> g] : g \in old \ new}
                                   \cup {[bind |-> TRUE, group |-> g] : g \in new \ old}
                   ELSE {}]
  /\ UNCHANGED <<plan, rows, bound, groups, entries, registry, sent, executions,
                 restarts, crossed>>

(* UnbindGroup, then BindGroup: one statement each; a failure is a warning.*)
ChangeBinding(r) ==
  LET t == Call(r).task
      unbinds == {b \in request[r].todo : ~b.bind} IN
  /\ InFlight(r)
  /\ \E b \in IF unbinds # {} THEN unbinds ELSE request[r].todo :
       /\ bound' = IF ~Live(t) \/ b.group \notin groups THEN bound
                   ELSE IF b.bind THEN bound \cup {<<t, b.group>>}
                   ELSE bound \ {<<t, b.group>>}
       /\ request' = [request EXCEPT ![r].todo = @ \ {b}]
  /\ UNCHANGED <<plan, rows, groups, entries, registry, sent, executions, restarts, crossed>>

(* ResetTaskStats reads the row to write it again: the zeros it set are    *)
(* not written, the other fields and the groups are.                       *)
ResetTaskStats(r) ==
  LET t == Call(r).task IN
  /\ Begin(r, "reset")
  /\ request' = [request EXCEPT ![r] =
       IF ~Live(t) THEN [Idle EXCEPT !.step = "done"]
       ELSE [Idle EXCEPT !.step = "store", !.row = rows[t],
                         !.loaded = {g \in groups : <<t, g>> \in bound}]]
  /\ UNCHANGED <<plan, rows, bound, groups, entries, registry, sent, executions, restarts>>

(* taskStore.Update: the non-zero fields of the copy, and its groups.      *)
StoreTask(r) ==
  LET t == Call(r).task IN
  /\ request[r].step = "store"
  /\ request[r].todo = {}
  /\ rows' = IF Live(t) THEN [rows EXCEPT ![t].expr = request[r].row.expr] ELSE rows
  /\ bound' = bound \cup {<<t, g>> : g \in request[r].loaded}
  /\ Goto(r, IF Call(r).op = "reset" THEN "done" ELSE "remove")
  /\ UNCHANGED <<plan, groups, entries, registry, sent, executions, restarts, crossed>>

(* RemoveTask, under registryMu: one entry of the task, the first that the *)
(* range over the map meets.                                               *)
RemoveFromRegistry(t) ==
  \/ /\ \A j \in registry : j.task # t
     /\ UNCHANGED <<entries, registry>>
  \/ \E j \in registry :
       /\ j.task = t
       /\ registry' = registry \ {j}
       /\ UNCHANGED entries

RemoveTask(t) ==
  \/ /\ \A j \in registry : j.task # t
     /\ UNCHANGED <<entries, registry>>
  \/ \E j \in registry :
       /\ j.task = t
       /\ registry' = registry \ {j}
       /\ entries' = {e \in entries : e.id # j.id}

(* CronScheduler.UpdateTask: removes the job; adds one if enabled.         *)
RemoveOld(r) ==
  /\ request[r].step = "remove"
  /\ RemoveTask(Call(r).task)
  /\ Goto(r, IF request[r].enabled THEN "add" ELSE "done")
  /\ UNCHANGED <<plan, rows, bound, groups, sent, executions, restarts, crossed>>

(* AddTask: refused for an expression cron cannot parse; the entry is in   *)
(* cron before it is in the registry.                                      *)
NextId == CHOOSE n \in 1..(Cardinality(entries) + Cardinality(Requests) + 1) :
            \A e \in entries : e.id # n
AddTask(r) ==
  LET e == [id |-> NextId, task |-> Call(r).task, expr |-> request[r].row.expr] IN
  /\ request[r].step = "add"
  /\ request[r].todo = {}
  /\ IF Valid(e.expr)
     THEN /\ entries' = entries \cup {e}
          /\ request' = [request EXCEPT ![r].step = "register", ![r].job = {e}]
     ELSE /\ UNCHANGED entries
          /\ Goto(r, "done")
  /\ UNCHANGED <<plan, rows, bound, groups, registry, sent, executions, restarts, crossed>>

Register(r) ==
  /\ request[r].step = "register"
  /\ registry' = registry \cup {Job(e) : e \in request[r].job}
  /\ request' = [request EXCEPT ![r].step = "done", ![r].job = {}]
  /\ UNCHANGED <<plan, rows, bound, groups, entries, sent, executions, restarts, crossed>>

(* DeleteTask: first the job, then the row (softly).                       *)
DeleteTask(r) ==
  \/ /\ Begin(r, "delete")
     /\ RemoveTask(Call(r).task)
     /\ Goto(r, "delete")
     /\ UNCHANGED <<plan, rows, bound, groups, sent, executions, restarts>>
  \/ /\ request[r].step = "delete"
     /\ rows' = [rows EXCEPT ![Call(r).task].gone = TRUE]
     /\ Goto(r, "done")
     /\ UNCHANGED <<plan, bound, groups, entries, registry, sent, executions, restarts, crossed>>

(* TaskDispatcher.Dispatch: nothing for a task that is gone or in no       *)
(* group, else a message for every client online.                          *)
Dispatch(t, expr) ==
  sent' = IF Live(t) /\ (\E g \in groups : <<t, g>> \in bound) /\ Clients # {}
          THEN [sent EXCEPT ![t] = @ \cup {expr}] ELSE sent

(* A job fires: a goroutine dispatches the task it captured.               *)
RunJob ==
  /\ \E e \in entries : Dispatch(e.task, e.expr)
  /\ UNCHANGED <<plan, rows, bound, groups, entries, registry, request, executions,
                 restarts, crossed>>

(* TriggerTask: the row is read, a pending execution is stored, and the    *)
(* task is dispatched.                                                     *)
TriggerTask(r) ==
  LET t == Call(r).task IN
  \/ /\ request[r].step = "idle" /\ Call(r).op = "trigger"
     /\ request' = [request EXCEPT ![r].step = IF Live(t) THEN "dispatch" ELSE "done",
                                   ![r].row = rows[t]]
     /\ executions' = IF Live(t) THEN executions + 1 ELSE executions
     /\ UNCHANGED <<plan, rows, bound, groups, entries, registry, sent, restarts, crossed>>
  \/ /\ request[r].step = "dispatch"
     /\ Dispatch(t, request[r].row.expr)
     /\ Goto(r, "done")
     /\ UNCHANGED <<plan, rows, bound, groups, entries, registry, executions, restarts, crossed>>

(* groupStore.Delete: the group only; its bindings stay.                   *)
DeleteGroup(r) ==
  /\ request[r].step = "idle" /\ Call(r).op = "dropgroup"
  /\ groups' = groups \ Call(r).groups
  /\ Goto(r, "done")
  /\ UNCHANGED <<plan, rows, bound, entries, registry, sent, executions, restarts, crossed>>

(* The server starts anew (SetupTaskSystem): cron is empty, Initialize     *)
(* loads the enabled rows, the requests at work are lost.                  *)
Restart ==
  /\ restarts < MaxRestarts
  /\ restarts' = restarts + 1
  /\ entries' = Load(rows)
  /\ registry' = {Job(e) : e \in entries'}
  /\ request' = [r \in Requests |->
       IF InFlight(r) THEN [Idle EXCEPT !.step = "done"] ELSE request[r]]
  /\ crossed' = {}
  /\ UNCHANGED <<plan, rows, bound, groups, sent, executions>>

Handle(r) ==
  \/ CreateTask(r) \/ UpdateTask(r) \/ GetGroupIDs(r) \/ ChangeBinding(r)
  \/ ResetTaskStats(r) \/ StoreTask(r) \/ RemoveOld(r) \/ AddTask(r) \/ Register(r)
  \/ DeleteTask(r) \/ TriggerTask(r) \/ DeleteGroup(r)

Next == (\E r \in Requests : Handle(r)) \/ RunJob \/ Restart

Spec == Init /\ [][Next]_vars

-----------------------------------------------------------------------------
(* The cron library fires what the rows say.  For a task whose changes     *)
(* never met, as soon as the last one is answered, there is at most one    *)
(* entry, it can be found through the registry, and it is the entry of a   *)
(* row that is not deleted with the schedule of that row.  Removing and    *)
(* adding are two sections of CronScheduler.UpdateTask, and the database   *)
(* is written before: only requests that overlap leave a job of a deleted  *)
(* task, two jobs of one task, or an old schedule behind.                  *)
JobsFollowRows ==
  \A t \in Tasks \ crossed :
    (\A r \in Requests : InFlight(r) => Call(r).task # t) =>
      /\ Cardinality(EntriesOf(t)) <= 1
      /\ \A e \in EntriesOf(t) :
           Job(e) \in registry /\ Live(t) /\ e.expr = rows[t].expr
=============================================================================
