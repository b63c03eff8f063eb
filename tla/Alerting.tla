----------------------------- MODULE Alerting -----------------------------
(***************************************************************************)
(* pkg/alert: the evaluator keeps the rules it has compiled and the alerts *)
(* that fire; the processor keeps alerts by fingerprint, writes their rows *)
(* and announces them; the notifier sends what is announced.  The handlers *)
(* of the HTTP interface change the rows without telling the processor.    *)
(***************************************************************************)
EXTENDS Integers, SequencesExt

CONSTANTS
  Fingerprints,         \* fingerprints of alerts
  Rules,          \* rules, by their unique names
  Calls,          \* calls of the processor and of the handlers, of one operation each
  Channels,       \* channels notifications go to
  Workers,        \* goroutines of the notifier; "retry" is one more
  QueueSize, Timeout, MaxTime,
  MaxEdits,       \* bound: changes of rules
  Plans           \* calls : Calls -> [op, print, status], channels : the enabled ones,
                  \* types : their types, rules : whether rules change

VARIABLES
  plan, now,
  table,          \* rows of rules: [state, condition, enabled]
  loaded,         \* rules compiled by the evaluator, and their conditions
  fired,          \* when the alert of a rule began to fire
  visit,          \* the rule under evaluation
  edits,
  rows,           \* rows of alerts, by status; "deleted" rows keep their fingerprint
  cache,          \* the processor's alerts: [status, fired]
  call,           \* what each call does
  queue, retry, sending,   \* tasks: [print, status, channel, retries]
  history         \* which alert was sent where with success

evaluator == <<table, loaded, fired, visit, edits>>
notifier == <<queue, retry, sending, history>>
vars == <<plan, now, evaluator, rows, cache, call, notifier>>

\* A condition names no variable that the environment declares, or is constant.
Conditions == {"metric", "true", "false"}
Statuses == {"pending", "firing", "resolved"}
NoRule == [state |-> "absent", condition |-> "metric", enabled |-> FALSE]
Types == {"dingtalk", "email"}
None == [pc |-> "none"]
Idle == [pc |-> "idle"]

TypeOK ==
  /\ now \in 0 .. MaxTime /\ edits \in 0 .. MaxEdits
  /\ table \in [Rules -> [state : {"absent", "live", "deleted"}, condition : Conditions,
                          enabled : BOOLEAN]]
  /\ DOMAIN loaded \subseteq Rules /\ DOMAIN fired \subseteq Rules
  /\ rows \in [Fingerprints -> Statuses \union {"absent", "deleted"}]
  /\ DOMAIN cache \subseteq Fingerprints
  /\ \A c \in Calls : call[c].pc \in {"idle", "insert", "cache", "announce", "save",
                                      "uncache", "done"}
  /\ Len(queue) <= QueueSize /\ Len(retry) <= QueueSize
  /\ history \subseteq [print : Fingerprints, channel : Channels]

Init ==
  /\ plan \in Plans /\ now = 0
  /\ table = [r \in Rules |-> NoRule] /\ loaded = <<>> /\ fired = <<>>
  /\ visit = None /\ edits = 0
  /\ rows = [f \in Fingerprints |-> "absent"] /\ cache = <<>>
  /\ call = [c \in Calls |-> Idle]
  /\ queue = <<>> /\ retry = <<>> /\ sending = [w \in Workers \union {"retry"} |-> None]
  /\ history = {}

Without(f, x) == [y \in DOMAIN f \ {x} |-> f[y]]
Set(f, x, v) == [y \in DOMAIN f \union {x} |-> IF y = x THEN v ELSE f[y]]

-----------------------------------------------------------------------------
(* Rules and their evaluation.                                              *)

OthersStay == UNCHANGED <<plan, now, rows, cache, call, notifier>>
Edit == edits < MaxEdits /\ edits' = edits + 1 /\ OthersStay

\* The type check of Compile refuses every name: the environment declares none.
Compiles(condition) == condition # "metric"

\* The name of a deleted rule stays taken.
CreateRule(r, condition) ==
  /\ table[r].state = "absent" /\ Edit
  /\ table' = [table EXCEPT ![r] = [state |-> "live", condition |-> condition, enabled |-> TRUE]]
  /\ UNCHANGED <<loaded, fired, visit>>

\* Save inserts the row when no live one is there: a deleted rule comes back.
UpdateRule(r, condition, enabled) ==
  /\ table[r].state # "absent" /\ Edit
  /\ table' = [table EXCEPT ![r] = [state |-> "live", condition |-> condition,
                                    enabled |-> enabled]]
  /\ UNCHANGED <<loaded, fired, visit>>

DeleteRule(r) ==
  /\ table[r].state = "live" /\ Edit
  /\ table' = [table EXCEPT ![r].state = "deleted"]
  /\ UNCHANGED <<loaded, fired, visit>>

\* Disabled rules are loaded too.
ReloadRules ==
  /\ Edit
  /\ loaded' = [r \in {x \in Rules : table[x].state = "live" /\ Compiles(table[x].condition)} |->
                  table[r].condition]
  /\ UNCHANGED <<table, fired, visit>>

AddRule(r, condition) ==
  /\ Compiles(condition) /\ Edit
  /\ loaded' = Set(loaded, r, condition)
  /\ UNCHANGED <<table, fired, visit>>

RemoveRule(r) ==
  /\ r \in DOMAIN loaded /\ Edit
  /\ loaded' = Without(loaded, r) /\ fired' = Without(fired, r)
  /\ UNCHANGED <<table, visit>>

EvaluateRule(r) ==
  /\ visit = None /\ r \in DOMAIN loaded
  /\ visit' = [rule |-> r, matched |-> loaded[r] = "true"]
  /\ UNCHANGED <<table, loaded, fired, edits>> /\ OthersStay

\* What was evaluated may have been removed meanwhile.
HandleEvaluationResult ==
  /\ visit # None
  /\ LET r == visit.rule
     IN fired' = IF visit.matched /\ r \notin DOMAIN fired THEN Set(fired, r, now)
                 ELSE IF ~visit.matched /\ r \in DOMAIN fired /\ now - fired[r] > Timeout
                      THEN Without(fired, r) ELSE fired
  /\ visit' = None
  /\ UNCHANGED <<table, loaded, edits>> /\ OthersStay

-----------------------------------------------------------------------------
(* Alerts.                                                                  *)

Op(c) == plan.calls[c].op
Fingerprint(c) == plan.calls[c].print
Goto(c, next) == call' = [call EXCEPT ![c] = next]
Finish(c) == Goto(c, [pc |-> "done"])
\* Announces the alert to each enabled channel, and goes on.
Announce(c, status, next) ==
  Goto(c, [pc |-> "announce", status |-> status, todo |-> plan.channels, next |-> next])
RowsOnly == UNCHANGED <<plan, now, evaluator, notifier>>

\* No silence ever matches.  An alert known is counted, and announced when it
\* was not firing and is.
ProcessAlert(c) ==
  /\ call[c] = Idle /\ Op(c) = "process"
  /\ LET f == Fingerprint(c) firing == plan.calls[c].status = "firing"
     IN IF f \notin DOMAIN cache THEN Goto(c, [pc |-> "insert"]) /\ UNCHANGED cache
        ELSE IF firing /\ cache[f].status # "firing"
             THEN /\ cache' = Set(cache, f, [status |-> "firing", fired |-> now])
                  /\ Announce(c, "firing", "save")
             ELSE Goto(c, [pc |-> "save"]) /\ UNCHANGED cache
  /\ RowsOnly /\ UNCHANGED rows

\* The slip of a table without the unique index.
CreateAnyAlert(c) ==
  /\ call[c].pc = "insert"
  /\ rows' = [rows EXCEPT ![Fingerprint(c)] = plan.calls[c].status]
  /\ Goto(c, [pc |-> "cache"])
  /\ RowsOnly /\ UNCHANGED cache

\* The fingerprint is unique, for resolved and for deleted rows as well.
CreateAlert(c) ==
  /\ call[c].pc = "insert"
  /\ IF rows[Fingerprint(c)] = "absent"
     THEN rows' = [rows EXCEPT ![Fingerprint(c)] = plan.calls[c].status] /\ Goto(c, [pc |-> "cache"])
     ELSE UNCHANGED rows /\ Finish(c)
  /\ RowsOnly /\ UNCHANGED cache

StoreAlert(c) ==
  /\ call[c].pc = "cache"
  /\ cache' = Set(cache, Fingerprint(c), [status |-> plan.calls[c].status, fired |-> now])
  /\ IF plan.calls[c].status = "firing" THEN Announce(c, "firing", "done") ELSE Finish(c)
  /\ RowsOnly /\ UNCHANGED rows

\* Save writes the processor's alert over the row, whatever a handler wrote
\* there; a row that was deleted comes back.
UpdateAlert(c) ==
  /\ call[c].pc = "save"
  /\ rows' = IF Fingerprint(c) \in DOMAIN cache
             THEN [rows EXCEPT ![Fingerprint(c)] = cache[Fingerprint(c)].status] ELSE rows
  /\ IF Op(c) = "process" THEN Finish(c) ELSE Announce(c, "resolved", "uncache")
  /\ RowsOnly /\ UNCHANGED cache

\* The loop resolves what has fired for too long, the caller anything.
ResolveAlert(c) ==
  /\ call[c] = Idle /\ Op(c) \in {"resolve", "expire"}
  /\ LET f == Fingerprint(c)
     IN IF /\ f \in DOMAIN cache
           /\ Op(c) = "expire" => cache[f].status = "firing" /\ now - cache[f].fired > Timeout
        THEN cache' = [cache EXCEPT ![f].status = "resolved"] /\ Goto(c, [pc |-> "save"])
        ELSE UNCHANGED cache /\ Finish(c)
  /\ RowsOnly /\ UNCHANGED rows

Uncache(c) ==
  /\ call[c].pc = "uncache"
  /\ cache' = Without(cache, Fingerprint(c))
  /\ Finish(c)
  /\ RowsOnly /\ UNCHANGED rows

\* The handlers: ResolveAlert by id, BatchResolveAlerts for firing rows,
\* DeleteAlert.  Only the row changes.
ChangeRow(c) ==
  /\ call[c] = Idle /\ Op(c) \in {"http", "batch", "delete"}
  /\ LET f == Fingerprint(c)
     IN rows' = CASE rows[f] \in {"absent", "deleted"} -> rows
                  [] Op(c) = "http" \/ (Op(c) = "batch" /\ rows[f] = "firing") ->
                       [rows EXCEPT ![f] = "resolved"]
                  [] Op(c) = "delete" -> [rows EXCEPT ![f] = "deleted"]
                  [] OTHER -> rows
  /\ Finish(c)
  /\ RowsOnly /\ UNCHANGED cache

-----------------------------------------------------------------------------
(* Notifications.                                                           *)

Type(ch) == plan.types[ch]
OthersKeep == UNCHANGED <<plan, now, evaluator, rows, cache>>

SendNotification(c, ch) ==
  /\ call[c].pc = "announce" /\ ch \in call[c].todo
  /\ queue' = IF Len(queue) = QueueSize THEN queue
              ELSE Append(queue, [print |-> Fingerprint(c), status |-> call[c].status,
                                  channel |-> ch, retries |-> 0])
  /\ Goto(c, [call[c] EXCEPT !.todo = @ \ {ch}])
  /\ OthersKeep /\ UNCHANGED <<retry, sending, history>>

Announced(c) ==
  /\ call[c].pc = "announce" /\ call[c].todo = {}
  /\ Goto(c, [pc |-> call[c].next])
  /\ OthersKeep /\ UNCHANGED notifier

Worker(w) ==
  /\ sending[w] = None /\ queue # <<>>
  /\ sending' = [sending EXCEPT ![w] = Head(queue)] /\ queue' = Tail(queue)
  /\ OthersKeep /\ UNCHANGED <<call, retry, history>>

RetryWorker ==
  /\ sending["retry"] = None /\ retry # <<>>
  /\ sending' = [sending EXCEPT !["retry"] = Head(retry)] /\ retry' = Tail(retry)
  /\ OthersKeep /\ UNCHANGED <<call, queue, history>>

Sent(task) == [print |-> task.print, channel |-> task.channel]

\* The slip of a send that forgets how often it has tried.
SendForgetful(w, ok) ==
  /\ sending[w] # None /\ (ok => Type(sending[w].channel) = "dingtalk")
  /\ history' = IF ok THEN history \union {Sent(sending[w])} ELSE history
  /\ retry' = IF ok \/ Len(retry) = QueueSize THEN retry ELSE Append(retry, sending[w])
  /\ sending' = [sending EXCEPT ![w] = None]
  /\ OthersKeep /\ UNCHANGED <<call, queue>>

\* Only one type of channel is implemented; the others fail and are retried.
Send(w, ok) ==
  /\ sending[w] # None /\ (ok => Type(sending[w].channel) = "dingtalk")
  /\ LET task == [sending[w] EXCEPT !.retries = @ + 1]
     IN IF ok THEN history' = history \union {Sent(sending[w])} /\ UNCHANGED retry
        ELSE /\ retry' = IF task.retries < 3 /\ Len(retry) < QueueSize
                         THEN Append(retry, task) ELSE retry
             /\ UNCHANGED history
  /\ sending' = [sending EXCEPT ![w] = None]
  /\ OthersKeep /\ UNCHANGED <<call, queue>>

\* Time matters to rules and to the loop only.
Tick ==
  /\ now < MaxTime /\ (plan.rules \/ \E c \in Calls : Op(c) = "expire")
  /\ now' = now + 1
  /\ UNCHANGED <<plan, evaluator, rows, cache, call, notifier>>

-----------------------------------------------------------------------------

Evaluate == \/ \E r \in Rules : EvaluateRule(r) \/ DeleteRule(r) \/ RemoveRule(r)
            \/ \E r \in Rules, condition \in Conditions :
                 \/ CreateRule(r, condition) \/ AddRule(r, condition)
                 \/ \E enabled \in BOOLEAN : UpdateRule(r, condition, enabled)
            \/ ReloadRules \/ HandleEvaluationResult

Process(c) == \/ ProcessAlert(c) \/ CreateAlert(c) \/ StoreAlert(c) \/ UpdateAlert(c)
              \/ ResolveAlert(c) \/ Uncache(c) \/ ChangeRow(c) \/ Announced(c)
              \/ \E ch \in Channels : SendNotification(c, ch)

Notify(w) == \/ (w \in Workers /\ Worker(w)) \/ (w = "retry" /\ RetryWorker)
             \/ \E ok \in BOOLEAN : Send(w, ok)

\* A scenario is about the rules or about the alerts.
Next ==
  \/ plan.rules /\ Evaluate
  \/ \E c \in Calls : Process(c)
  \/ \E w \in Workers \union {"retry"} : Notify(w)
  \/ Tick

Fairness == \A w \in Workers \union {"retry"} : WF_vars(Notify(w))
Spec == Init /\ [][Next]_vars /\ Fairness

-----------------------------------------------------------------------------

(* Of the calls that report a new alert at the same time one announces it: *)
(* the others are refused by the table, not by the cache they have read.   *)
CreatedOnce ==
  [][\A c, d \in Calls : c # d /\ Fingerprint(c) = Fingerprint(d) /\ call[c].pc = "cache"
       => call'[d].pc # "cache"]_vars

(* What is announced is sent, given up or dropped: no task goes round      *)
(* between the notifier's two queues for ever.                             *)
NotificationsEnd == []<>(queue = <<>> /\ retry = <<>>
                         /\ \A w \in Workers \union {"retry"} : sending[w] = None)
=============================================================================
