---------------------------- MODULE MCManagement ----------------------------
(***************************************************************************)
(* Scenarios for the parts of Management.                                  *)
(***************************************************************************)
EXTENDS Management, TLC

Operations(a, b, c, d) == "h1" :> a @@ "h2" :> b @@ "h3" :> c @@ "h4" :> d
MCConfigPlans == {
  Operations("lock", "lock", "lock", "none"), Operations("create", "update", "update", "release"),
  Operations("create", "release", "rollback", "none"), Operations("create", "update", "delete", "none"),
  Operations("create", "addRule", "dropRule", "none"), Operations("create", "addRule", "editRule", "delete")}

Subscription(o, c, k) == [op |-> o, client |-> c, key |-> k]
Subscriptions(x, y, z, types) ==
  [calls |-> <<x, y, z>>, pushes |-> [p \in 1 .. 2 |-> [key |-> "k1", gray |-> p = 1 /\ types # {}]],
   rules |-> types, sampled |-> {"c1"}]
OneKey ==
  Subscriptions(Subscription("subscribe", "c1", "k1"), Subscription("subscribe", "c2", "k1"),
                Subscription("unsubscribe", "c1", "k1"), {"ip", "percentage"})
TwoKeys ==
  Subscriptions(Subscription("subscribe", "c1", "k1"), Subscription("subscribe", "c1", "k2"),
                Subscription("unsubscribe", "c1", "k2"), {})
MCPushPlans == {OneKey, TwoKeys}

AlertCall(o, s) == [op |-> o, print |-> "f1", status |-> s]
AlertScenario(x, y, z, channels) ==
  [calls |-> <<x, y, z>>, channels |-> channels, types |-> "d1" :> "dingtalk" @@ "d2" :> "email", rules |-> FALSE]
Firing == AlertCall("process", "firing")
MCAlertPlans == {
  AlertScenario(Firing, Firing, AlertCall("resolve", "firing"), {"d1"}),
  AlertScenario(Firing, AlertCall("http", "firing"), AlertCall("none", "firing"), {"d1", "d2"}),
  AlertScenario(AlertCall("process", "pending"), Firing, AlertCall("expire", "firing"), {"d2"}),
  AlertScenario(Firing, AlertCall("batch", "firing"), AlertCall("delete", "firing"), {"d1"}),
  [AlertScenario(AlertCall("none", "firing"), AlertCall("none", "firing"), AlertCall("none", "firing"), {"d1"})
     EXCEPT !.rules = TRUE]}

Create == [op |-> "create", task |-> 2, expr |-> "e1", groups |-> {1, 2}]
Update(t, e, s, regroup, gs) ==
  [op |-> "update", task |-> t, expr |-> e, status |-> s, regroup |-> regroup, groups |-> gs]
Delete(t) == [op |-> "delete", task |-> t]
NoRow == [expr |-> "none", gone |-> TRUE]
TaskScenario(x, y, z) ==
  [rows |-> <<[expr |-> "e1", gone |-> FALSE], NoRow>>, bound |-> {<<1, 1>>}, calls |-> <<x, y, z>>]
MCTaskPlans == {
  TaskScenario(Update(1, "e2", 1, TRUE, {2}), Delete(1), Create),
  TaskScenario(Update(1, "bad", 1, FALSE, {}), Update(1, "e2", 0, FALSE, {}), Create),
  TaskScenario(Update(1, "e2", 1, FALSE, {}), Update(1, "keep", 0, FALSE, {}), [op |-> "reset", task |-> 1]),
  TaskScenario(Create, Delete(2), [op |-> "trigger", task |-> 1]),
  TaskScenario([Create EXCEPT !.expr = "bad"], Update(2, "e2", 1, TRUE, {2}),
               [op |-> "dropgroup", task |-> 0, groups |-> {2}])}

Reporting(n, e) == [kind |-> "device", ids |-> <<>>, reports |-> n, edits |-> e]
MCReportPlans ==
  {Reporting(2, 1), Reporting(3, 0)}
  \union {[Reporting(0, 0) EXCEPT !.kind = "stream", !.ids = i] :
            i \in {<<1, 2, 3>>, <<2, 1, 3>>, <<1, 3, 2>>, <<3, 1, 2>>}}
\* One client with two sessions, whose shard looks at it.
MCClientOf == [s \in {"s1", "s2"} |-> "a"]
MCShardOf == "a" :> "i"
=============================================================================
