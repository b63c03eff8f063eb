------------------------------ MODULE Catalog ------------------------------
(***************************************************************************)
(* The catalogue of the release centre (pkg/release/api, pkg/release/      *)
(* credential): projects, release items, environments, targets, variables, *)
(* versions, callback configurations, message templates, credentials with  *)
(* their links to projects, and members.  The handlers use no transaction: *)
(* each reads with one statement and writes with another, and requests run *)
(* side by side.  A row has two columns and, of a version, the number of   *)
(* deployments.                                                            *)
(***************************************************************************)
EXTENDS Integers, FiniteSets

CONSTANTS
  Requests,     \* requests, each one handler
  Users,        \* users of sys_users
  Plans         \* scenarios

VARIABLES
  plan,         \* kind : the kind of row, system : a template of the system,
                \* calls : Requests -> [op, column, user, role]
  row,          \* the row the requests are about
  gone,         \* the row was deleted (history)
  linked,       \* the credential is linked to the project
  members,      \* rows of project_members: [by, user, role]
  request,      \* what each handler does
  deployed,     \* successful deployments of the version (history)
  races,        \* operations that were under way at the same time (history)
  demoted       \* an owner was given another role (history)

vars == <<plan, row, gone, linked, members, request, deployed, races, demoted>>

\* Kinds whose Updater writes the whole row with Save, and those it writes
\* column by column.  A deletion marks the row; that of a variable removes it,
\* which Save does not tell apart.
Whole == {"project", "environment", "target", "variable", "version", "callback", "template"}
ByColumn == {"item", "credential"}
Kinds == Whole \union ByColumn
States == {"none", "live", "deleted"}
Roles == {"owner", "viewer"}
Nobody == "nobody"
Row == [state : States, a : Requests \union {Nobody}, b : Requests \union {Nobody}, deploys : 0 .. Cardinality(Requests)]
NoRow == [state |-> "none", a |-> Nobody, b |-> Nobody, deploys |-> 0]
Idle == [pc |-> "idle"]
Done == [pc |-> "done"]

Op(r) == plan.calls[r].op
User(r) == plan.calls[r].user
Rows(u) == {m \in members : m.user = u}
Owners == {m \in members : m.role = "owner"}
UnderWay(q) == request[q] \notin {Idle, Done}

TypeOK ==
  /\ plan.kind \in Kinds /\ plan.system \in BOOLEAN
  /\ row \in Row /\ gone \in BOOLEAN /\ linked \in BOOLEAN
  /\ \A m \in members : m.user \in Users /\ m.role \in Roles
  /\ \A r \in Requests : request[r].pc \in {"idle", "save", "create", "count", "check", "delete", "done"}
  /\ deployed \in 0 .. Cardinality(Requests) /\ demoted \in BOOLEAN

Init ==
  /\ plan \in Plans
  /\ row = IF plan.fresh THEN NoRow ELSE [NoRow EXCEPT !.state = "live"]
  /\ gone = FALSE /\ linked = FALSE
  /\ members = {[by |-> Nobody, user |-> u, role |-> "owner"] : u \in plan.owners}
  /\ request = [r \in Requests |-> Idle]
  /\ deployed = 0 /\ races = {} /\ demoted = FALSE

-----------------------------------------------------------------------------
(* Requests.                                                               *)

Begin(r, op) ==
  /\ request[r] = Idle /\ Op(r) = op
  /\ races' = races \union {{op, Op(q)} : q \in {q \in Requests \ {r} : UnderWay(q)}}
  /\ UNCHANGED <<plan, deployed>>
Goto(r, s) == request' = [request EXCEPT ![r] = s]
Proceed(r, pc) ==
  /\ request[r].pc = pc
  /\ UNCHANGED <<plan, deployed, races>>
NoMember == UNCHANGED <<members, demoted>>
NoRowChange == UNCHANGED <<row, gone>>

-----------------------------------------------------------------------------
(* Rows.                                                                   *)

Create(r, k) ==
  /\ plan.kind = k /\ Begin(r, "create")
  /\ row.state = "none"
  /\ row' = [row EXCEPT !.state = "live", !.a = r, !.b = r]
  /\ Goto(r, Done)
  /\ NoMember /\ UNCHANGED <<gone, linked>>

\* What the request makes of the row it has read: it sets the column it names.
\* A callback configuration is replaced by the body, whose other column is
\* empty; a template always takes is_default from it; a credential has both
\* its columns replaced.
Edited(r) ==
  LET c == plan.calls[r].column IN
  [row EXCEPT !.a = IF c = "a" \/ plan.kind = "credential" THEN r
                    ELSE IF plan.kind = "callback" THEN Nobody ELSE @,
              !.b = IF c = "b" \/ plan.kind \in {"credential", "template"} THEN r
                    ELSE IF plan.kind = "callback" THEN Nobody ELSE @]

\* First finds no row that is deleted.
Load(r, k) ==
  /\ plan.kind = k /\ Begin(r, "update")
  /\ Goto(r, IF row.state # "live" \/ plan.system THEN Done
             ELSE [pc |-> "save", copy |-> Edited(r)])
  /\ NoRowChange /\ NoMember /\ UNCHANGED linked

\* Save updates the row by its key; when that changes no row, since it was
\* deleted, it inserts it and overwrites the row with that key.
SaveRow(r) ==
  row' = [request[r].copy EXCEPT !.state = "live"]

SaveColumns(r) ==
  LET c == plan.calls[r].column
      both == plan.kind = "credential" IN
  row' = IF row.state # "live" THEN row
         ELSE [row EXCEPT !.a = IF both \/ c = "a" THEN r ELSE @,
                          !.b = IF both \/ c = "b" THEN r ELSE @]

Save(r) ==
  /\ Proceed(r, "save")
  /\ IF plan.kind \in Whole THEN SaveRow(r) ELSE SaveColumns(r)
  /\ Goto(r, Done)
  /\ NoMember /\ UNCHANGED <<gone, linked>>

Delete(r, k) ==
  /\ plan.kind = k /\ Begin(r, "delete")
  /\ IF row.state = "live" /\ ~plan.system
     THEN row' = [row EXCEPT !.state = "deleted"] /\ gone' = TRUE
     ELSE NoRowChange
  /\ Goto(r, Done)
  /\ NoMember /\ UNCHANGED linked

Projects(r) == Create(r, "project") \/ Load(r, "project") \/ Delete(r, "project")
ReleaseItems(r) == Create(r, "item") \/ Load(r, "item") \/ Delete(r, "item")
Environments(r) == Create(r, "environment") \/ Load(r, "environment") \/ Delete(r, "environment")
Targets(r) == Create(r, "target") \/ Load(r, "target") \/ Delete(r, "target")
Variables(r) == Create(r, "variable") \/ Load(r, "variable") \/ Delete(r, "variable")
CreateVersion(r) == Create(r, "version")
UpdateVersion(r) == Load(r, "version")
DeleteVersion(r) == Delete(r, "version")
CreateCallbackConfig(r) == Create(r, "callback")
UpdateCallbackConfig(r) == Load(r, "callback")
DeleteCallbackConfig(r) == Delete(r, "callback")
CreateMessageTemplate(r) == Create(r, "template")
UpdateMessageTemplate(r) == Load(r, "template")
DeleteMessageTemplate(r) == Delete(r, "template")
CreateCredential(r) == Create(r, "credential")
UpdateCredential(r) == Load(r, "credential")

\* A deploy task that ends adds its successes to the version in the database.
Deployed(r) ==
  /\ plan.kind = "version"
  /\ request[r] = Idle /\ Op(r) = "deploy"
  /\ races' = races \union {{"deploy", Op(q)} : q \in {q \in Requests : UnderWay(q)}}
  /\ row' = IF row.state = "live" THEN [row EXCEPT !.deploys = @ + 1] ELSE row
  /\ deployed' = IF row.state = "live" THEN deployed + 1 ELSE deployed
  /\ Goto(r, Done)
  /\ NoMember /\ UNCHANGED <<plan, gone, linked>>

-----------------------------------------------------------------------------
(* Credentials: the links are counted, or the credential is looked for,    *)
(* before the row is deleted or the link is made.                          *)

DeleteCredential(r) ==
  \/ /\ plan.kind = "credential" /\ Begin(r, "delete")
     /\ Goto(r, IF linked THEN Done ELSE [pc |-> "delete"])
     /\ NoRowChange /\ NoMember /\ UNCHANGED linked
  \/ /\ Op(r) = "delete" /\ Proceed(r, "delete")
     /\ row' = IF row.state = "live" THEN [row EXCEPT !.state = "deleted"] ELSE row
     /\ gone' = (gone \/ row.state = "live")
     /\ Goto(r, Done)
     /\ NoMember /\ UNCHANGED linked

AddProjectCredential(r) ==
  \/ /\ plan.kind = "credential" /\ Begin(r, "link")
     /\ Goto(r, IF row.state = "live" THEN [pc |-> "create"] ELSE Done)
     /\ NoRowChange /\ NoMember /\ UNCHANGED linked
  \/ /\ Op(r) = "link" /\ Proceed(r, "create")
     /\ linked' = TRUE
     /\ Goto(r, Done)
     /\ NoRowChange /\ NoMember

RemoveProjectCredential(r) ==
  /\ plan.kind = "credential" /\ Begin(r, "unlink")
  /\ linked' = FALSE
  /\ Goto(r, Done)
  /\ NoRowChange /\ NoMember

-----------------------------------------------------------------------------
(* Members of the project.                                                 *)

AddMember(r) ==
  \/ /\ Begin(r, "add")
     /\ Goto(r, IF User(r) \in Users /\ Rows(User(r)) = {} THEN [pc |-> "create"] ELSE Done)
     /\ NoRowChange /\ NoMember /\ UNCHANGED linked
  \/ /\ Op(r) = "add" /\ Proceed(r, "create")
     /\ members' = members \union {[by |-> r, user |-> User(r), role |-> plan.calls[r].role]}
     /\ Goto(r, Done)
     /\ NoRowChange /\ UNCHANGED <<linked, demoted>>

\* The first row of the user is found, then its role is changed by its id.
UpdateMember(r) ==
  \/ /\ Begin(r, "role")
     /\ \/ Rows(User(r)) = {} /\ Goto(r, Done)
        \/ \E m \in Rows(User(r)) : Goto(r, [pc |-> "save", of |-> m.by])
     /\ NoRowChange /\ NoMember /\ UNCHANGED linked
  \/ /\ Op(r) = "role" /\ Proceed(r, "save")
     /\ LET mine == {m \in Rows(User(r)) : m.by = request[r].of} IN
        /\ members' = (members \ mine) \union {[m EXCEPT !.role = plan.calls[r].role] : m \in mine}
        /\ demoted' = (demoted \/ (plan.calls[r].role # "owner" /\ mine \intersect Owners # {}))
     /\ Goto(r, Done)
     /\ NoRowChange /\ UNCHANGED linked

\* The slip of a check that lets the only owner go.
IsLastOfMany(m, count) == m.role = "owner" /\ count < 1
IsLastOwner(m, count) == m.role = "owner" /\ count <= 1

\* The owners are counted, the member is looked for, its rows are deleted.
RemoveMember(r) ==
  \/ /\ Begin(r, "remove")
     /\ Goto(r, [pc |-> "check", owners |-> Cardinality(Owners)])
     /\ NoRowChange /\ NoMember /\ UNCHANGED linked
  \/ /\ Proceed(r, "check")
     /\ \/ Rows(User(r)) = {} /\ Goto(r, Done)
        \/ \E m \in Rows(User(r)) :
             Goto(r, IF IsLastOwner(m, request[r].owners) THEN Done ELSE [pc |-> "delete"])
     /\ NoRowChange /\ NoMember /\ UNCHANGED linked
  \/ /\ Op(r) = "remove" /\ Proceed(r, "delete")
     /\ members' = members \ Rows(User(r))
     /\ Goto(r, Done)
     /\ NoRowChange /\ UNCHANGED <<linked, demoted>>

-----------------------------------------------------------------------------
Handle(r) ==
  \/ Projects(r) \/ ReleaseItems(r) \/ Environments(r) \/ Targets(r) \/ Variables(r)
  \/ CreateVersion(r) \/ UpdateVersion(r) \/ DeleteVersion(r) \/ Deployed(r)
  \/ CreateCallbackConfig(r) \/ UpdateCallbackConfig(r) \/ DeleteCallbackConfig(r)
  \/ CreateMessageTemplate(r) \/ UpdateMessageTemplate(r) \/ DeleteMessageTemplate(r)
  \/ CreateCredential(r) \/ UpdateCredential(r) \/ DeleteCredential(r)
  \/ AddProjectCredential(r) \/ RemoveProjectCredential(r)
  \/ AddMember(r) \/ UpdateMember(r) \/ RemoveMember(r)
  \/ Op(r) # "role" /\ Save(r)

Next == \E r \in Requests : Handle(r)

Spec == Init /\ [][Next]_vars

-----------------------------------------------------------------------------
(* What goes wrong needs the one race that explains it.  A project has no  *)
(* owner only after an owner was given another role or two removals met; a *)
(* user is a member twice only if two additions met; a link to a deleted   *)
(* credential needs a link made during the deletion; a deleted row is back *)
(* only where the whole row is saved by an update that the deletion met,   *)
(* never of the kinds that are updated by columns; and a deployment is     *)
(* missing from a version only if the version was edited meanwhile.        *)
OnlyRacesBreak ==
  /\ plan.owners # {} /\ Owners = {} => demoted \/ {"remove"} \in races
  /\ (\E m, n \in members : m # n /\ m.user = n.user) => {"add"} \in races
  /\ linked /\ row.state = "deleted" => {"link", "delete"} \in races
  /\ gone /\ row.state = "live" => plan.kind \in Whole /\ {"update", "delete"} \in races
  /\ row.deploys # deployed => {"update", "deploy"} \in races
=============================================================================
