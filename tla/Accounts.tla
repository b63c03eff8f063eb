------------------------------ MODULE Accounts ------------------------------
(***************************************************************************)
(* Users, roles and sessions (pkg/auth): the services behind the handlers  *)
(* of auth_api.go, which check with one statement and write with another,  *)
(* and the tokens of jwt.go.  A deletion marks a row; its name and its     *)
(* number stay taken in the unique indexes, but the checks do not see it.  *)
(***************************************************************************)
EXTENDS Integers, FiniteSets, FiniteSetsExt

CONSTANTS
  Requests,     \* requests, each one operation
  Users,        \* user names
  Menus,        \* menu entries
  MaxRole,      \* bound: role numbers
  Lifetime,     \* ExpiresTime of a token
  MaxTime,      \* bound: the clock
  Plans         \* scenarios

VARIABLES
  plan,         \* calls : Requests -> [op, user, role, on, menus, name],
                \* users, roles : those at the start
  users,        \* rows of sys_users
  roles,        \* rows of sys_authorities: [state, name]
  menusOf,      \* sys_authority_menus: pairs of a role and a menu
  request,      \* what each handler does
  now,
  tokens,       \* the newest token of each browser, by user, or NoToken
  seen,         \* when the user was served last
  blacklist,    \* tokens logged out
  races,        \* operations under way at the same time (history)
  wanted,       \* the menus a role was given last (history)
  unchecked,    \* users given a role that is not there (history)
  refused       \* what was refused without a fault of the request (history)

vars == <<plan, users, roles, menusOf, request, now, tokens, seen, blacklist, races,
          wanted, unchecked, refused>>
history == <<wanted, unchecked, refused>>
accounts == <<users, roles, menusOf>>
sessions == <<now, tokens, seen, blacklist>>

Numbers == 1 .. MaxRole
\* The role Register gives; no check of it.
Default == 0
Idle == [pc |-> "idle"]
Done == [pc |-> "done"]
Gone == [state |-> "none", password |-> FALSE, role |-> Default, enabled |-> FALSE]
NoToken == [user |-> "none", issued |-> -Lifetime]

Call(r) == plan.calls[r]
Live(f) == {x \in DOMAIN f : f[x].state = "live"}
MenusOf(n) == {m \in Menus : <<n, m>> \in menusOf}
UnderWay(q) == request[q] \notin {Idle, Done}

TypeOK ==
  /\ \A u \in Users : users[u].state \in {"none", "live", "deleted"}
  /\ \A n \in Numbers : roles[n].state \in {"none", "live", "deleted"}
  /\ menusOf \subseteq Numbers \X Menus
  /\ \A r \in Requests : request[r].pc \in {"idle", "write", "insert", "parse", "done"}
  /\ now \in 0 .. MaxTime /\ DOMAIN tokens = Users
  /\ \A t \in blacklist : t.user \in Users

Init ==
  /\ plan \in Plans
  /\ users = [u \in Users |-> IF u \in plan.users
                              THEN [state |-> "live", password |-> TRUE, role |-> 1, enabled |-> TRUE]
                              ELSE Gone]
  /\ roles = [n \in Numbers |-> IF n \in plan.roles THEN [state |-> "live", name |-> n]
                                ELSE [state |-> "none", name |-> n]]
  /\ menusOf = {}
  /\ request = [r \in Requests |-> Idle]
  /\ now = 0 /\ tokens = [u \in Users |-> NoToken] /\ seen = [u \in Users |-> 0] /\ blacklist = {}
  /\ races = {} /\ wanted = [n \in Numbers |-> {}] /\ unchecked = {} /\ refused = {}

Begin(r, op) ==
  /\ request[r] = Idle /\ Call(r).op = op
  /\ races' = races \union {{op, Call(q).op} : q \in {q \in Requests \ {r} : UnderWay(q)}}
  /\ UNCHANGED plan
Proceed(r, op, pc) ==
  /\ Call(r).op = op /\ request[r].pc = pc
  /\ UNCHANGED <<plan, races>>
Goto(r, s) == request' = [request EXCEPT ![r] = s]
Write == [pc |-> "write"]

-----------------------------------------------------------------------------
(* Users.                                                                  *)

Count(r, op) ==
  /\ Begin(r, op)
  /\ Goto(r, IF Call(r).user \in Live(users) THEN Done ELSE Write)
  /\ UNCHANGED <<accounts, sessions, history>>

\* The index on the name also holds the names of deleted users.
Insert(r, row) ==
  IF users[Call(r).user].state = "none"
  THEN users' = [users EXCEPT ![Call(r).user] = row] /\ UNCHANGED refused
  ELSE users' = users /\ refused' = refused \union {r}

Register(r) ==
  \/ Count(r, "register")
  \/ /\ Proceed(r, "register", "write")
     /\ Insert(r, [state |-> "live", password |-> TRUE, role |-> Default, enabled |-> TRUE])
     /\ Goto(r, Done)
     /\ UNCHANGED <<roles, menusOf, sessions, wanted, unchecked>>

\* The password of the body is never decoded; the role is not looked for.
CreateUser(r) ==
  \/ Count(r, "create")
  \/ /\ Proceed(r, "create", "write")
     /\ Insert(r, [state |-> "live", password |-> FALSE, role |-> Call(r).role, enabled |-> TRUE])
     /\ unchecked' = IF Call(r).role \in Live(roles) THEN unchecked ELSE unchecked \union {Call(r).user}
     /\ Goto(r, Done)
     /\ UNCHANGED <<roles, menusOf, sessions, wanted>>

\* Every column of the body is written, of a user that is not deleted.
UpdateUser(r) ==
  LET u == Call(r).user IN
  /\ Begin(r, "update")
  /\ IF u \in Live(users)
     THEN /\ users' = [users EXCEPT ![u].role = Call(r).role, ![u].enabled = Call(r).on]
          /\ unchecked' = IF Call(r).role \in Live(roles) THEN unchecked ELSE unchecked \union {u}
     ELSE UNCHANGED <<users, unchecked>>
  /\ Goto(r, Done)
  /\ UNCHANGED <<roles, menusOf, sessions, wanted, refused>>

DeleteUser(r) ==
  LET u == Call(r).user IN
  /\ Begin(r, "remove")
  /\ users' = IF u \in Live(users) THEN [users EXCEPT ![u].state = "deleted"] ELSE users
  /\ Goto(r, Done)
  /\ UNCHANGED <<roles, menusOf, sessions, history>>

ResetPassword(r) ==
  LET u == Call(r).user IN
  /\ Begin(r, "reset")
  /\ users' = IF u \in Live(users) THEN [users EXCEPT ![u].password = TRUE] ELSE users
  /\ Goto(r, Done)
  /\ UNCHANGED <<roles, menusOf, sessions, history>>

-----------------------------------------------------------------------------
(* Roles.  The number of a new role follows the largest number of a role   *)
(* that is not deleted.                                                    *)

Largest == Max(Live(roles) \union {0})
NewNumber == Largest + 1
NameTaken(r) == \E n \in Live(roles) : roles[n].name = Call(r).name

CreateAuthority(r) ==
  \/ /\ Begin(r, "addRole")
     /\ Goto(r, IF NameTaken(r) \/ NewNumber > MaxRole THEN Done
                ELSE [pc |-> "write", number |-> NewNumber])
     /\ UNCHANGED <<accounts, sessions, history>>
  \/ /\ Proceed(r, "addRole", "write")
     /\ LET n == request[r].number
            free == roles[n].state = "none" /\ \A m \in Numbers : roles[m].state # "none" => roles[m].name # Call(r).name
        IN IF free THEN roles' = [roles EXCEPT ![n] = [state |-> "live", name |-> Call(r).name]] /\ UNCHANGED refused
           ELSE roles' = roles /\ refused' = refused \union {r}
     /\ Goto(r, Done)
     /\ UNCHANGED <<users, menusOf, sessions, wanted, unchecked>>

\* In a transaction: the role and its menus, or nothing.
CopyAuthority(r) ==
  \/ /\ Begin(r, "copyRole")
     /\ Goto(r, IF NameTaken(r) \/ NewNumber > MaxRole \/ Call(r).role \notin Live(roles) THEN Done
                ELSE [pc |-> "write", number |-> NewNumber, menus |-> MenusOf(Call(r).role)])
     /\ UNCHANGED <<accounts, sessions, history>>
  \/ /\ Proceed(r, "copyRole", "write")
     /\ LET n == request[r].number
            free == /\ \A m \in Numbers : roles[m].state # "none" => roles[m].name # Call(r).name
                    /\ roles[n].state = "none" /\ MenusOf(n) \intersect request[r].menus = {}
        IN IF free
           THEN /\ roles' = [roles EXCEPT ![n] = [state |-> "live", name |-> Call(r).name]]
                /\ menusOf' = menusOf \union ({n} \X request[r].menus)
                /\ wanted' = [wanted EXCEPT ![n] = @ \union request[r].menus]
                /\ UNCHANGED refused
           ELSE UNCHANGED <<roles, menusOf, wanted>> /\ refused' = refused \union {r}
     /\ Goto(r, Done)
     /\ UNCHANGED <<users, sessions, unchecked>>

UpdateAuthority(r) ==
  LET n == Call(r).role IN
  \/ /\ Begin(r, "rename")
     /\ Goto(r, IF n \notin Live(roles) \/ \E m \in Live(roles) \ {n} : roles[m].name = Call(r).name
                THEN Done ELSE Write)
     /\ UNCHANGED <<accounts, sessions, history>>
  \/ /\ Proceed(r, "rename", "write")
     /\ roles' = IF n \in Live(roles) /\ \A m \in Numbers \ {n} : roles[m].state # "none" => roles[m].name # Call(r).name
                 THEN [roles EXCEPT ![n].name = Call(r).name] ELSE roles
     /\ Goto(r, Done)
     /\ UNCHANGED <<users, menusOf, sessions, history>>

\* The slip of a deletion that does not look for users of the role.
UnusedOrNot(n) == TRUE
Unused(n) == \A u \in Live(users) : users[u].role # n

DeleteAuthority(r) ==
  LET n == Call(r).role IN
  \/ /\ Begin(r, "dropRole")
     /\ Goto(r, IF Unused(n) THEN Write ELSE Done)
     /\ UNCHANGED <<accounts, sessions, history>>
  \/ /\ Proceed(r, "dropRole", "write")
     /\ roles' = IF n \in Live(roles) THEN [roles EXCEPT ![n].state = "deleted"] ELSE roles
     /\ Goto(r, Done)
     /\ UNCHANGED <<users, menusOf, sessions, history>>

\* The links are deleted, then inserted one by one; an error is not looked at.
SetMenuAuthority(r) ==
  LET n == Call(r).role IN
  \/ /\ Begin(r, "setMenus")
     /\ menusOf' = {p \in menusOf : p[1] # n}
     /\ wanted' = [wanted EXCEPT ![n] = Call(r).menus]
     /\ Goto(r, [pc |-> "insert", menus |-> Call(r).menus])
     /\ UNCHANGED <<users, roles, sessions, unchecked, refused>>
  \/ /\ Proceed(r, "setMenus", "insert")
     /\ \/ /\ request[r].menus = {}
           /\ Goto(r, Done) /\ UNCHANGED menusOf
        \/ \E m \in request[r].menus :
             /\ menusOf' = menusOf \union {<<n, m>>}
             /\ Goto(r, [pc |-> "insert", menus |-> request[r].menus \ {m}])
     /\ UNCHANGED <<users, roles, sessions, history>>

-----------------------------------------------------------------------------
(* Sessions.  A token is its user and the second it was issued in: two of  *)
(* one second are the same string.                                         *)

Token(u) == [user |-> u, issued |-> now]
Valid(t) == now < t.issued + Lifetime
\* The buffer, in nanoseconds, is compared with seconds: every token of a
\* session is about to expire, and every request renews it.
NeverRefresh(t) == FALSE
Refresh(t) == TRUE

Login(r) ==
  LET u == Call(r).user IN
  /\ Begin(r, "login")
  /\ tokens' = IF u \in Live(users) /\ users[u].enabled /\ users[u].password
               THEN [tokens EXCEPT ![u] = Token(u)] ELSE tokens
  /\ seen' = [seen EXCEPT ![u] = now]
  /\ Goto(r, Done)
  /\ UNCHANGED <<accounts, now, blacklist, history>>

\* The middleware looks into the blacklist, then parses and renews the token.
Authenticate(r) ==
  LET u == Call(r).user IN
  \/ /\ Begin(r, "visit")
     /\ tokens[u] # NoToken
     /\ Goto(r, IF tokens[u] \in blacklist THEN Done ELSE [pc |-> "parse", token |-> tokens[u]])
     /\ UNCHANGED <<accounts, sessions, history>>
  \/ /\ Proceed(r, "visit", "parse")
     /\ IF Valid(request[r].token)
        THEN /\ tokens' = IF Refresh(request[r].token) THEN [tokens EXCEPT ![u] = Token(u)] ELSE tokens
             /\ UNCHANGED refused
        ELSE tokens' = tokens /\ refused' = refused \union {r}
     /\ seen' = [seen EXCEPT ![u] = now]
     /\ Goto(r, Idle)
     /\ UNCHANGED <<accounts, now, blacklist, wanted, unchecked>>

Logout(r) ==
  LET u == Call(r).user IN
  /\ Begin(r, "logout")
  /\ tokens[u] # NoToken
  /\ blacklist' = IF tokens[u] \in blacklist \/ ~Valid(tokens[u]) THEN blacklist ELSE blacklist \union {tokens[u]}
  /\ tokens' = [tokens EXCEPT ![u] = NoToken]
  /\ Goto(r, Done)
  /\ UNCHANGED <<accounts, now, seen, history>>

\* A second passes; a browser in use asks within a token's lifetime.
Tick ==
  /\ now < MaxTime
  /\ \A u \in Users : tokens[u] # NoToken => now - seen[u] < Lifetime - 1
  /\ \A r \in Requests : request[r].pc # "parse"
  /\ now' = now + 1
  /\ UNCHANGED <<plan, accounts, request, tokens, seen, blacklist, races, history>>

-----------------------------------------------------------------------------
Handle(r) ==
  \/ Register(r) \/ CreateUser(r) \/ UpdateUser(r) \/ DeleteUser(r) \/ ResetPassword(r)
  \/ CreateAuthority(r) \/ CopyAuthority(r) \/ UpdateAuthority(r) \/ DeleteAuthority(r) \/ SetMenuAuthority(r)
  \/ Login(r) \/ Authenticate(r) \/ Logout(r)

Next == Tick \/ \E r \in Requests : Handle(r)

Spec == Init /\ [][Next]_vars

-----------------------------------------------------------------------------
Met(x, y) == {x, y} \in races

(* What goes wrong with accounts has one of the causes named here.  A name *)
(* that is free for the check is refused only if a deleted row has it, or  *)
(* the number of a deleted role is the next one, or two requests met; the  *)
(* role of a user is gone only if nobody looked for it when it was given,  *)
(* or the deletion met the request that gave it; a role has the menus it   *)
(* was given last unless two requests for its menus met, also as a copy.   *)
AccountsBreakForCause ==
  /\ \A r \in refused : Call(r).op \in {"register", "create"} =>
       users[Call(r).user].state = "deleted" \/ \E x, y \in {"register", "create"} : Met(x, y)
  /\ \A r \in refused : Call(r).op \in {"addRole", "copyRole"} =>
       \/ \E n \in Numbers : roles[n].state = "deleted"
       \/ \E x, y \in {"addRole", "copyRole", "rename"} : Met(x, y)
  /\ \A u \in Live(users) : users[u].role # Default /\ users[u].role \notin Live(roles) =>
       u \in unchecked \/ \E x \in {"create", "update"} : Met("dropRole", x)
  /\ (\A r \in Requests : request[r].pc # "insert") /\ ~Met("setMenus", "setMenus")
       => \A n \in Numbers : MenusOf(n) = wanted[n]

(* A browser that comes back within the lifetime of a token is served: its *)
(* token is renewed on the way.                                            *)
ActiveIsServed == \A r \in refused : Call(r).op # "visit"
=============================================================================
