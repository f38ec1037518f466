---------------------------- MODULE OfficeAccounts ----------------------------
(***************************************************************************)
(* Who may use the office: its accounts and sessions (office/auth,          *)
(* office/httpapi/users.go, auth.go, session.go, setup.go), the command     *)
(* that lets a locked-out Admin in again (office/reset_admin_password.go),  *)
(* and the keys of the data API (office/apikey, office/httpapi/apikeys.go). *)
(*                                                                         *)
(* A request that changes an account reads its row and writes all of it     *)
(* back; other requests run in between.  A call of the data API finds its   *)
(* key, notes the use and is then served, in statements of their own.       *)
(* Passwords are told apart only by who chose them, sessions by their       *)
(* holder; usernames stand for user ids.                                    *)
(***************************************************************************)
EXTENDS Integers

CONSTANTS
  Users,      \* usernames
  RoleSets,   \* sets of roles an Admin may grant
  Requests,   \* requests on accounts under way
  Keys,       \* API keys
  Groups,     \* vessel group tags
  Callers,    \* clients of the data API
  MaxSteps    \* bound on requests and calls begun

VARIABLES
  users,     \* rows of users, by username
  sessions,  \* sessions in memory, by holder
  request,   \* what each request is about to write
  keys,      \* rows of api_keys
  log,       \* api_key_events: how many uses of each key
  call,      \* how far each call of the data API is
  served,    \* history: answers given on each key
  barred,    \* history: deactivated with nothing under way that undoes it
  revoked,   \* history: keys whose revocation was answered
  steps      \* requests and calls begun

accounts == <<users, sessions, request, keys, log, call, served, barred,
              revoked, steps>>

AllRoles == {"admin", "configManager", "commercialEditor", "reviewer", "viewer"}
Idle == [stage |-> "idle"]
Unscoped == "every vessel"

InitAccounts(already) ==
  /\ users = already /\ sessions = DOMAIN already
  /\ request = [q \in Requests |-> Idle]
  /\ keys = <<>> /\ log = <<>> /\ call = [c \in Callers |-> Idle]
  /\ served = [k \in Keys |-> 0]
  /\ barred = {} /\ revoked = {} /\ steps = 0

Step == steps < MaxSteps /\ steps' = steps + 1

Put(table, k, row) == [x \in DOMAIN table \cup {k} |-> IF x = k THEN row ELSE table[x]]
Drop(table, k) == [x \in DOMAIN table \ {k} |-> table[x]]

-----------------------------------------------------------------------------
(* Sessions. *)

\* authenticatedUser: a session whose holder is there and active.
Authenticated(u) == u \in sessions /\ u \in DOMAIN users /\ users[u].active

\* requireAdmin, requireReviewer: somebody who may do this is logged in.
SomeoneIs(role) == \E u \in sessions : Authenticated(u) /\ role \in users[u].roles

Login(u) ==
  /\ Step
  /\ u \in DOMAIN users \ sessions
  /\ users[u].active
  /\ sessions' = sessions \cup {u}
  /\ UNCHANGED <<users, request, keys, log, call, served, barred, revoked>>

\* The holder logs out, or the session has expired when it is looked up.
EndSession(u) ==
  /\ Step
  /\ u \in sessions /\ sessions' = sessions \ {u}
  /\ UNCHANGED <<users, request, keys, log, call, served, barred, revoked>>

\* The process restarts: sessions and what was under way are gone.
Restart ==
  /\ Step
  /\ sessions' = {}
  /\ request' = [q \in Requests |-> Idle] /\ call' = [c \in Callers |-> Idle]
  /\ UNCHANGED <<users, keys, log, served, barred, revoked>>

-----------------------------------------------------------------------------
(* Accounts. *)

NewUser(roles) == [password |-> "temporary", must |-> TRUE, roles |-> roles, active |-> TRUE]
ChangePassword(row) == [row EXCEPT !.password = "chosen", !.must = FALSE]
ResetPassword(row) == [row EXCEPT !.password = "temporary", !.must = TRUE]

\* handleSetupAdmin, while there is no user; the operator chooses the password.
BeginSetup(q) ==
  /\ Step
  /\ request[q] = Idle /\ DOMAIN users = {}
  /\ request' = [request EXCEPT ![q] = [stage |-> "setup"]]
  /\ UNCHANGED <<users, sessions, keys, log, call, served, barred, revoked>>

\* Two first requests may both get here; the second one's name must be new.
SetupAdmin(q, u) ==
  /\ request[q].stage = "setup"
  /\ IF u \in DOMAIN users
     THEN UNCHANGED <<users, sessions>>
     ELSE /\ users' = Put(users, u, ChangePassword(NewUser(AllRoles)))
          /\ sessions' = sessions \cup {u}
  /\ request' = [request EXCEPT ![q] = Idle]
  /\ UNCHANGED <<keys, log, call, served, barred, revoked, steps>>

CreateUser(u, roles) ==
  /\ Step
  /\ SomeoneIs("admin")
  /\ u \notin DOMAIN users
  /\ users' = Put(users, u, NewUser(roles))
  /\ UNCHANGED <<sessions, request, keys, log, call, served, barred, revoked>>

Load(q, u, row, reactivates) ==
  request' = [request EXCEPT ![q] = [stage |-> "update", user |-> u, row |-> row,
                                     reactivates |-> reactivates]]

UpdateUserRoles(q, u) ==
  \E roles \in RoleSets : Load(q, u, [users[u] EXCEPT !.roles = roles], FALSE)
DeactivateUser(q, u) == Load(q, u, [users[u] EXCEPT !.active = FALSE], FALSE)
ReactivateUser(q, u) == Load(q, u, [users[u] EXCEPT !.active = TRUE], TRUE)
ResetUserPassword(q, u) == Load(q, u, ResetPassword(users[u]), FALSE)
ChangeOwnPassword(q, u) == Load(q, u, ChangePassword(users[u]), FALSE)

\* The first half of each of these handlers; the row is not locked.
LoadUser(q, u) ==
  /\ Step
  /\ request[q] = Idle /\ u \in DOMAIN users
  /\ \/ /\ SomeoneIs("admin")
        /\ \/ UpdateUserRoles(q, u) \/ DeactivateUser(q, u) \/ ReactivateUser(q, u)
           \/ ResetUserPassword(q, u)
     \/ Authenticated(u) /\ ChangeOwnPassword(q, u)
  /\ UNCHANGED <<users, sessions, keys, log, call, served, barred, revoked>>

\* ovl-office reset-admin-password, a process of its own: the account is
\* active again whoever deactivated it.
ResetAdminPassword(q, u) ==
  /\ Step
  /\ request[q] = Idle /\ u \in DOMAIN users
  /\ Load(q, u, [ResetPassword(users[u]) EXCEPT !.active = TRUE], TRUE)
  /\ UNCHANGED <<users, sessions, keys, log, call, served, barred, revoked>>

\* A deactivation bars, unless a row that was read before is still to come.
Bars(q, u) ==
  IF request[q].reactivates THEN barred \ {u}
  ELSE IF request[q].row.active
            \/ \E p \in Requests \ {q} : request[p].stage = "update"
                 /\ request[p].user = u /\ request[p].row.active
       THEN barred ELSE barred \cup {u}

\* Mutant: the statement leaves must_change_password out.
UpdateMostColumns(q) ==
  /\ request[q].stage = "update"
  /\ LET u == request[q].user IN
     /\ users' = [users EXCEPT ![u] = [request[q].row EXCEPT !.must = users[u].must]]
     /\ barred' = Bars(q, u)
  /\ request' = [request EXCEPT ![q] = Idle]
  /\ UNCHANGED <<sessions, keys, log, call, served, revoked, steps>>

\* UpdateUser: every column, as this request read and changed it.
UpdateUser(q) ==
  /\ request[q].stage = "update"
  /\ LET u == request[q].user IN
     /\ users' = [users EXCEPT ![u] = request[q].row]
     /\ barred' = Bars(q, u)
  /\ request' = [request EXCEPT ![q] = Idle]
  /\ UNCHANGED <<sessions, keys, log, call, served, revoked, steps>>

-----------------------------------------------------------------------------
(* Keys of the data API. *)

\* A key is for one group or for every vessel.
Mint(group) == [group |-> group, revoked |-> FALSE]
Verify(k) == k \in DOMAIN keys /\ ~keys[k].revoked

CreateAPIKey(k, group) ==
  /\ Step
  /\ SomeoneIs("admin")
  /\ k \notin DOMAIN keys /\ k \notin revoked
  /\ keys' = Put(keys, k, Mint(group))
  /\ log' = Put(log, k, 0)
  /\ UNCHANGED <<users, sessions, request, call, served, barred, revoked>>

RevokeAPIKey(k) ==
  /\ Step
  /\ SomeoneIs("admin")
  /\ k \in DOMAIN keys
  /\ keys' = [keys EXCEPT ![k].revoked = TRUE]
  /\ revoked' = revoked \cup {k}
  /\ UNCHANGED <<users, sessions, request, log, call, served, barred>>

\* Only after its revocation; its events go with it.
DeleteAPIKey(k) ==
  /\ Step
  /\ SomeoneIs("admin")
  /\ k \in DOMAIN keys /\ keys[k].revoked
  /\ keys' = Drop(keys, k) /\ log' = Drop(log, k)
  /\ UNCHANGED <<users, sessions, request, call, served, barred, revoked>>

CallGoes(c, to) == call' = [call EXCEPT ![c] = to]

\* handleGraphQL without a bearer token: an Admin's session, not limited.
CallBySession(c) ==
  /\ Step
  /\ call[c] = Idle /\ SomeoneIs("admin")
  /\ CallGoes(c, [stage |-> "serve", group |-> Unscoped])
  /\ UNCHANGED <<users, sessions, request, keys, log, served, barred, revoked>>

\* authenticatedAPIKey: the row is found and verified; a revoked one is refused.
CallByKey(c, k) ==
  /\ Step
  /\ call[c] = Idle
  /\ Verify(k)
  /\ CallGoes(c, [stage |-> "touch", key |-> k, row |-> keys[k]])
  /\ UNCHANGED <<users, sessions, request, keys, log, served, barred, revoked>>

\* Mutant: the row that was verified is written back whole.
TouchWholeRow(c) ==
  /\ call[c].stage = "touch"
  /\ LET k == call[c].key IN
     keys' = IF k \in DOMAIN keys THEN [keys EXCEPT ![k] = call[c].row] ELSE keys
  /\ CallGoes(c, [call[c] EXCEPT !.stage = "record"])
  /\ UNCHANGED <<users, sessions, request, log, served, barred, revoked, steps>>

\* TouchAPIKeyLastUsed: one column, which is not modelled.
TouchAPIKeyLastUsed(c) ==
  /\ call[c].stage = "touch"
  /\ CallGoes(c, [call[c] EXCEPT !.stage = "record"])
  /\ UNCHANGED <<users, sessions, request, keys, log, served, barred, revoked, steps>>

\* RecordAPIKeyEvent, before the call is served: refused by the foreign key
\* once the key is deleted, and so is the call.
RecordAPIKeyEvent(c) ==
  /\ call[c].stage = "record"
  /\ LET k == call[c].key IN
     IF k \in DOMAIN keys
     THEN /\ log' = [log EXCEPT ![k] = @ + 1]
          /\ CallGoes(c, [stage |-> "serve", group |-> call[c].row.group, key |-> k])
     ELSE UNCHANGED log /\ CallGoes(c, Idle)
  /\ UNCHANGED <<users, sessions, request, keys, served, barred, revoked, steps>>

\* The answer of a call that is to be served.
Answered(c) ==
  /\ call[c].stage = "serve"
  /\ served' = IF "key" \in DOMAIN call[c]
               THEN [served EXCEPT ![call[c].key] = @ + 1] ELSE served
  /\ CallGoes(c, Idle)
  /\ UNCHANGED <<users, sessions, request, keys, log, barred, revoked, steps>>

-----------------------------------------------------------------------------

AccountsNext ==
  \/ Restart
  \/ \E u \in Users : Login(u) \/ EndSession(u)
  \/ \E q \in Requests : BeginSetup(q) \/ UpdateUser(q)
  \/ \E q \in Requests, u \in Users :
        SetupAdmin(q, u) \/ LoadUser(q, u) \/ ResetAdminPassword(q, u)
  \/ \E u \in Users, roles \in RoleSets : CreateUser(u, roles)
  \/ \E k \in Keys : RevokeAPIKey(k) \/ DeleteAPIKey(k)
  \/ \E k \in Keys, group \in Groups \cup {Unscoped} : CreateAPIKey(k, group)
  \/ \E c \in Callers :
        \/ CallBySession(c) \/ TouchAPIKeyLastUsed(c) \/ RecordAPIKeyEvent(c)
        \/ \E k \in Keys : CallByKey(c, k)

-----------------------------------------------------------------------------

\* An account that need not change its password has one its holder chose, and
\* a deactivated one stays out until it is reactivated, whichever of several
\* requests on it writes last (UpdateUser writes every column).
AccountsHold ==
  /\ \A u \in DOMAIN users : users[u].must \/ users[u].password = "chosen"
  /\ \A u \in barred : ~users[u].active

\* A revoked key never works again, whatever calls were under way on it, and
\* every answer given on a key that is still there is in its activity log.
KeysAccountedFor ==
  /\ \A k \in revoked \cap DOMAIN keys : keys[k].revoked
  /\ \A k \in DOMAIN keys : served[k] <= log[k]

=============================================================================
