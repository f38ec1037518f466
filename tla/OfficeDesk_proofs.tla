-------------------------- MODULE OfficeDesk_proofs --------------------------
(***************************************************************************)
(* Proofs about OfficeDesk and the accounts, keys and sessions of           *)
(* OfficeAccounts it runs with: what holds of accounts whose rows several   *)
(* requests write whole, of the activity log of the API keys, of the marks  *)
(* of the notification panel, and of a report list read page by page while  *)
(* it changes.                                                              *)
(***************************************************************************)
EXTENDS OfficeDesk, FiniteSetTheorems, SequenceTheorems, TLAPS

UserRow(r) ==
  /\ r = [password |-> r.password, must |-> r.must, roles |-> r.roles, active |-> r.active]
  /\ r.must \in BOOLEAN /\ r.active \in BOOLEAN
  /\ r.must \/ r.password = "chosen"

Update(w) ==
  /\ w = [stage |-> "update", user |-> w.user, row |-> w.row,
          reactivates |-> w.reactivates]
  /\ UserRow(w.row) /\ w.reactivates \in BOOLEAN

\* A request, while the accounts there are are those of U.
RequestOK(w, U) ==
  w = Idle \/ w = [stage |-> "setup"] \/ (Update(w) /\ w.user \in U)

\* The request would let u in again without having been asked to.
LetsIn(w, u) ==
  w.stage = "update" /\ w.user = u /\ ~w.reactivates /\ w.row.active

UsersInv ==
  /\ \A u \in DOMAIN users : UserRow(users[u])
  /\ request = [q \in Requests |-> request[q]]
  /\ \A q \in Requests : RequestOK(request[q], DOMAIN users)
  /\ barred \subseteq DOMAIN users
  /\ \A u \in barred : ~users[u].active /\ \A q \in Requests : ~LetsIn(request[q], u)

\* A call that is on key k, as far as "touch" or "record", or to be served.
OnKey(w, stage, k) == w.stage = stage /\ "key" \in DOMAIN w /\ w.key = k
CallOK(w) ==
  \/ w = Idle
  \/ w.stage = "serve" /\ w = [stage |-> "serve", group |-> w.group]
  \/ w.stage = "serve" /\ w = [stage |-> "serve", group |-> w.group, key |-> w.key]
       /\ w.key \in Keys
  \/ w.stage \in {"touch", "record"}
       /\ w = [stage |-> w.stage, key |-> w.key, row |-> w.row] /\ w.key \in Keys

Serving(k) == {c \in Callers : OnKey(call[c], "serve", k)}

\* A key that was never there: nothing has happened on it.
Unused(k) ==
  /\ served[k] = 0
  /\ \A c \in Callers, stage \in {"touch", "record", "serve"} : ~OnKey(call[c], stage, k)

KeysInv ==
  /\ call = [c \in Callers |-> call[c]] /\ \A c \in Callers : CallOK(call[c])
  /\ DOMAIN keys \subseteq Keys /\ DOMAIN log = DOMAIN keys
  /\ served \in [Keys -> Nat]
  /\ \A k \in DOMAIN keys :
       /\ "revoked" \in DOMAIN keys[k]
       /\ keys[k].revoked \in BOOLEAN /\ (keys[k].revoked <=> k \in revoked)
       /\ log[k] \in Nat /\ served[k] + Cardinality(Serving(k)) <= log[k]
  /\ \A k \in Keys : k \notin DOMAIN keys /\ k \notin revoked => Unused(k)

ScreensInv ==
  /\ reads = [u \in Users |-> reads[u]]
  /\ shown = [u \in Users |-> shown[u]] /\ opened = [u \in Users |-> opened[u]]
  /\ \A u \in Users :
       /\ {id \in reads[u] : IsReply(id)} \subseteq opened[u]
       /\ {id \in shown[u] : IsReply(id)} \subseteq opened[u]


-----------------------------------------------------------------------------
(* Accounts. *)

\* A created account is a row.
LEMMA NewUserRow == ASSUME NEW roles PROVE UserRow(NewUser(roles))
BY DEF UserRow, NewUser

\* No change of a password or of roles touches whether the account is active.
LEMMA ChangedRow ==
  ASSUME NEW r, UserRow(r)
  PROVE  /\ UserRow(ChangePassword(r)) /\ ChangePassword(r).active = r.active
         /\ UserRow(ResetPassword(r)) /\ ResetPassword(r).active = r.active
         /\ \A roles : /\ UserRow([r EXCEPT !.roles = roles])
                       /\ [r EXCEPT !.roles = roles].active = r.active
         /\ \A b \in BOOLEAN : /\ UserRow([r EXCEPT !.active = b])
                               /\ [r EXCEPT !.active = b].active = b
<1>1. ASSUME NEW p, NEW b \in BOOLEAN, b \/ p = "chosen"
      PROVE  /\ UserRow([r EXCEPT !.password = p, !.must = b])
             /\ [r EXCEPT !.password = p, !.must = b].active = r.active
  <2> DEFINE v == [r EXCEPT !.password = p]
  <2>1. v = [password |-> p, must |-> r.must, roles |-> r.roles, active |-> r.active]
    BY DEF UserRow
  <2>2. [r EXCEPT !.password = p, !.must = b] = [v EXCEPT !.must = b]
    OBVIOUS
  <2> HIDE DEF v
  <2>3. [v EXCEPT !.must = b] =
        [password |-> p, must |-> b, roles |-> r.roles, active |-> r.active]
    BY <2>1
  <2> QED
    BY <1>1, <2>2, <2>3 DEF UserRow
<1>2. \A roles : /\ UserRow([r EXCEPT !.roles = roles])
                 /\ [r EXCEPT !.roles = roles].active = r.active
  BY DEF UserRow
<1>3. \A b \in BOOLEAN : /\ UserRow([r EXCEPT !.active = b])
                         /\ [r EXCEPT !.active = b].active = b
  BY DEF UserRow
<1> QED
  BY <1>1, <1>2, <1>3 DEF ChangePassword, ResetPassword

\* A request starts with the row it has read; it lets nobody in who is out.
LEMMA LoadKeeps ==
  ASSUME UsersInv, NEW q \in Requests, NEW u \in DOMAIN users, NEW row, UserRow(row),
         NEW back \in BOOLEAN, Load(q, u, row, back),
         back \/ (row.active => users[u].active),
         UNCHANGED <<users, barred>>
  PROVE  UsersInv'
<1> DEFINE w == [stage |-> "update", user |-> u, row |-> row, reactivates |-> back]
<1>1. request' = [request EXCEPT ![q] = w]
  BY DEF Load
<1>2. RequestOK(w, DOMAIN users)
  BY DEF RequestOK, Update
<1>3. \A v \in barred : ~LetsIn(w, v)
  BY DEF LetsIn, UsersInv
<1> HIDE DEF w
<1>4. request'[q] = w /\ \A p \in Requests \ {q} : request'[p] = request[p]
  BY <1>1 DEF UsersInv
<1>5. request' = [p \in Requests |-> request'[p]]
  BY <1>1 DEF UsersInv
<1> QED
  BY <1>2, <1>3, <1>4, <1>5 DEF UsersInv

\* A request loads the row it will write back.
LEMMA LoadStep ==
  ASSUME UsersInv, NEW q \in Requests, NEW u, LoadUser(q, u) \/ ResetAdminPassword(q, u)
  PROVE  UsersInv'
<1>1. u \in DOMAIN users /\ UNCHANGED <<users, barred>>
  BY DEF LoadUser, ResetAdminPassword
<1>2. UserRow(users[u])
  BY <1>1 DEF UsersInv
<1>3. CASE UpdateUserRoles(q, u)
  <2>1. PICK roles \in RoleSets : Load(q, u, [users[u] EXCEPT !.roles = roles], FALSE)
    BY <1>3 DEF UpdateUserRoles
  <2> DEFINE row == [users[u] EXCEPT !.roles = roles]
  <2>2. UserRow(row) /\ row.active = users[u].active
    BY <1>2, ChangedRow
  <2> HIDE DEF row
  <2> QED
    BY <1>1, <2>1, <2>2, LoadKeeps DEF row
<1>4. CASE DeactivateUser(q, u)
  BY <1>1, <1>2, <1>4, ChangedRow, LoadKeeps DEF DeactivateUser
<1>5. CASE ReactivateUser(q, u)
  BY <1>1, <1>2, <1>5, ChangedRow, LoadKeeps DEF ReactivateUser
<1>6. CASE ResetUserPassword(q, u)
  BY <1>1, <1>2, <1>6, ChangedRow, LoadKeeps DEF ResetUserPassword
<1>7. CASE ChangeOwnPassword(q, u)
  BY <1>1, <1>2, <1>7, ChangedRow, LoadKeeps DEF ChangeOwnPassword
<1>8. CASE ResetAdminPassword(q, u)
  <2>1. UserRow([ResetPassword(users[u]) EXCEPT !.active = TRUE])
    BY <1>2, ChangedRow
  <2> QED
    BY <1>1, <1>8, <2>1, LoadKeeps DEF ResetAdminPassword
<1> QED
  BY <1>3, <1>4, <1>5, <1>6, <1>7, <1>8 DEF LoadUser

\* One row is written, one request ends or none does.
LEMMA PutKeeps ==
  ASSUME UsersInv, NEW u, NEW row, UserRow(row), u \notin DOMAIN users,
         users' = Put(users, u, row), UNCHANGED barred,
         \/ UNCHANGED request
         \/ \E q \in Requests : request' = [request EXCEPT ![q] = Idle]
  PROVE  UsersInv'
<1>1. DOMAIN users' = DOMAIN users \cup {u} /\ users'[u] = row
      /\ \A v \in DOMAIN users : users'[v] = users[v]
  BY DEF Put
<1>2. ASSUME NEW q \in Requests PROVE request'[q] = request[q] \/ request'[q] = Idle
  BY DEF UsersInv
<1>3. request' = [q \in Requests |-> request'[q]]
  BY DEF UsersInv
<1>4. \A q \in Requests : RequestOK(request'[q], DOMAIN users')
  BY <1>1, <1>2 DEF UsersInv, RequestOK
<1>5. \A v : ~LetsIn(Idle, v)
  BY DEF LetsIn, Idle
<1>6. barred' \subseteq DOMAIN users'
  BY <1>1 DEF UsersInv
<1>7. \A v \in barred' : /\ ~users'[v].active
                         /\ \A q \in Requests : ~LetsIn(request'[q], v)
  BY <1>1, <1>2, <1>5 DEF UsersInv
<1> QED
  BY <1>1, <1>3, <1>4, <1>6, <1>7 DEF UsersInv

\* A request writes back the row it loaded, changed.
LEMMA UpdateStep == ASSUME UsersInv, NEW q \in Requests, UpdateUser(q) PROVE UsersInv'
<1> DEFINE u == request[q].user
           row == request[q].row
<1>1. /\ request[q].stage = "update" /\ users' = [users EXCEPT ![u] = row]
      /\ request' = [request EXCEPT ![q] = Idle] /\ barred' = Bars(q, u)
  BY DEF UpdateUser
<1>2. UserRow(row) /\ u \in DOMAIN users
  <2>1. RequestOK(request[q], DOMAIN users)
    BY DEF UsersInv
  <2> QED
    BY <1>1, <2>1 DEF RequestOK, Update, Idle
<1>3. request'[q] = Idle /\ \A p \in Requests \ {q} : request'[p] = request[p]
  BY <1>1 DEF UsersInv
<1>4. DOMAIN users' = DOMAIN users /\ users'[u] = row
      /\ \A v \in DOMAIN users \ {u} : users'[v] = users[v]
  BY <1>1, <1>2
<1>5. \A v : ~LetsIn(Idle, v)
  BY DEF LetsIn, Idle
<1>6. \A v \in DOMAIN users' : UserRow(users'[v])
  BY <1>2, <1>4 DEF UsersInv
<1>7. \A p \in Requests : RequestOK(request'[p], DOMAIN users')
  BY <1>3, <1>4 DEF UsersInv, RequestOK
<1>8. request' = [p \in Requests |-> request'[p]]
  BY <1>1 DEF UsersInv
<1>9. ASSUME NEW v \in barred'
      PROVE  /\ v \in DOMAIN users' /\ ~users'[v].active
             /\ \A p \in Requests : ~LetsIn(request'[p], v)
  <2>1. CASE v # u
    <3>1. v \in barred
      BY <1>1, <1>9, <2>1 DEF Bars
    <3> QED
      BY <1>3, <1>4, <1>5, <2>1, <3>1 DEF UsersInv
  <2>2. CASE v = u /\ u \in barred
    <3>1. ~request[q].reactivates
      BY <1>1, <1>9, <2>2 DEF Bars
    <3>2. ~LetsIn(request[q], u)
      BY <2>2 DEF UsersInv
    <3>3. ~row.active
      BY <1>1, <3>1, <3>2 DEF LetsIn
    <3> QED
      BY <1>2, <1>3, <1>4, <1>5, <2>2, <3>3 DEF UsersInv
  <2>3. CASE v = u /\ u \notin barred
    <3>1. /\ ~row.active
          /\ \A p \in Requests \ {q} : ~(request[p].stage = "update"
                /\ request[p].user = u /\ request[p].row.active)
      BY <1>1, <1>9, <2>3 DEF Bars
    <3>2. \A p \in Requests \ {q} : ~LetsIn(request[p], u)
      BY <3>1 DEF LetsIn
    <3> QED
      BY <1>2, <1>3, <1>4, <1>5, <2>3, <3>1, <3>2
  <2> QED
    BY <2>1, <2>2, <2>3
<1> QED
  BY <1>6, <1>7, <1>8, <1>9 DEF UsersInv

\* No step lets in who was deactivated.
LEMMA UsersStep == ASSUME UsersInv, AccountsNext PROVE UsersInv'
<1>1. CASE Restart
  BY <1>1 DEF Restart, UsersInv, RequestOK, LetsIn, Idle
<1>2. ASSUME NEW q \in Requests, NEW u, SetupAdmin(q, u) PROVE UsersInv'
  <2>1. UserRow(ChangePassword(NewUser(AllRoles)))
    BY NewUserRow, ChangedRow
  <2>2. request' = [request EXCEPT ![q] = Idle] /\ UNCHANGED barred
    BY <1>2 DEF SetupAdmin
  <2>3. CASE u \in DOMAIN users
    <3>1. UNCHANGED users
      BY <1>2, <2>3 DEF SetupAdmin
    <3> QED
      BY <2>2, <3>1 DEF UsersInv, RequestOK, LetsIn, Idle
  <2>4. CASE u \notin DOMAIN users
    <3>1. users' = Put(users, u, ChangePassword(NewUser(AllRoles)))
      BY <1>2, <2>4 DEF SetupAdmin
    <3> QED
      BY <2>1, <2>2, <2>4, <3>1, PutKeeps
  <2> QED
    BY <2>3, <2>4
<1>3. ASSUME NEW q \in Requests, BeginSetup(q) PROVE UsersInv'
  BY <1>3 DEF BeginSetup, UsersInv, RequestOK, LetsIn
<1>4. ASSUME NEW u, NEW roles, CreateUser(u, roles) PROVE UsersInv'
  BY <1>4, NewUserRow, PutKeeps DEF CreateUser
<1>5. CASE UNCHANGED <<users, request, barred>>
  BY <1>5 DEF UsersInv
<1> QED
  BY <1>1, <1>2, <1>3, <1>4, <1>5, LoadStep, UpdateStep
  DEF AccountsNext, Login, EndSession, CreateAPIKey, RevokeAPIKey, DeleteAPIKey,
      CallBySession, CallByKey, TouchAPIKeyLastUsed, RecordAPIKeyEvent

-----------------------------------------------------------------------------
(* Keys. *)

\* The calls that are to be served on a key are finitely many.
LEMMA ServingFinite ==
  ASSUME NEW k PROVE IsFiniteSet(Serving(k)) /\ Cardinality(Serving(k)) \in Nat
<1>1. Serving(k) \in SUBSET Callers
  BY DEF Serving
<1> QED
  BY <1>1, DeskAssumption, FS_Subset, FS_CardinalityType

\* A call that goes on elsewhere than to be served on k or from there.
LEMMA ServingSame ==
  ASSUME KeysInv, NEW c \in Callers, NEW to, CallGoes(c, to), NEW k,
         OnKey(to, "serve", k) <=> OnKey(call[c], "serve", k)
  PROVE  Serving(k)' = Serving(k)
<1>1. call'[c] = to /\ \A d \in Callers \ {c} : call'[d] = call[d]
  BY DEF KeysInv, CallGoes
<1> QED
  BY <1>1 DEF Serving

\* One more is to be served.
LEMMA ServingMore ==
  ASSUME KeysInv, NEW c \in Callers, NEW to, CallGoes(c, to), NEW k,
         OnKey(to, "serve", k), ~OnKey(call[c], "serve", k)
  PROVE  Cardinality(Serving(k)') = Cardinality(Serving(k)) + 1
<1>1. call'[c] = to /\ \A d \in Callers \ {c} : call'[d] = call[d]
  BY DEF KeysInv, CallGoes
<1>2. Serving(k)' = Serving(k) \cup {c} /\ c \notin Serving(k)
  BY <1>1 DEF Serving
<1> QED
  BY <1>2, ServingFinite, FS_AddElement

\* One of them was served.
LEMMA ServingLess ==
  ASSUME KeysInv, NEW c \in Callers, NEW to, CallGoes(c, to), NEW k,
         ~OnKey(to, "serve", k), OnKey(call[c], "serve", k)
  PROVE  Cardinality(Serving(k)') = Cardinality(Serving(k)) - 1
<1>1. call'[c] = to /\ \A d \in Callers \ {c} : call'[d] = call[d]
  BY DEF KeysInv, CallGoes
<1>2. Serving(k)' = Serving(k) \ {c} /\ c \in Serving(k)
  BY <1>1 DEF Serving
<1> QED
  BY <1>2, ServingFinite, FS_RemoveElement

\* A call goes on, and neither keys nor what was served change.
LEMMA CallMoves ==
  ASSUME KeysInv, NEW c \in Callers, NEW to, CallGoes(c, to), CallOK(to),
         UNCHANGED <<keys, log, served, revoked>>,
         \A k : OnKey(to, "serve", k) <=> OnKey(call[c], "serve", k),
         \A k, stage : OnKey(to, stage, k) =>
           \/ k \in DOMAIN keys
           \/ \E s \in {"touch", "record", "serve"} : OnKey(call[c], s, k)
  PROVE  KeysInv'
<1>1. call'[c] = to /\ \A d \in Callers \ {c} : call'[d] = call[d]
  BY DEF KeysInv, CallGoes
<1>2. call' = [d \in Callers |-> call'[d]] /\ \A d \in Callers : CallOK(call'[d])
  BY <1>1 DEF KeysInv, CallGoes
<1>3. \A k : Serving(k)' = Serving(k)
  BY ServingSame
<1>4. ASSUME NEW k \in Keys, k \notin DOMAIN keys, k \notin revoked PROVE Unused(k)'
  <2>1. Unused(k)
    BY <1>4 DEF KeysInv
  <2> QED
    BY <1>1, <1>4, <2>1 DEF Unused
<1> QED
  BY <1>2, <1>3, <1>4 DEF KeysInv

\* The use of a key is recorded.
LEMMA RecordStep ==
  ASSUME KeysInv, NEW c \in Callers, RecordAPIKeyEvent(c) PROVE KeysInv'
<1> DEFINE k == call[c].key
           to == [stage |-> "serve", group |-> call[c].row.group, key |-> k]
<1>1. call[c].stage = "record" /\ UNCHANGED <<keys, served, revoked>>
  BY DEF RecordAPIKeyEvent
<1>2. k \in Keys /\ OnKey(call[c], "record", k)
  BY <1>1 DEF KeysInv, CallOK, Idle, OnKey
<1>3. CASE k \notin DOMAIN keys
  <2>1. UNCHANGED log /\ CallGoes(c, Idle)
    BY <1>3 DEF RecordAPIKeyEvent
  <2>2. CallOK(Idle) /\ \A j, stage : stage # "idle" => ~OnKey(Idle, stage, j)
    BY DEF CallOK, OnKey, Idle
  <2>3. \A j, stage : ~OnKey(Idle, stage, j)
    BY DEF OnKey, Idle
  <2>4. \A j : ~OnKey(call[c], "serve", j)
    BY <1>1 DEF OnKey
  <2> QED
    BY <1>1, <2>1, <2>2, <2>3, <2>4, CallMoves
<1>4. CASE k \in DOMAIN keys
  <2>1. log' = [log EXCEPT ![k] = @ + 1] /\ CallGoes(c, to)
    BY <1>4 DEF RecordAPIKeyEvent
  <2>2. CallOK(to) /\ \A j, stage : OnKey(to, stage, j) <=> stage = "serve" /\ j = k
    BY <1>2 DEF CallOK, OnKey
  <2>3. \A j : ~OnKey(call[c], "serve", j)
    BY <1>1 DEF OnKey
  <2> HIDE DEF to
  <2>4. call'[c] = to /\ \A d \in Callers \ {c} : call'[d] = call[d]
    BY <2>1 DEF KeysInv, CallGoes
  <2>5. call' = [d \in Callers |-> call'[d]] /\ \A d \in Callers : CallOK(call'[d])
    BY <2>1, <2>2, <2>4 DEF KeysInv, CallGoes
  <2>6. ASSUME NEW j \in DOMAIN keys
        PROVE  /\ log'[j] \in Nat /\ served[j] + Cardinality(Serving(j)') <= log'[j]
    <3>1. /\ log[j] \in Nat /\ served[j] \in Nat /\ Cardinality(Serving(j)) \in Nat
          /\ served[j] + Cardinality(Serving(j)) <= log[j]
      BY ServingFinite DEF KeysInv
    <3>2. CASE j = k
      <4>1. log'[j] = log[j] + 1
        BY <2>1, <3>2 DEF KeysInv
      <4>2. Cardinality(Serving(j)') = Cardinality(Serving(j)) + 1
        BY <2>1, <2>2, <2>3, <3>2, ServingMore
      <4> QED
        BY <3>1, <4>1, <4>2
    <3>3. CASE j # k
      <4>1. log'[j] = log[j]
        BY <2>1, <3>3 DEF KeysInv
      <4>2. Serving(j)' = Serving(j)
        BY <2>1, <2>2, <2>3, <3>3, ServingSame
      <4> QED
        BY <3>1, <4>1, <4>2
    <3> QED
      BY <3>2, <3>3
  <2>7. ASSUME NEW j \in Keys, j \notin DOMAIN keys, j \notin revoked PROVE Unused(j)'
    <3>1. Unused(j)
      BY <2>7 DEF KeysInv
    <3> QED
      BY <1>1, <1>4, <2>2, <2>4, <2>7, <3>1 DEF Unused
  <2>8. DOMAIN log' = DOMAIN log
    BY <2>1
  <2> QED
    BY <1>1, <2>5, <2>6, <2>7, <2>8 DEF KeysInv
<1> QED
  BY <1>3, <1>4

\* The call is answered.
LEMMA AnsweredStep ==
  ASSUME KeysInv, NEW c \in Callers, Answered(c), UNCHANGED <<keys, log, revoked>>
  PROVE  KeysInv'
<1>1. call[c].stage = "serve" /\ CallGoes(c, Idle)
  BY DEF Answered
<1>2. CallOK(Idle) /\ \A j, stage : ~OnKey(Idle, stage, j)
  BY DEF CallOK, OnKey, Idle
<1>3. CASE "key" \notin DOMAIN call[c]
  <2>1. UNCHANGED served
    BY <1>3 DEF Answered
  <2>2. \A j : ~OnKey(call[c], "serve", j)
    BY <1>3 DEF OnKey
  <2> QED
    BY <1>1, <1>2, <2>1, <2>2, CallMoves
<1>4. CASE "key" \in DOMAIN call[c]
  <2> DEFINE k == call[c].key
  <2>1. served' = [served EXCEPT ![k] = @ + 1]
    BY <1>4 DEF Answered
  <2>2. \A j : OnKey(call[c], "serve", j) <=> j = k
    BY <1>1, <1>4 DEF OnKey
  <2>3. k \in Keys
    BY <1>1, <1>4 DEF KeysInv, CallOK, Idle
  <2> HIDE DEF k
  <2>4. call'[c] = Idle /\ \A d \in Callers \ {c} : call'[d] = call[d]
    BY <1>1 DEF KeysInv, CallGoes
  <2>5. call' = [d \in Callers |-> call'[d]] /\ \A d \in Callers : CallOK(call'[d])
    BY <1>1, <1>2, <2>4 DEF KeysInv, CallGoes
  <2>6. served' \in [Keys -> Nat]
    BY <2>1, <2>3 DEF KeysInv
  <2>7. ASSUME NEW j \in DOMAIN keys
        PROVE  served'[j] + Cardinality(Serving(j)') <= log[j]
    <3>1. /\ log[j] \in Nat /\ served[j] \in Nat /\ Cardinality(Serving(j)) \in Nat
          /\ served[j] + Cardinality(Serving(j)) <= log[j]
      BY ServingFinite DEF KeysInv
    <3>2. CASE j = k
      <4>1. served'[j] = served[j] + 1
        BY <2>1, <2>3, <3>2 DEF KeysInv
      <4>2. Cardinality(Serving(j)') = Cardinality(Serving(j)) - 1
        BY <1>1, <1>2, <2>2, <3>2, ServingLess
      <4> QED
        BY <3>1, <4>1, <4>2
    <3>3. CASE j # k
      <4>1. served'[j] = served[j]
        BY <2>1, <3>3 DEF KeysInv
      <4>2. Serving(j)' = Serving(j)
        BY <1>1, <1>2, <2>2, <3>3, ServingSame
      <4> QED
        BY <3>1, <4>1, <4>2
    <3> QED
      BY <3>2, <3>3
  <2>8. ASSUME NEW j \in Keys, j \notin DOMAIN keys, j \notin revoked PROVE Unused(j)'
    <3>1. Unused(j)
      BY <2>8 DEF KeysInv
    <3>2. j # k
      BY <2>2, <3>1 DEF Unused
    <3> QED
      BY <1>2, <2>1, <2>3, <2>4, <3>1, <3>2 DEF Unused, KeysInv
  <2> QED
    BY <2>5, <2>6, <2>7, <2>8 DEF KeysInv
<1> QED
  BY <1>3, <1>4

\* The rows of the keys change, the calls do not.
LEMMA KeyRows ==
  ASSUME KeysInv, UNCHANGED <<call, served>>,
         DOMAIN keys' \subseteq Keys, DOMAIN log' = DOMAIN keys',
         \A k \in DOMAIN keys' :
           /\ "revoked" \in DOMAIN keys'[k]
           /\ keys'[k].revoked \in BOOLEAN /\ (keys'[k].revoked <=> k \in revoked')
           /\ \/ k \in DOMAIN keys /\ log'[k] = log[k]
              \/ k \notin DOMAIN keys /\ k \notin revoked /\ log'[k] = 0,
         \A k \in Keys : k \notin DOMAIN keys' /\ k \notin revoked'
           => k \notin DOMAIN keys /\ k \notin revoked
  PROVE  KeysInv'
<1>1. \A k : Serving(k)' = Serving(k)
  BY DEF Serving
<1>2. ASSUME NEW k \in DOMAIN keys'
      PROVE  log'[k] \in Nat /\ served'[k] + Cardinality(Serving(k)') <= log'[k]
  <2>1. CASE k \in DOMAIN keys /\ log'[k] = log[k]
    BY <1>1, <2>1 DEF KeysInv
  <2>2. CASE k \notin DOMAIN keys /\ k \notin revoked /\ log'[k] = 0
    <3>1. Unused(k)
      BY <2>2 DEF KeysInv
    <3>2. Serving(k) = {} /\ served[k] = 0
      BY <3>1 DEF Unused, Serving
    <3> QED
      BY <1>1, <2>2, <3>2, FS_EmptySet
  <2> QED
    BY <1>2, <2>1, <2>2
<1>3. \A k \in Keys : k \notin DOMAIN keys' /\ k \notin revoked' => Unused(k)'
  BY DEF KeysInv, Unused
<1> QED
  BY <1>2, <1>3 DEF KeysInv

\* No step loses count of what was served on a key.
LEMMA KeysStep == ASSUME KeysInv, AccountsNext PROVE KeysInv'
<1>1. CASE Restart
  <2>1. /\ call' = [c \in Callers |-> Idle] /\ UNCHANGED <<keys, log, served, revoked>>
    BY <1>1 DEF Restart
  <2>2. \A j, stage : ~OnKey(Idle, stage, j)
    BY DEF OnKey, Idle
  <2>3. \A k : Serving(k)' = {}
    BY <2>1, <2>2 DEF Serving
  <2>4. ASSUME NEW k \in DOMAIN keys PROVE served[k] + Cardinality(Serving(k)') <= log[k]
    <3>1. Cardinality(Serving(k)) \in Nat /\ served[k] + Cardinality(Serving(k)) <= log[k]
          /\ served[k] \in Nat /\ log[k] \in Nat
      BY ServingFinite DEF KeysInv
    <3> QED
      BY <2>3, <3>1, FS_EmptySet
  <2>5. \A k \in Keys : k \notin DOMAIN keys /\ k \notin revoked => Unused(k)'
    BY <2>1, <2>2 DEF KeysInv, Unused
  <2> QED
    BY <2>1, <2>4, <2>5 DEF KeysInv, CallOK
<1>2. ASSUME NEW k \in Keys, NEW group, CreateAPIKey(k, group) PROVE KeysInv'
  <2>1. /\ k \notin DOMAIN keys /\ k \notin revoked
        /\ keys' = Put(keys, k, Mint(group)) /\ log' = Put(log, k, 0)
        /\ UNCHANGED <<call, served, revoked>>
    BY <1>2 DEF CreateAPIKey
  <2>2. /\ DOMAIN keys' = DOMAIN keys \cup {k} /\ DOMAIN log' = DOMAIN log \cup {k}
        /\ keys'[k] = [group |-> group, revoked |-> FALSE] /\ log'[k] = 0
        /\ \A j \in DOMAIN keys : keys'[j] = keys[j] /\ log'[j] = log[j]
    BY <2>1 DEF Put, Mint, KeysInv
  <2>3. ASSUME NEW j \in DOMAIN keys'
        PROVE  /\ "revoked" \in DOMAIN keys'[j]
               /\ keys'[j].revoked \in BOOLEAN /\ (keys'[j].revoked <=> j \in revoked')
               /\ \/ j \in DOMAIN keys /\ log'[j] = log[j]
                  \/ j \notin DOMAIN keys /\ j \notin revoked /\ log'[j] = 0
    <3>1. CASE j = k
      <4>1. keys'[j].group = group /\ keys'[j].revoked = FALSE
        BY <2>2, <3>1
      <4>2. "revoked" \in DOMAIN keys'[j]
        BY <2>2, <3>1
      <4>3. j \notin revoked' /\ j \notin DOMAIN keys /\ j \notin revoked /\ log'[j] = 0
        BY <2>1, <2>2, <3>1
      <4> QED
        BY <4>1, <4>2, <4>3
    <3>2. CASE j \in DOMAIN keys /\ j # k
      BY <2>1, <2>2, <3>2 DEF KeysInv
    <3> QED
      BY <2>2, <3>1, <3>2
  <2>4. DOMAIN keys' \subseteq Keys /\ DOMAIN log' = DOMAIN keys'
    BY <2>2 DEF KeysInv
  <2> QED
    BY <2>1, <2>2, <2>3, <2>4, KeyRows
<1>3. ASSUME NEW k \in Keys, RevokeAPIKey(k) PROVE KeysInv'
  <2>1. /\ k \in DOMAIN keys /\ keys' = [keys EXCEPT ![k].revoked = TRUE]
        /\ revoked' = revoked \cup {k} /\ UNCHANGED <<log, call, served>>
    BY <1>3 DEF RevokeAPIKey
  <2>2. /\ DOMAIN keys' = DOMAIN keys
        /\ "revoked" \in DOMAIN keys'[k] /\ keys'[k].revoked = TRUE
        /\ \A j \in DOMAIN keys \ {k} : keys'[j] = keys[j]
    BY <2>1 DEF KeysInv
  <2>3. ASSUME NEW j \in DOMAIN keys'
        PROVE  /\ "revoked" \in DOMAIN keys'[j]
               /\ keys'[j].revoked \in BOOLEAN /\ (keys'[j].revoked <=> j \in revoked')
               /\ j \in DOMAIN keys /\ log'[j] = log[j]
    <3>1. CASE j = k
      BY <2>1, <2>2, <3>1
    <3>2. CASE j # k
      BY <2>1, <2>2, <3>2 DEF KeysInv
    <3> QED
      BY <3>1, <3>2
  <2>4. DOMAIN keys' \subseteq Keys /\ DOMAIN log' = DOMAIN keys'
    BY <2>1, <2>2 DEF KeysInv
  <2> QED
    BY <2>1, <2>2, <2>3, <2>4, KeyRows
<1>4. ASSUME NEW k \in Keys, DeleteAPIKey(k) PROVE KeysInv'
  <2>1. /\ k \in DOMAIN keys /\ keys[k].revoked /\ keys' = Drop(keys, k)
        /\ log' = Drop(log, k) /\ UNCHANGED <<call, served, revoked>>
    BY <1>4 DEF DeleteAPIKey
  <2>2. /\ DOMAIN keys' = DOMAIN keys \ {k} /\ DOMAIN log' = DOMAIN log \ {k}
        /\ \A j \in DOMAIN keys' : keys'[j] = keys[j] /\ log'[j] = log[j]
    BY <2>1 DEF Drop, KeysInv
  <2>3. k \in revoked
    BY <2>1 DEF KeysInv
  <2> QED
    BY <2>1, <2>2, <2>3, KeyRows DEF KeysInv
<1>5. ASSUME NEW c \in Callers, CallBySession(c) PROVE KeysInv'
  <2> DEFINE to == [stage |-> "serve", group |-> Unscoped]
  <2>1. CallGoes(c, to) /\ call[c] = Idle /\ UNCHANGED <<keys, log, served, revoked>>
    BY <1>5 DEF CallBySession
  <2>2. CallOK(to) /\ \A j, stage : ~OnKey(to, stage, j) /\ ~OnKey(Idle, stage, j)
    BY DEF CallOK, OnKey, Idle
  <2> HIDE DEF to
  <2> QED
    BY <2>1, <2>2, CallMoves
<1>6. ASSUME NEW c \in Callers, NEW k \in Keys, CallByKey(c, k) PROVE KeysInv'
  <2> DEFINE to == [stage |-> "touch", key |-> k, row |-> keys[k]]
  <2>1. /\ CallGoes(c, to) /\ call[c] = Idle /\ k \in DOMAIN keys
        /\ UNCHANGED <<keys, log, served, revoked>>
    BY <1>6 DEF CallByKey, Verify
  <2>2. /\ CallOK(to) /\ \A j, stage : OnKey(to, stage, j) => stage = "touch" /\ j = k
        /\ \A j, stage : ~OnKey(Idle, stage, j)
    BY DEF CallOK, OnKey, Idle
  <2> HIDE DEF to
  <2> QED
    BY <2>1, <2>2, CallMoves
<1>7. ASSUME NEW c \in Callers, TouchAPIKeyLastUsed(c) PROVE KeysInv'
  <2> DEFINE to == [call[c] EXCEPT !.stage = "record"]
  <2>1. /\ CallGoes(c, to) /\ call[c].stage = "touch"
        /\ UNCHANGED <<keys, log, served, revoked>>
    BY <1>7 DEF TouchAPIKeyLastUsed
  <2>2. /\ call[c] = [stage |-> "touch", key |-> call[c].key, row |-> call[c].row]
        /\ call[c].key \in Keys
    BY <2>1 DEF KeysInv, CallOK, Idle
  <2>3. to = [stage |-> "record", key |-> call[c].key, row |-> call[c].row]
    BY <2>2
  <2> HIDE DEF to
  <2>4. /\ CallOK(to)
        /\ \A j, stage : OnKey(to, stage, j) <=> stage = "record" /\ j = call[c].key
        /\ \A j, stage : OnKey(call[c], stage, j) <=> stage = "touch" /\ j = call[c].key
    BY <2>2, <2>3 DEF CallOK, OnKey
  <2> QED
    BY <2>1, <2>4, CallMoves
<1>8. CASE UNCHANGED <<keys, log, call, served, revoked>>
  BY <1>8 DEF KeysInv, Serving, Unused
<1> QED
  BY <1>1, <1>2, <1>3, <1>4, <1>5, <1>6, <1>7, <1>8, RecordStep
  DEF AccountsNext, Login, EndSession, BeginSetup, UpdateUser, SetupAdmin, LoadUser,
      ResetAdminPassword, CreateUser

-----------------------------------------------------------------------------
(* Pages of the report list. *)

Version == [at : Nat, received : Nat, state : {"submitted", "remarked"}]

VersionsInv == now \in Nat /\ versions \in [Reports -> Seq(Version)]

\* The rows before r on the list of the rows F, N being what is newer than what.
Before(r, F, N) == {q \in F : <<q, r>> \in N}
Ordered(F) == {p \in Reports \X Reports : p[1] \in F /\ p[2] \in F /\ Newer(p[1], p[2])}

\* A reading that is undisturbed has all of its rows still on the list, those
\* it has not been given beyond its offset.
ReadingOK(w, F, N) ==
  /\ w = [filter |-> w.filter, scope |-> w.scope, limit |-> w.limit, offset |-> w.offset,
          due |-> w.due, got |-> w.got, calm |-> w.calm, done |-> w.done]
  /\ w.limit \in Nat /\ w.limit > 0 /\ w.calm \in BOOLEAN /\ w.done \in BOOLEAN
  /\ w.calm =>
       /\ w.offset \in 0..Cardinality(F)
       /\ w.due \subseteq F
       /\ \A r \in w.due \ w.got : ~w.done /\ w.offset <= Cardinality(Before(r, F, N))

ListOf(w) == Found(w.filter, GroupFor(w.filter, w.scope))

PagesInv ==
  /\ client = [c \in Callers |-> client[c]]
  /\ \A c \in Callers :
       client[c] = Idle \/ ReadingOK(client[c], ListOf(client[c]), Ordered(ListOf(client[c])))

\* The order of the list is strict: its times and ids are numbers.
LEMMA NewerIsStrict ==
  ASSUME VersionsInv, NEW a \in Reports, NEW b \in Reports,
         versions[a] # <<>>, versions[b] # <<>>
  PROVE  ~Newer(a, a) /\ (Newer(a, b) => ~Newer(b, a))
<1>1. ASSUME NEW r \in Reports, versions[r] # <<>> PROVE Latest(r).at \in Nat
  <2>1. versions[r] \in Seq(Version)
    BY DEF VersionsInv
  <2>2. Len(versions[r]) \in 1..Len(versions[r])
    BY <1>1, <2>1
  <2>3. versions[r][Len(versions[r])] \in Version
    BY <2>1, <2>2
  <2> QED
    BY <2>3 DEF Latest, Last, Version
<1>2. Latest(a).at \in Nat /\ Latest(b).at \in Nat
  BY <1>1
<1>3. a \in Nat /\ b \in Nat
  BY DeskAssumption
<1> QED
  BY <1>2, <1>3 DEF Newer

\* What is listed.
LEMMA FoundIsListed ==
  ASSUME NEW filter, NEW group
  PROVE  /\ Found(filter, group) \subseteq Reports
         /\ IsFiniteSet(Found(filter, group)) /\ Cardinality(Found(filter, group)) \in Nat
         /\ \A r \in Found(filter, group) : versions[r] # <<>>
<1>1. Found(filter, group) \subseteq Reports
  BY DEF Found
<1>2. IsFiniteSet(Found(filter, group))
  BY <1>1, FS_Subset, DeskAssumption
<1> QED
  BY <1>1, <1>2, FS_CardinalityType DEF Found, Matches

\* A report has as many before it as its place on the list says.
LEMMA PlacesCount ==
  ASSUME VersionsInv, NEW filter, NEW group, NEW list \in ListReports(filter, group)
  PROVE  LET F == Found(filter, group) IN
         /\ list \in [1..Cardinality(F) -> F]
         /\ \A r \in F : \E k \in 1..Cardinality(F) : list[k] = r
         /\ \A k \in 1..Cardinality(F) :
              Cardinality(Before(list[k], F, Ordered(F))) = k - 1
<1> DEFINE F == Found(filter, group)
           n == Cardinality(F)
<1>1. F \subseteq Reports /\ IsFiniteSet(F) /\ n \in Nat /\ \A r \in F : versions[r] # <<>>
  BY FoundIsListed
<1>2. list \in [1..n -> F] /\ \A j, k \in 1..n : j < k => Newer(list[j], list[k])
  BY DEF ListReports
<1>3. \A a, b \in F : ~Newer(a, a) /\ (Newer(a, b) => ~Newer(b, a))
  BY <1>1, NewerIsStrict
<1> HIDE DEF F
<1>4. \A j, k \in 1..n : list[j] = list[k] => j = k
  <2>1. SUFFICES ASSUME NEW j \in 1..n, NEW k \in 1..n, list[j] = list[k] PROVE j = k
    OBVIOUS
  <2>2. ~(j < k) /\ ~(k < j)
    BY <1>2, <1>3, <2>1
  <2> QED
    BY <1>1, <2>2
<1>5. \A r \in F : \E k \in 1..n : list[k] = r
  <2>1. list \in Injection(1..n, F)
    BY <1>2, <1>4 DEF Injection, IsInjective
  <2>2. IsFiniteSet(1..n) /\ Cardinality(1..n) = n
    BY <1>1, FS_Interval
  <2>3. list \in Surjection(1..n, F)
    BY <1>1, <2>1, <2>2, FS_Injection
  <2> QED
    BY <2>3 DEF Surjection
<1>6. ASSUME NEW k \in 1..n
      PROVE  Cardinality(Before(list[k], F, Ordered(F))) = k - 1
  <2> DEFINE B == Before(list[k], F, Ordered(F))
             f == [j \in 1..(k - 1) |-> list[j]]
  <2>1. k \in Nat /\ k - 1 \in Nat /\ \A j \in 1..(k - 1) : j \in 1..n /\ j < k
    BY <1>1
  <2>2. ASSUME NEW j \in 1..(k - 1) PROVE list[j] \in B
    <3>1. list[j] \in F /\ list[k] \in F /\ Newer(list[j], list[k])
      BY <1>2, <2>1
    <3> QED
      BY <1>1, <3>1 DEF Before, Ordered
  <2>3. ASSUME NEW q \in B PROVE \E j \in 1..(k - 1) : list[j] = q
    <3>1. q \in F /\ Newer(q, list[k])
      BY DEF Before, Ordered
    <3>2. PICK j \in 1..n : list[j] = q
      BY <1>5, <3>1
    <3>3. j # k /\ ~(k < j)
      BY <1>2, <1>3, <3>1, <3>2
    <3> QED
      BY <1>1, <3>2, <3>3
  <2> HIDE DEF B
  <2>4. f \in Surjection(1..(k - 1), B)
    BY <2>2, <2>3 DEF Surjection
  <2>5. f \in Injection(1..(k - 1), B)
    BY <1>4, <2>1, <2>2 DEF Injection, IsInjective
  <2>6. IsFiniteSet(1..(k - 1)) /\ Cardinality(1..(k - 1)) = k - 1
    BY <2>1, FS_Interval
  <2> QED
    BY <2>4, <2>5, <2>6, FS_Surjection DEF B
<1> QED
  BY <1>2, <1>5, <1>6 DEF F

\* How many of n rows LIMIT and OFFSET take.
Taken(n, limit, offset) == IF offset + limit <= n THEN limit ELSE n - offset

\* s is m of the list's rows, from the one after offset on.
Slice(s, list, m, offset) ==
  /\ s = [i \in 1..m |-> s[i]] /\ Len(s) = m
  /\ \A i \in 1..m : s[i] = list[offset + i]

\* A list of n elements is a sequence.
LEMMA ListedIsSequence ==
  ASSUME NEW n \in Nat, NEW list, list = [i \in 1..n |-> list[i]]
  PROVE  \E F : list \in Seq(F) /\ Len(list) = n /\ \A i \in 1..n : list[i] \in F
<1> DEFINE F == {list[i] : i \in 1..n}
<1>1. list \in [1..n -> F] /\ \A i \in 1..n : list[i] \in F
  OBVIOUS
<1> HIDE DEF F
<1> QED
  BY <1>1

\* The elements of a part of a sequence.
LEMMA SubSeqElement ==
  ASSUME NEW s, NEW a \in Int, NEW b \in Int
  PROVE  \A i \in 1..(b - a + 1) : SubSeq(s, a, b)[i] = s[a + i - 1]
  OBVIOUS

\* Which these are.
LEMMA RowsListed ==
  ASSUME NEW n \in Nat, NEW list, list = [i \in 1..n |-> list[i]],
         NEW limit \in Nat, NEW offset \in 0..n
  PROVE  Slice(Rows(list, limit, offset), list, Taken(n, limit, offset), offset)
<1> DEFINE last == IF offset + limit <= n THEN offset + limit ELSE n
           m == Taken(n, limit, offset)
           a == offset + 1
           s == SubSeq(list, a, last)
<1>1. PICK F : list \in Seq(F) /\ Len(list) = n /\ \A i \in 1..n : list[i] \in F
  BY ListedIsSequence
<1>2. Min({offset + limit, n}) = last
  BY DEF Min
<1>3. Rows(list, limit, offset) = s
  BY <1>1, <1>2 DEF Rows
<1>4. /\ last \in Int /\ a \in Int /\ m \in Nat
      /\ last = a + m - 1 /\ last <= n /\ 1 <= a /\ a = offset + 1
  BY DEF Taken
<1> HIDE DEF last, m, a
<1>5. \A i \in a..last : list[i] \in F
  BY <1>1, <1>4
<1>6. s \in Seq(F)
  BY <1>4, <1>5, SubSeqProperties
<1>7. Len(s) = IF a <= last THEN last - a + 1 ELSE 0
  BY <1>4, <1>5, SubSeqProperties
<1>8. \A i \in 1..(last - a + 1) : s[i] = list[a + i - 1]
  <2>1. a \in Int /\ last \in Int
    BY <1>4
  <2> QED
    BY <2>1, SubSeqElement
<1> HIDE DEF s
<1>9. Len(s) = m
  BY <1>4, <1>7
<1>10. \A i \in 1..m : s[i] = list[offset + i]
  <2>1. last - a + 1 = m /\ \A i \in 1..m : a + i - 1 = offset + i
    BY <1>4
  <2> QED
    BY <1>8, <2>1
<1>11. s = [i \in 1..m |-> s[i]]
  BY <1>6, <1>9
<1> QED
  BY <1>3, <1>9, <1>10, <1>11 DEF Slice, m

\* A page has the rows from the offset on, and says when it is the last.
IsPage(page, list, n, offset) ==
  /\ Len(page.items) \in Nat /\ offset + Len(page.items) <= n
  /\ ~page.next => offset + Len(page.items) = n
  /\ \A k \in 1..n : offset < k /\ k <= offset + Len(page.items)
       => list[k] \in ToSet(page.items)

LEMMA PageListed ==
  ASSUME NEW n \in Nat, NEW list, list = [i \in 1..n |-> list[i]],
         NEW limit \in Nat, limit > 0, NEW offset \in 0..n
  PROVE  IsPage(Page(list, limit, offset), list, n, offset)
<1> DEFINE more == limit + 1
           rows == Rows(list, more, offset)
           h == Taken(n, more, offset)
           items == Rows(rows, limit, 0)
           m == Taken(h, limit, 0)
           page == Page(list, limit, offset)
<1>1. more \in Nat /\ h \in Nat /\ offset + h <= n /\ (h <= limit => offset + h = n)
  BY DEF Taken
<1>2. m \in Nat /\ m <= h /\ (h <= limit => m = h)
  <2> HIDE DEF h
  <2> QED
    BY <1>1 DEF Taken
<1>3. page = [items |-> items, next |-> Len(rows) > limit]
  BY DEF Page
<1> HIDE DEF more
<1>4. Slice(rows, list, h, offset)
  BY <1>1, RowsListed
<1> HIDE DEF rows, h
<1>5. rows = [i \in 1..h |-> rows[i]] /\ 0 \in 0..h
  BY <1>1, <1>4 DEF Slice
<1>6. Slice(items, rows, m, 0)
  BY <1>1, <1>5, RowsListed
<1> HIDE DEF items, m, page
<1>7. Len(items) = m /\ Len(rows) = h
  BY <1>4, <1>6 DEF Slice
<1>8. page.items = items
  BY <1>3
<1>9. ~page.next => h <= limit
  <2>1. page.next = (Len(rows) > limit)
    BY <1>3
  <2>2. ~(h > limit) => h <= limit
    BY <1>1
  <2> QED
    BY <1>7, <2>1, <2>2
<1>10. ASSUME NEW k \in 1..n, offset < k, k <= offset + m
       PROVE  list[k] \in ToSet(items)
  <2> DEFINE i == k - offset
  <2>1. i \in 1..m /\ i \in 1..h /\ offset + i = k /\ 0 + i = i
    BY <1>1, <1>2, <1>10
  <2> HIDE DEF i
  <2>2. items[i] = rows[0 + i]
    BY <1>6, <2>1 DEF Slice
  <2>3. rows[i] = list[offset + i]
    BY <1>4, <2>1 DEF Slice
  <2>4. items[i] = list[k]
    BY <2>1, <2>2, <2>3
  <2>5. i \in DOMAIN items
    BY <1>6, <2>1 DEF Slice
  <2> QED
    BY <2>4, <2>5 DEF ToSet
<1>11. Len(page.items) \in Nat /\ offset + Len(page.items) <= n
  BY <1>1, <1>2, <1>7, <1>8
<1>12. ~page.next => offset + Len(page.items) = n
  BY <1>1, <1>2, <1>7, <1>8, <1>9
<1> QED
  BY <1>7, <1>8, <1>10, <1>11, <1>12 DEF IsPage, page

\* What a page leaves is beyond the next offset.
LEMMA TurnKeeps ==
  ASSUME VersionsInv, NEW w, ReadingOK(w, ListOf(w), Ordered(ListOf(w))), w.calm => ~w.done,
         NEW list \in ListReports(w.filter, GroupFor(w.filter, w.scope)),
         NEW next,
         LET page == Page(list, w.limit, w.offset) IN
         next = [w EXCEPT !.offset = @ + Len(page.items), !.got = @ \cup ToSet(page.items),
                          !.done = ~page.next]
  PROVE  ReadingOK(next, ListOf(next), Ordered(ListOf(next)))
<1> DEFINE F == ListOf(w)
           n == Cardinality(F)
           page == Page(list, w.limit, w.offset)
<1>1. /\ next = [filter |-> w.filter, scope |-> w.scope, limit |-> w.limit,
                 offset |-> w.offset + Len(page.items), due |-> w.due,
                 got |-> w.got \cup ToSet(page.items), calm |-> w.calm, done |-> ~page.next]
      /\ w.limit \in Nat /\ w.limit > 0 /\ w.calm \in BOOLEAN
      /\ next.offset = w.offset + Len(page.items)
      /\ next.got = w.got \cup ToSet(page.items)
  BY DEF ReadingOK
<1>2. page.next \in BOOLEAN /\ next.done = ~page.next
  BY <1>1 DEF Page
<1>3. ListOf(next) = F
  BY <1>1 DEF ListOf
<1>4. /\ n \in Nat /\ IsFiniteSet(F)
      /\ list \in [1..n -> F]
      /\ \A r \in F : \E k \in 1..n : list[k] = r
      /\ \A k \in 1..n : Cardinality(Before(list[k], F, Ordered(F))) = k - 1
  BY FoundIsListed, PlacesCount DEF ListOf
<1>5. ASSUME w.calm
      PROVE  /\ next.offset \in 0..n /\ w.due \subseteq F
             /\ \A r \in w.due \ next.got :
                  ~next.done /\ next.offset <= Cardinality(Before(r, F, Ordered(F)))
  <2>1. w.offset \in 0..n /\ w.due \subseteq F
        /\ \A r \in w.due \ w.got : w.offset <= Cardinality(Before(r, F, Ordered(F)))
    BY <1>5 DEF ReadingOK
  <2> HIDE DEF F
  <2>2. /\ Len(page.items) \in Nat /\ w.offset + Len(page.items) <= n
        /\ ~page.next => w.offset + Len(page.items) = n
        /\ \A k \in 1..n : w.offset < k /\ k <= w.offset + Len(page.items)
             => list[k] \in ToSet(page.items)
    <3> DEFINE limit == w.limit
               offset == w.offset
    <3>1. limit \in Nat /\ limit > 0 /\ offset \in 0..n
      BY <1>1, <2>1
    <3>2. n \in Nat /\ list = [i \in 1..n |-> list[i]]
      BY <1>4
    <3> HIDE DEF n, limit, offset
    <3>3. IsPage(Page(list, limit, offset), list, n, offset)
      BY <3>1, <3>2, PageListed
    <3>4. IsPage(page, list, n, w.offset)
      BY <3>3 DEF limit, offset
    <3> HIDE DEF page
    <3> QED
      BY <3>4 DEF IsPage
  <2> HIDE DEF page
  <2>3. ASSUME NEW r \in w.due \ next.got
        PROVE  ~next.done /\ next.offset <= Cardinality(Before(r, F, Ordered(F)))
    <3>1. r \in F /\ r \notin w.got /\ r \notin ToSet(page.items)
      BY <1>1, <2>1, <2>3
    <3>2. PICK k \in 1..n : list[k] = r
      BY <1>4, <3>1
    <3>3. Cardinality(Before(r, F, Ordered(F))) = k - 1
      BY <1>4, <3>2
    <3>4. w.offset <= k - 1
      BY <2>1, <2>3, <3>1, <3>3
    <3>5. ~(k <= w.offset + Len(page.items))
      BY <1>4, <2>1, <2>2, <3>1, <3>2, <3>4
    <3>6. w.offset + Len(page.items) <= k - 1 /\ w.offset + Len(page.items) # n
      BY <1>4, <2>1, <2>2, <3>5
    <3> QED
      BY <1>1, <1>2, <2>2, <3>3, <3>6
  <2>4. next.offset \in 0..n
    BY <1>1, <1>4, <2>1, <2>2
  <2> QED
    BY <2>1, <2>3, <2>4
<1>6. /\ next = [filter |-> next.filter, scope |-> next.scope, limit |-> next.limit,
                 offset |-> next.offset, due |-> next.due, got |-> next.got,
                 calm |-> next.calm, done |-> next.done]
      /\ next.limit \in Nat /\ next.limit > 0 /\ next.calm \in BOOLEAN
      /\ next.done \in BOOLEAN /\ next.calm = w.calm /\ next.due = w.due
  <2> HIDE DEF page
  <2> QED
    BY <1>1, <1>2
<1> HIDE DEF F, page
<1> QED
  BY <1>3, <1>5, <1>6 DEF ReadingOK

\* A new reading.
LEMMA ReadingBegins ==
  ASSUME VersionsInv, NEW filter, NEW scope, NEW limit
  PROVE  LET w == Reading(filter, scope, limit) IN
         ReadingOK(w, ListOf(w), Ordered(ListOf(w))) /\ ~w.done /\ w.due = ListOf(w)
<1> DEFINE w == Reading(filter, scope, limit)
           F == ListOf(w)
<1>1. w = [filter |-> filter, scope |-> scope, limit |-> LimitFor(limit), offset |-> 0,
           due |-> Found(filter, GroupFor(filter, scope)), got |-> {},
           calm |-> TRUE, done |-> FALSE]
  BY DEF Reading
<1>2. F = Found(filter, GroupFor(filter, scope))
  BY <1>1 DEF ListOf
<1>3. LimitFor(limit) \in Nat /\ LimitFor(limit) > 0
  BY DeskAssumption DEF LimitFor
<1>4. IsFiniteSet(F) /\ Cardinality(F) \in Nat
  BY <1>2, FoundIsListed
<1>5. \A r : Cardinality(Before(r, F, Ordered(F))) \in Nat
  <2>1. \A r : Before(r, F, Ordered(F)) \subseteq F
    BY DEF Before
  <2> HIDE DEF F
  <2>2. \A r : IsFiniteSet(Before(r, F, Ordered(F)))
    BY <1>4, <2>1, FS_Subset
  <2> QED
    BY <2>2, FS_CardinalityType
<1>6. w.due = F /\ ~w.done
  BY <1>1, <1>2
<1>7. ReadingOK(w, F, Ordered(F))
  <2> HIDE DEF w, F
  <2>1. /\ w.limit \in Nat /\ w.limit > 0 /\ w.calm = TRUE /\ w.done = FALSE
        /\ w.offset = 0 /\ w.due = F
        /\ w = [filter |-> w.filter, scope |-> w.scope, limit |-> w.limit,
                offset |-> w.offset, due |-> w.due, got |-> w.got, calm |-> w.calm,
                done |-> w.done]
    BY <1>1, <1>2, <1>3
  <2>2. \A r \in w.due \ w.got : ~w.done /\ w.offset <= Cardinality(Before(r, F, Ordered(F)))
    BY <1>5, <2>1
  <2>3. w.calm \in BOOLEAN /\ w.done \in BOOLEAN
    BY <2>1
  <2>4. w.offset \in 0..Cardinality(F) /\ w.due \subseteq F
    BY <1>4, <2>1
  <2> QED
    BY <2>1, <2>2, <2>3, <2>4 DEF ReadingOK
<1> QED
  BY <1>6, <1>7

\* Rows that stay listed in their order, whatever comes in between them.
LEMMA ReadingStays ==
  ASSUME NEW w, NEW F, NEW N, ReadingOK(w, F, N),
         NEW F2, NEW N2, IsFiniteSet(F2), F \subseteq F2, N \subseteq N2
  PROVE  ReadingOK(w, F2, N2)
<1>1. IsFiniteSet(F) /\ Cardinality(F) <= Cardinality(F2)
  BY FS_Subset
<1>2. Cardinality(F) \in Nat /\ Cardinality(F2) \in Nat
  BY <1>1, FS_CardinalityType
<1>3. ASSUME NEW r
      PROVE  /\ Cardinality(Before(r, F, N)) \in Nat
             /\ Cardinality(Before(r, F2, N2)) \in Nat
             /\ Cardinality(Before(r, F, N)) <= Cardinality(Before(r, F2, N2))
  <2> DEFINE B == Before(r, F, N)
             B2 == Before(r, F2, N2)
  <2>1. B \subseteq B2 /\ B2 \subseteq F2
    BY DEF Before
  <2> HIDE DEF B, B2
  <2>2. IsFiniteSet(B2)
    BY <2>1, FS_Subset
  <2>3. IsFiniteSet(B) /\ Cardinality(B) <= Cardinality(B2)
    BY <2>1, <2>2, FS_Subset
  <2> QED
    BY <2>2, <2>3, FS_CardinalityType DEF B, B2
<1>4. CASE ~w.calm
  BY <1>4 DEF ReadingOK
<1>5. CASE w.calm
  <2>1. /\ w.offset \in 0..Cardinality(F) /\ w.due \subseteq F
        /\ \A r \in w.due \ w.got : ~w.done /\ w.offset <= Cardinality(Before(r, F, N))
    BY <1>5 DEF ReadingOK
  <2>2. w.offset \in 0..Cardinality(F2) /\ w.due \subseteq F2
    BY <1>1, <1>2, <2>1
  <2>3. ASSUME NEW r \in w.due \ w.got
        PROVE  ~w.done /\ w.offset <= Cardinality(Before(r, F2, N2))
    BY <1>2, <1>3, <2>1
  <2> QED
    BY <2>2, <2>3 DEF ReadingOK
<1> QED
  BY <1>4, <1>5 DEF ReadingOK

\* One that is disturbed is past.
LEMMA ReadingEnds ==
  ASSUME NEW w, NEW F, NEW N, ReadingOK(w, F, N), NEW F2, NEW N2, NEW calm, calm = FALSE
  PROVE  ReadingOK([w EXCEPT !.calm = calm], F2, N2)
<1> DEFINE x == [w EXCEPT !.calm = calm]
<1>1. /\ x = [filter |-> w.filter, scope |-> w.scope, limit |-> w.limit,
              offset |-> w.offset, due |-> w.due, got |-> w.got, calm |-> calm,
              done |-> w.done]
      /\ w.limit \in Nat /\ w.limit > 0 /\ w.done \in BOOLEAN
  BY DEF ReadingOK
<1> HIDE DEF x
<1>2. /\ x = [filter |-> x.filter, scope |-> x.scope, limit |-> x.limit,
              offset |-> x.offset, due |-> x.due, got |-> x.got, calm |-> x.calm,
              done |-> x.done]
      /\ x.limit = w.limit /\ x.done = w.done /\ x.calm = calm
  BY <1>1
<1> QED
  BY <1>1, <1>2 DEF ReadingOK, x

\* A client's list has the rows and the order it had.
LEMMA PagesSame ==
  ASSUME PagesInv, UNCHANGED <<client, versions, groups>>
  PROVE  PagesInv'
<1>1. \A filter, group : Found(filter, group)' = Found(filter, group)
  BY DEF Found, Matches, Latest
<1>2. ASSUME NEW c \in Callers PROVE ListOf(client[c])' = ListOf(client[c])
  <2>1. \A filter, scope : GroupFor(filter, scope) = GroupFor(filter, scope)'
    BY DEF GroupFor
  <2> QED
    BY <1>1 DEF ListOf, Found, Matches, Latest
<1>3. \A F : Ordered(F)' = Ordered(F)
  BY DEF Ordered, Newer, Latest
<1> QED
  BY <1>2, <1>3 DEF PagesInv, Ordered, Newer, Latest, ReadingOK, Before

\* A page is served.
LEMMA PagesServed ==
  ASSUME VersionsInv, PagesInv, NEW c \in Callers,
         ServePage(c) \/ \E filter \in Filters : ServeCSV(c, filter)
  PROVE  PagesInv'
<1>1. UNCHANGED <<versions, groups>>
  BY DEF ServePage, ServeCSV
<1> DEFINE OK(w) == w = Idle \/ ReadingOK(w, ListOf(w), Ordered(ListOf(w)))
<1>2. \A d \in Callers : OK(client[d])
  BY DEF PagesInv
<1>3. SUFFICES ASSUME NEW w, OK(w), client' = [client EXCEPT ![c] = w] PROVE PagesInv'
  <2>1. CASE ServePage(c)
    <3>1. PICK reading :
            /\ Turn(c, reading)
            /\ ReadingOK(reading, ListOf(reading), Ordered(ListOf(reading)))
            /\ reading.calm => ~reading.done
      <4>1. CASE \E filter \in Filters, limit \in Limits :
                   Turn(c, Reading(filter, call[c].group, limit))
        BY <4>1, ReadingBegins
      <4>2. CASE /\ client[c] # Idle /\ ~client[c].done
                 /\ Turn(c, client[c])
        BY <1>2, <4>2
      <4> QED
        BY <2>1, <4>1, <4>2 DEF ServePage
    <3>2. PICK list \in ListReports(reading.filter, GroupFor(reading.filter, reading.scope)) :
            LET page == Page(list, reading.limit, reading.offset) IN
            client' = [client EXCEPT ![c] =
              [reading EXCEPT !.offset = @ + Len(page.items),
                              !.got = @ \cup ToSet(page.items), !.done = ~page.next]]
      BY <3>1 DEF Turn
    <3> DEFINE page == Page(list, reading.limit, reading.offset)
    <3>3. PICK w : w = [reading EXCEPT !.offset = @ + Len(page.items),
                                       !.got = @ \cup ToSet(page.items), !.done = ~page.next]
      OBVIOUS
    <3>4. client' = [client EXCEPT ![c] = w]
      BY <3>2, <3>3
    <3>5. ReadingOK(w, ListOf(w), Ordered(ListOf(w)))
      BY <3>1, <3>3, TurnKeeps
    <3> QED
      BY <1>3, <3>4, <3>5
  <2>2. ASSUME NEW filter \in Filters, ServeCSV(c, filter) PROVE PagesInv'
    <3>1. PICK reading :
            /\ ReadingOK(reading, ListOf(reading), Ordered(ListOf(reading)))
            /\ client' = [client EXCEPT ![c] =
                            [reading EXCEPT !.got = reading.due, !.done = TRUE]]
      BY <2>2, ReadingBegins DEF ServeCSV
    <3>2. PICK w : w = [reading EXCEPT !.got = reading.due, !.done = TRUE]
      OBVIOUS
    <3>3. ListOf(w) = ListOf(reading)
      BY <3>1, <3>2 DEF ReadingOK, ListOf
    <3>4. ReadingOK(w, ListOf(reading), Ordered(ListOf(reading)))
      BY <3>1, <3>2 DEF ReadingOK
    <3> QED
      BY <1>3, <3>1, <3>2, <3>3, <3>4
  <2> QED
    BY <2>1, <2>2
<1>4. client' = [d \in Callers |-> client'[d]] /\ \A d \in Callers : OK(client'[d])
  BY <1>2, <1>3 DEF PagesInv
<1>5. \A F : Ordered(F)' = Ordered(F)
  BY <1>1 DEF Ordered, Newer, Latest
<1>6. ASSUME NEW d \in Callers PROVE ListOf(client[d])' = ListOf(client'[d])
  BY <1>1 DEF ListOf, Found, Matches, Latest, GroupFor
<1> QED
  BY <1>1, <1>4, <1>6 DEF PagesInv, Ordered, Newer, Latest, ReadingOK, Before

\* Something happens to the reports.
LEMMA PagesWatched ==
  ASSUME VersionsInv', PagesInv, WatchClients
  PROVE  PagesInv'
<1>1. ASSUME NEW c \in Callers, client[c] # Idle
      PROVE  ReadingOK(client[c], ListOf(client[c]), Ordered(ListOf(client[c])))'
  <2>1. PICK w : w = client[c]
    OBVIOUS
  <2>2. ReadingOK(w, ListOf(w), Ordered(ListOf(w)))
    BY <1>1, <2>1 DEF PagesInv
  <2>3. PICK l : l = [filter |-> w.filter, group |-> GroupFor(w.filter, w.scope)]
    OBVIOUS
  <2>4. client'[c] = [w EXCEPT !.calm = @ /\ l \in KeptLists]
    BY <1>1, <2>1, <2>3 DEF WatchClients, GroupFor
  <2>5. PICK x : x = client'[c]
    OBVIOUS
  <2>6. x.filter = w.filter /\ x.scope = w.scope
    BY <2>2, <2>4, <2>5 DEF ReadingOK
  <2>7. ListOf(client[c])' = Found(l.filter, l.group)'
    BY <2>3, <2>5, <2>6 DEF ListOf, GroupFor
  <2>8. ListOf(w) = Found(l.filter, l.group)
    BY <2>3 DEF ListOf, GroupFor
  <2>9. CASE w.calm /\ l \in KeptLists
    <3>1. x = w
      BY <2>2, <2>4, <2>5, <2>9 DEF ReadingOK
    <3>2. /\ ListOf(w) \subseteq Found(l.filter, l.group)'
          /\ \A a, b \in ListOf(w) : Newer(a, b) => Newer(a, b)'
      BY <2>8, <2>9 DEF KeptLists
    <3>3. PICK F2 : F2 = Found(l.filter, l.group)'
      OBVIOUS
    <3>4. PICK N2 : N2 = Ordered(F2)'
      OBVIOUS
    <3>5. Ordered(ListOf(w)) \subseteq N2
      BY <3>2, <3>3, <3>4 DEF Ordered
    <3>6. F2 \subseteq Reports /\ IsFiniteSet(F2)
      BY <3>3, FS_Subset, DeskAssumption DEF Found
    <3>7. ReadingOK(w, F2, N2)
      BY <2>2, <3>2, <3>3, <3>5, <3>6, ReadingStays
    <3> QED
      BY <2>5, <2>7, <3>1, <3>3, <3>4, <3>7 DEF Ordered, ReadingOK, Before
  <2>10. CASE ~(w.calm /\ l \in KeptLists)
    <3>1. x = [w EXCEPT !.calm = FALSE]
      BY <2>2, <2>4, <2>5, <2>10 DEF ReadingOK
    <3>2. \A F2, N2 : ReadingOK(x, F2, N2)
      BY <2>2, <3>1, ReadingEnds
    <3> QED
      BY <2>5, <3>2 DEF ReadingOK, Before
  <2> QED
    BY <2>9, <2>10
<1>2. \A c \in Callers : client[c] = Idle => client'[c] = Idle
  BY DEF WatchClients
<1>3. client' = [c \in Callers |-> client'[c]]
  BY DEF WatchClients
<1> QED
  BY <1>1, <1>2, <1>3 DEF PagesInv

-----------------------------------------------------------------------------
(* The reports. *)

\* Versions are appended, and the latest may be remarked.
LEMMA VersionsStep ==
  ASSUME VersionsInv, now' \in Nat,
         \/ UNCHANGED versions
         \/ \E r \in Reports, at \in Nat :
              versions' = [versions EXCEPT ![r] = Append(@, Submitted(at))]
         \/ \E r \in Reports :
              /\ versions[r] # <<>>
              /\ versions' = [versions EXCEPT ![r][Len(versions[r])].state = "remarked"]
  PROVE  VersionsInv'
<1>1. CASE UNCHANGED versions
  BY <1>1 DEF VersionsInv
<1>2. ASSUME NEW r \in Reports, NEW at \in Nat,
             versions' = [versions EXCEPT ![r] = Append(@, Submitted(at))]
      PROVE  VersionsInv'
  <2>1. Submitted(at) \in Version
    BY DEF Submitted, Version, VersionsInv
  <2>2. Append(versions[r], Submitted(at)) \in Seq(Version)
    BY <2>1 DEF VersionsInv
  <2> QED
    BY <1>2, <2>2 DEF VersionsInv
<1>3. ASSUME NEW r \in Reports, versions[r] # <<>>,
             versions' = [versions EXCEPT ![r][Len(versions[r])].state = "remarked"]
      PROVE  VersionsInv'
  <2> DEFINE s == versions[r]
             n == Len(s)
             x == [s[n] EXCEPT !.state = "remarked"]
  <2>1. s \in Seq(Version) /\ n \in 1..Len(s)
    BY <1>3 DEF VersionsInv
  <2>2. s[n] \in Version
    BY <2>1
  <2>3. x \in Version
    BY <2>2 DEF Version
  <2>4. [s EXCEPT ![n] = x] \in Seq(Version)
    <3> HIDE DEF x, n, s
    <3> QED
      BY <2>1, <2>3
  <2>5. versions' = [versions EXCEPT ![r] = [s EXCEPT ![n] = x]]
    BY <1>3
  <2> QED
    BY <2>4, <2>5 DEF VersionsInv
<1> QED
  BY <1>1, <1>2, <1>3

\* What the data API's clients and the reports do, and what leaves them alone.
LEMMA PagesStep == VersionsInv /\ PagesInv /\ [Next]_vars => VersionsInv' /\ PagesInv'
<1> SUFFICES ASSUME VersionsInv, PagesInv, [Next]_vars PROVE VersionsInv' /\ PagesInv'
  OBVIOUS
<1>1. CASE UNCHANGED <<client, versions, groups>> /\ (now' = now \/ now' = now + 1)
  <2>1. now' \in Nat
    BY <1>1 DEF VersionsInv
  <2> QED
    BY <1>1, <2>1, PagesSame, VersionsStep
<1>2. ASSUME NEW c \in Callers,
             ServePage(c) \/ \E filter \in Filters : ServeCSV(c, filter)
      PROVE  VersionsInv' /\ PagesInv'
  <2>1. UNCHANGED <<versions, now>>
    BY <1>2 DEF ServePage, ServeCSV
  <2>2. VersionsInv'
    BY <2>1 DEF VersionsInv
  <2> QED
    BY <1>2, <2>2, PagesServed
<1>3. ASSUME NEW r \in Reports, NEW at \in 0..now, LandVersion(r, at)
      PROVE  VersionsInv' /\ PagesInv'
  <2>1. at \in Nat /\ now' \in Nat
    BY <1>3 DEF VersionsInv, LandVersion
  <2>2. VersionsInv'
    BY <1>3, <2>1, VersionsStep DEF LandVersion
  <2> QED
    BY <1>3, <2>2, PagesWatched DEF LandVersion
<1>4. ASSUME NEW r \in Reports, RemarkReport(r) PROVE VersionsInv' /\ PagesInv'
  <2>1. now' \in Nat
    BY <1>4 DEF VersionsInv, RemarkReport
  <2>2. VersionsInv'
    BY <1>4, <2>1, VersionsStep DEF RemarkReport
  <2> QED
    BY <1>4, <2>2, PagesWatched DEF RemarkReport
<1>5. ASSUME NEW v \in Vessels, NEW G, UpdateGroups(v, G) PROVE VersionsInv' /\ PagesInv'
  <2>1. VersionsInv'
    BY <1>5 DEF UpdateGroups, VersionsInv
  <2> QED
    BY <1>5, <2>1, PagesWatched DEF UpdateGroups
<1>6. ASSUME NEW r \in Reports, CreateCommercialReport(r) PROVE VersionsInv' /\ PagesInv'
  <2>1. now \in 0..now
    BY DEF VersionsInv
  <2> QED
    BY <1>3, <1>6, <2>1 DEF CreateCommercialReport
<1>7. CASE AccountsNext /\ UNCHANGED desk
  BY <1>1, <1>7 DEF desk
<1>8. CASE UNCHANGED vars
  BY <1>1, <1>8 DEF vars, desk
<1>9. ASSUME NEW u \in Users, OpenNotifications(u) \/ MarkNotificationsRead(u)
      PROVE  VersionsInv' /\ PagesInv'
  BY <1>1, <1>9 DEF OpenNotifications, MarkNotificationsRead
<1>10. CASE NextDay
  BY <1>1, <1>10 DEF NextDay
<1>11. ASSUME NEW sent, LandReply(sent) PROVE VersionsInv' /\ PagesInv'
  BY <1>1, <1>11 DEF LandReply
<1> QED
  BY <1>2, <1>3, <1>4, <1>5, <1>6, <1>7, <1>8, <1>9, <1>10, <1>11 DEF Next

-----------------------------------------------------------------------------
(* The whole desk. *)

AccountsInv == UsersInv /\ KeysInv /\ ScreensInv
IInv == AccountsInv /\ VersionsInv /\ PagesInv

\* The office as installed.
LEMMA InvInit == Init => IInv
<1> SUFFICES ASSUME Init PROVE IInv
  OBVIOUS
<1>1. PICK already :
        /\ InitAccounts(already)
        /\ \/ already = <<>>
           \/ already = [u \in {Founder} |-> ChangePassword(NewUser(AllRoles))]
  BY DEF Init
<1>2. \A u \in DOMAIN already : UserRow(already[u])
  BY <1>1, NewUserRow, ChangedRow
<1>3. UsersInv
  BY <1>1, <1>2 DEF InitAccounts, UsersInv, RequestOK
<1>4. KeysInv
  BY <1>1 DEF InitAccounts, KeysInv, CallOK, Unused, OnKey, Idle
<1>5. ScreensInv
  BY DEF Init, ScreensInv
<1>6. VersionsInv
  <2>1. now = 0 /\ Submitted(0) \in Version
    BY DEF Init, Submitted, Version
  <2>2. <<>> \in Seq(Version) /\ <<Submitted(0)>> \in Seq(Version)
    BY <2>1
  <2>3. \/ versions = [r \in Reports |-> <<>>]
        \/ versions = [r \in Reports |-> IF r \in Landed THEN <<Submitted(0)>> ELSE <<>>]
    BY DEF Init
  <2>4. versions \in [Reports -> Seq(Version)]
    BY <2>2, <2>3
  <2> QED
    BY <2>1, <2>4 DEF VersionsInv
<1>7. PagesInv
  BY DEF Init, PagesInv
<1> QED
  BY <1>3, <1>4, <1>5, <1>6, <1>7 DEF IInv, AccountsInv

\* A reply is marked only once it was shown.
LEMMA ScreensStep ==
  ASSUME ScreensInv, NEW u \in Users, OpenNotifications(u) \/ MarkNotificationsRead(u)
  PROVE  ScreensInv'
<1>1. CASE OpenNotifications(u)
  <2>1. PICK F : /\ shown' = [shown EXCEPT ![u] = Ids(F)]
                 /\ opened' = [opened EXCEPT ![u] = @ \cup {id \in Ids(F) : IsReply(id)}]
                 /\ UNCHANGED reads
    BY <1>1 DEF OpenNotifications
  <2> QED
    BY <2>1 DEF ScreensInv
<1>2. CASE MarkNotificationsRead(u)
  <2>1. PICK S : /\ S \subseteq shown[u] /\ reads' = [reads EXCEPT ![u] = @ \cup S]
                 /\ UNCHANGED <<shown, opened>>
    BY <1>2 DEF MarkNotificationsRead
  <2>2. \A v \in Users : reads'[v] = IF v = u THEN reads[u] \cup S ELSE reads[v]
    BY <2>1 DEF ScreensInv
  <2> QED
    BY <2>1, <2>2 DEF ScreensInv
<1> QED
  BY <1>1, <1>2

\* Accounts, keys and screens.
LEMMA AccountsStep == AccountsInv /\ [Next]_vars => AccountsInv'
<1> SUFFICES ASSUME AccountsInv, [Next]_vars PROVE AccountsInv'
  OBVIOUS
<1>1. CASE AccountsNext /\ UNCHANGED desk
  BY <1>1, UsersStep, KeysStep DEF AccountsInv, ScreensInv, desk
<1>2. ASSUME UNCHANGED <<users, request, barred, keys, log, call, served, revoked>>
      PROVE  UsersInv' /\ KeysInv'
  BY <1>2 DEF AccountsInv, UsersInv, KeysInv, Serving, Unused
<1>3. CASE UNCHANGED <<users, request, barred, keys, log, call, served, revoked,
                       reads, shown, opened>>
  BY <1>2, <1>3 DEF AccountsInv, ScreensInv
<1>4. ASSUME NEW u \in Users, OpenNotifications(u) \/ MarkNotificationsRead(u) PROVE AccountsInv'
  <2>1. UsersInv' /\ KeysInv'
    BY <1>2, <1>4 DEF OpenNotifications, MarkNotificationsRead
  <2> QED
    BY <1>4, <2>1, ScreensStep DEF AccountsInv
<1>5. ASSUME NEW c \in Callers, Answered(c), UNCHANGED <<reads, shown, opened>>
      PROVE  AccountsInv'
  <2>1. KeysInv'
    BY <1>5, AnsweredStep DEF AccountsInv, Answered
  <2> QED
    BY <1>5, <2>1 DEF AccountsInv, UsersInv, ScreensInv, Answered
<1>6. ASSUME NEW r \in Reports, NEW at, LandVersion(r, at) PROVE AccountsInv'
  BY <1>3, <1>6 DEF LandVersion
<1>7. CASE UNCHANGED vars
  BY <1>3, <1>7 DEF vars, accounts, desk
<1> QED
  BY <1>1, <1>3, <1>4, <1>5, <1>6, <1>7
  DEF Next, NextDay, LandReply, ServePage, ServeCSV, CreateCommercialReport,
      RemarkReport, UpdateGroups, accounts

\* One step of any kind.
LEMMA InvStep == IInv /\ [Next]_vars => IInv'
BY AccountsStep, PagesStep DEF IInv

\* The rows about to be written are rows that may be, every answer that was or
\* will be given on a key was logged first, no reply is marked unseen, and no
\* undisturbed reading has left a row behind.
THEOREM Inductive == Spec => []IInv
<1> QED
  BY InvInit, InvStep, PTL DEF Spec

\* UpdateUser writes every column as its request has read it: no account ends
\* with a password its holder has not chosen and need not change, and none that
\* was deactivated is let in by a request that was not about that.
THEOREM AccountsAlwaysHold == Spec => []AccountsHold
<1>1. IInv => AccountsHold
  BY DEF IInv, AccountsInv, UsersInv, UserRow, AccountsHold
<1> QED
  BY <1>1, Inductive, PTL

\* authenticatedAPIKey: however calls, revocations and deletions interleave, a
\* revoked key stays revoked and no call is answered that was not logged.
THEOREM KeysAreAccountedFor == Spec => []KeysAccountedFor
<1>1. IInv => KeysAccountedFor
  <2> SUFFICES ASSUME IInv PROVE KeysAccountedFor
    OBVIOUS
  <2>1. \A k \in revoked \cap DOMAIN keys : keys[k].revoked
    BY DEF IInv, AccountsInv, KeysInv
  <2>2. ASSUME NEW k \in DOMAIN keys PROVE served[k] <= log[k]
    <3>1. /\ served[k] \in Nat /\ log[k] \in Nat /\ Cardinality(Serving(k)) \in Nat
          /\ served[k] + Cardinality(Serving(k)) <= log[k]
      BY ServingFinite DEF IInv, AccountsInv, KeysInv
    <3> QED
      BY <3>1
  <2> QED
    BY <2>1, <2>2 DEF KeysAccountedFor
<1> QED
  BY <1>1, Inductive, PTL

\* handleMarkNotificationsRead marks by id what was on the screen: no reply of a
\* vessel is read before its reader was shown it.
THEOREM NothingReadUnseen == Spec => []ReadWasShown
<1>1. IInv => ReadWasShown
  BY DEF IInv, AccountsInv, ScreensInv, ReadWasShown
<1> QED
  BY <1>1, Inductive, PTL

\* queryResolver.Reports: whatever lands while a client follows the pages, it is
\* given every row that was listed when it began, unless one left its place.
THEOREM PagesAreWhole == Spec => []PagesMissNothing
<1>1. IInv => PagesMissNothing
  BY DEF IInv, PagesInv, ReadingOK, PagesMissNothing
<1> QED
  BY <1>1, Inductive, PTL

=============================================================================
