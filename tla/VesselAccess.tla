----------------------------- MODULE VesselAccess -----------------------------
(***************************************************************************)
(* The accounts on board and how the office administers them: the vessel's  *)
(* own handlers (vessel/httpapi/users.go, auth.go), the commands the office *)
(* queues (office/httpapi/vesselusers.go, office/store/usercommands.go),    *)
(* the part of a sync cycle that pulls, applies and confirms them and       *)
(* reports the roster (vessel/httpapi/sync.go, usercommands.go), and the    *)
(* snapshots that take the whole database back (vessel/httpapi/backup.go).  *)
(* Every call of a cycle needs the credential of Enrollment.                *)
(*                                                                         *)
(* An account is the columns the roster reports: role, active, canSubmit.   *)
(* Passwords are left out; a change of one rewrites the row as it was read, *)
(* as every update does.  A command draws its seq as its insert runs, and   *)
(* pulls see it once the insert is committed.                              *)
(***************************************************************************)
EXTENDS Enrollment, Sequences, TLC

CONSTANTS
  Names,        \* usernames
  Master,       \* the one the first-run setup has created
  Crew,         \* roles but "master"
  Cycles,       \* sync cycles that may be under way at once
  Orders,       \* commands an Admin at the office may ask for
  Requests,     \* changes that may be asked for on board
  MaxCommands,  \* bound on commands queued
  MaxChanges,   \* bound on changes made on board
  MaxRestores   \* bound on snapshots restored

\* What the handlers let through (office/httpapi/vesselusers.go).
ASSUME OrdersAssumption ==
  /\ "master" \notin Crew
  /\ \A o \in Orders \cup Requests :
       \/ o.action \in {"create", "setRole"} /\ o.role \in Crew
       \/ o.action = "setActive" /\ o.active \in BOOLEAN
       \/ o.action = "setCanSubmit" /\ o.canSubmit \in BOOLEAN
       \/ o.action = "password"

VARIABLES
  accounts,   \* users on board: [username -> row]
  local,      \* an update on board: the row about to be written
  cursor,     \* inbox_cursors: the one of user commands
  cycle,      \* how far each sync cycle is
  snapshot,   \* a snapshot of the database
  commands,   \* user_commands at the office: what drew each seq
  queued,     \* those whose row is committed
  applied,    \* those with applied_at
  roster,     \* vessel_users at the office
  done, refused,    \* history: commands that were executed, refused on board
  overtaken,        \* history: those not committed yet when a pull that moved
                    \* the cursor past them read the table
  changes, restores \* counters

queue == <<commands, queued>>
tried == <<done, refused, overtaken>>
users == <<accounts, local, cursor, cycle, snapshot, queue, applied, roster,
           tried, changes, restores>>
vars == <<access, users>>

None == [name |-> "none"]
Resting == [stage |-> "rest"]

Init ==
  /\ InitAccess
  /\ accounts = [n \in {Master} |->
                   [role |-> "master", active |-> TRUE, canSubmit |-> FALSE]]
  /\ local = None /\ cursor = 0 /\ cycle = [c \in Cycles |-> Resting]
  /\ snapshot = None /\ commands = <<>> /\ queued = {} /\ applied = {} /\ roster = <<>>
  /\ done = {} /\ refused = {} /\ overtaken = {} /\ changes = 0 /\ restores = 0

\* requireSuperAdmin: an active Master is there to ask.
SuperAdmin == \E n \in DOMAIN accounts :
                accounts[n].role = "master" /\ accounts[n].active

With(n, row) == [k \in DOMAIN accounts \cup {n} |-> IF k = n THEN row ELSE accounts[k]]
NewUser(role) == [role |-> role, active |-> TRUE, canSubmit |-> FALSE]

-----------------------------------------------------------------------------
(* What an order does to a row; the same rules on board and from the office. *)

\* Mutant: the office has looked at the roster, the vessel need not.
TrustOffice(order, row) == TRUE

\* The Master is not deactivated.
Permitted(order, row) ==
  ~(order.action = "setActive" /\ ~order.active /\ row.role = "master")

\* Nobody is promoted to Master: neither side takes such an order.
SetRole(row, role) == [row EXCEPT !.role = role]
SetActive(row, active) == [row EXCEPT !.active = active]
SetCanSubmit(row, canSubmit) == [row EXCEPT !.canSubmit = canSubmit]

Changed(order, row) ==
  CASE order.action = "setRole"      -> SetRole(row, order.role)
    [] order.action = "setActive"    -> SetActive(row, order.active)
    [] order.action = "setCanSubmit" -> SetCanSubmit(row, order.canSubmit)
    [] order.action = "password"     -> row

-----------------------------------------------------------------------------
(* Administration on board. *)

CreateUser(n, role) ==
  /\ changes < MaxChanges /\ changes' = changes + 1
  /\ SuperAdmin
  /\ n \notin DOMAIN accounts
  /\ accounts' = With(n, NewUser(role))
  /\ UNCHANGED <<access, local, cursor, cycle, snapshot, queue, applied,
                 roster, tried, restores>>

\* handleUpdateUser, handleResetUserPassword, handleChangePassword: the row is
\* read and changed; another request or a command may write before it does.
LoadUser(n, order) ==
  /\ local = None
  /\ changes < MaxChanges /\ changes' = changes + 1
  /\ n \in DOMAIN accounts
  /\ order.action \notin {"create", "setRole"}
  /\ \/ SuperAdmin
     \/ order.action = "password" /\ accounts[n].active
  /\ Permitted(order, accounts[n])
  /\ local' = [name |-> n, row |-> Changed(order, accounts[n])]
  /\ UNCHANGED <<access, accounts, cursor, cycle, snapshot, queue, applied,
                 roster, tried, restores>>

\* UpdateUser: every column.
UpdateUser ==
  /\ local # None
  /\ accounts' = [accounts EXCEPT ![local.name] = local.row]
  /\ local' = None
  /\ UNCHANGED <<access, cursor, cycle, snapshot, queue, applied, roster,
                 tried, changes, restores>>

-----------------------------------------------------------------------------
(* The Admins' queue. *)

\* The roster may be old: the vessel decides again.
Listed(n) == n \in DOMAIN roster
MayCreate(order) == ~Listed(order.name)
MaySetActive(order) ==
  (~order.active /\ Listed(order.name)) => roster[order.name].role # "master"

Queueable(order) ==
  CASE order.action = "create"    -> MayCreate(order)
    [] order.action = "setActive" -> MaySetActive(order)
    [] OTHER -> TRUE

\* The commands past the cursor that are committed.
ListUserCommandsSince(since) == {i \in queued : i > since}

MarkUserCommandsApplied(ids) == applied' = applied \cup ids

\* Every row of the vessel deleted and written again, in one transaction.
ReplaceVesselUsers(rows) == roster' = rows

\* The insert draws a seq,
QueueUserCommand(order) ==
  /\ Len(commands) < MaxCommands
  /\ Queueable(order)
  /\ commands' = Append(commands, order)
  /\ UNCHANGED <<access, accounts, local, cursor, cycle, snapshot, queued,
                 applied, roster, tried, changes, restores>>

\* and the row is there once it is committed, or never, if it fails.
CommitUserCommand(i) ==
  /\ i \notin queued
  /\ queued' = queued \cup {i}
  /\ UNCHANGED <<access, accounts, local, cursor, cycle, snapshot, commands,
                 applied, roster, tried, changes, restores>>

-----------------------------------------------------------------------------
(* A sync cycle. *)

Go(c, to) == cycle' = [cycle EXCEPT ![c] = to]
Rest(c) == Go(c, Resting)

\* syncClientOrNil keeps the token; pullInboxBatch reads the cursor.
BeginCycle(c) ==
  /\ cycle[c] = Resting
  /\ submitted /\ aboard.token # 0
  /\ Go(c, [stage |-> "asked", token |-> aboard.token, since |-> cursor,
            open |-> TRUE])
  /\ UNCHANGED <<access, accounts, local, cursor, snapshot, queue, applied,
                 roster, tried, changes, restores>>

\* The roster as it is read for the status call, empty if the database this
\* cycle works on has been closed under it.
Report(c, ids) ==
  Go(c, [stage |-> "reporting", token |-> cycle[c].token, ids |-> ids,
         users |-> IF cycle[c].open THEN accounts' ELSE <<>>])

First(ids) == CHOOSE i \in ids : \A j \in ids : i <= j
Last(ids) == CHOOSE i \in ids : \A j \in ids : j <= i

\* What the answer to a pull holds: the commands to execute, the passwords of
\* those in blank wiped by the confirmation, the cursor after them, and the
\* numbers below it whose rows it could not see.
Answered(c) ==
  LET new == ListUserCommandsSince(cycle[c].since)
      next == IF new = {} THEN cycle[c].since ELSE Last(new) IN
  [stage |-> "applying", token |-> cycle[c].token, open |-> cycle[c].open,
   ids |-> {}, todo |-> new, next |-> next, gaps |-> (1..next) \ queued,
   blank |-> applied, row |-> None]

\* Mutant: the cursor is saved with the answer, before anything is applied.
PullAndSave(c) ==
  /\ cycle[c].stage = "asked"
  /\ IF Accepted(cycle[c].token)
     THEN Go(c, Answered(c)) /\ cursor' = Answered(c).next
     ELSE Rest(c) /\ UNCHANGED cursor
  /\ UNCHANGED <<access, accounts, local, snapshot, queue, applied,
                 roster, tried, changes, restores>>

\* PullInbox: everything past the cursor, the password of a command that has
\* been confirmed no longer in it.  A refused cycle ends here, because its
\* status call is refused as well.
PullUserCommands(c) ==
  /\ cycle[c].stage = "asked"
  /\ IF Accepted(cycle[c].token)
     THEN Go(c, Answered(c)) ELSE Rest(c)
  /\ UNCHANGED <<access, accounts, local, cursor, snapshot, queue, applied,
                 roster, tried, changes, restores>>

\* applyUserCommand for the next one: the vessel's own rules, on the row as it
\* reads it.  It goes on with the one after it whatever becomes of this one.
LoadCommanded(c) ==
  /\ cycle[c].stage = "applying"
  /\ cycle[c].todo # {} /\ cycle[c].row = None
  /\ LET i == First(cycle[c].todo)
         order == commands[i]
         n == order.name
         found == n \in DOMAIN accounts
         ok == /\ cycle[c].open
               /\ order.action \in {"create", "password"} => i \notin cycle[c].blank
               /\ IF order.action = "create" THEN ~found
                  ELSE found /\ Permitted(order, accounts[n])
     IN IF ok
        THEN /\ Go(c, [cycle[c] EXCEPT !.row =
                  IF order.action = "create" THEN NewUser(order.role)
                  ELSE Changed(order, accounts[n])])
             /\ UNCHANGED refused
        ELSE /\ refused' = refused \cup {i}
             /\ Go(c, [cycle[c] EXCEPT !.todo = @ \ {i}])
  /\ UNCHANGED <<access, accounts, local, cursor, snapshot, queue, applied,
                 roster, done, overtaken, changes, restores>>

\* UpdateUser or CreateUser, which the username's constraint may refuse.
StoreCommanded(c) ==
  /\ cycle[c].stage = "applying" /\ cycle[c].row # None
  /\ LET i == First(cycle[c].todo)
         n == commands[i].name
         ok == cycle[c].open /\ (commands[i].action = "create" => n \notin DOMAIN accounts)
         rest == [cycle[c] EXCEPT !.todo = @ \ {i}, !.row = None] IN
     IF ok
     THEN /\ accounts' = With(n, cycle[c].row)
          /\ done' = done \cup {i}
          /\ Go(c, [rest EXCEPT !.ids = @ \cup {i}])
          /\ UNCHANGED refused
     ELSE /\ refused' = refused \cup {i}
          /\ Go(c, rest)
          /\ UNCHANGED <<accounts, done>>
  /\ UNCHANGED <<access, local, cursor, snapshot, queue, applied, roster,
                 overtaken, changes, restores>>

\* No write reaches a database that was closed.
MovePast(w) ==
  IF w.open THEN cursor' = w.next /\ overtaken' = overtaken \cup w.gaps
  ELSE UNCHANGED <<cursor, overtaken>>

\* Mutant: every command that was pulled is reported as applied.
SaveAndConfirmAll(c) ==
  /\ cycle[c].stage = "applying" /\ cycle[c].todo = {}
  /\ MovePast(cycle[c])
  /\ UNCHANGED accounts
  /\ Report(c, (1..cycle[c].next) \ cycle[c].gaps)
  /\ UNCHANGED <<access, local, snapshot, queue, applied, roster, done,
                 refused, changes, restores>>

\* ApplyInboxPull, with the cursor past all of them; the roster is read next.
SaveCursor(c) ==
  /\ cycle[c].stage = "applying" /\ cycle[c].todo = {}
  /\ MovePast(cycle[c])
  /\ UNCHANGED accounts
  /\ Report(c, cycle[c].ids)
  /\ UNCHANGED <<access, local, snapshot, queue, applied, roster, done,
                 refused, changes, restores>>

\* Mutant: the roster is merged into what is there.
SyncStatusMerging(c) ==
  /\ cycle[c].stage = "reporting"
  /\ IF Accepted(cycle[c].token)
     THEN MarkUserCommandsApplied(cycle[c].ids) /\ roster' = cycle[c].users @@ roster
     ELSE UNCHANGED <<applied, roster>>
  /\ Rest(c)
  /\ UNCHANGED <<access, accounts, local, cursor, snapshot, queue, tried, changes, restores>>

\* SyncStatus: applied_at for what the vessel names, the roster replaced.
SyncStatus(c) ==
  /\ cycle[c].stage = "reporting"
  /\ IF Accepted(cycle[c].token)
     THEN MarkUserCommandsApplied(cycle[c].ids) /\ ReplaceVesselUsers(cycle[c].users)
     ELSE UNCHANGED <<applied, roster>>
  /\ Rest(c)
  /\ UNCHANGED <<access, accounts, local, cursor, snapshot, queue, tried, changes, restores>>

\* The pull fails and the status call goes on without it; or the vessel stops,
\* or the status call is lost.
CutCycle(c) ==
  /\ cuts < MaxCuts /\ cuts' = cuts + 1
  /\ cycle[c] # Resting
  /\ UNCHANGED accounts
  /\ \/ cycle[c].stage = "asked" /\ Report(c, {})
     \/ cycle[c].stage = "applying" /\ Report(c, cycle[c].ids)
     \/ Rest(c)
  /\ UNCHANGED <<enrollment, credential, admin, setup, aboard, submitted, codes,
                 exchanges, calm, local, cursor, snapshot, queue, applied,
                 roster, tried, changes, restores>>

-----------------------------------------------------------------------------
(* Snapshots. *)

SnapshotTo ==
  /\ snapshot = None
  /\ snapshot' = [accounts |-> accounts, aboard |-> aboard, cursor |-> cursor]
  /\ Overlap
  /\ UNCHANGED <<enrollment, credential, admin, setup, aboard, submitted, codes,
                 exchanges, cuts, accounts, local, cursor, cycle, queue, applied,
                 roster, tried, changes, restores>>

\* restoreFromSnapshot: the database of every request under way is closed.
RestoreDatabase ==
  /\ restores < MaxRestores /\ restores' = restores + 1
  /\ SuperAdmin
  /\ snapshot # None
  /\ accounts' = snapshot.accounts /\ aboard' = snapshot.aboard
  /\ cursor' = snapshot.cursor
  /\ local' = None
  /\ setup' = [q \in Setups |->
       IF setup[q] = Idle THEN Idle ELSE [setup[q] EXCEPT !.open = FALSE]]
  /\ cycle' = [c \in Cycles |->
       IF cycle[c].stage \in {"asked", "applying"}
       THEN [cycle[c] EXCEPT !.open = FALSE] ELSE cycle[c]]
  /\ UNCHANGED <<enrollment, credential, admin, submitted, codes, exchanges,
                 cuts, calm, snapshot, queue, applied, roster, tried,
                 changes>>

-----------------------------------------------------------------------------

CycleStep(c) ==
  \/ PullUserCommands(c) \/ LoadCommanded(c) \/ StoreCommanded(c)
  \/ SaveCursor(c) \/ SyncStatus(c)

Access ==
  /\ \/ Administer \/ Cut
     \/ \E a \in Admins : AdminStep(a)
     \/ \E q \in Setups : SetupStep(q)
     \/ SuperAdmin /\ (SkipEnrollment \/ \E q \in Setups, k \in 1..codes : SendCode(q, k))
  /\ UNCHANGED users

Next ==
  \/ Access
  \/ UpdateUser \/ SnapshotTo \/ RestoreDatabase
  \/ \E n \in Names, role \in Crew : CreateUser(n, role)
  \/ \E order \in Requests : LoadUser(order.name, order)
  \/ \E order \in Orders : QueueUserCommand(order)
  \/ \E i \in DOMAIN commands : CommitUserCommand(i)
  \/ \E c \in Cycles : BeginCycle(c) \/ CycleStep(c) \/ CutCycle(c)

Spec == Init /\ [][Next]_vars

\* runSyncScheduler starts a cycle again and again and sees it through.
FairSpec == Spec /\ \A c \in Cycles : WF_vars(BeginCycle(c) \/ CycleStep(c))

-----------------------------------------------------------------------------

\* The Master is never locked out, whatever the office believes about the
\* roster and whichever whole-row write comes last.
MasterStaysActive ==
  \A n \in DOMAIN accounts : accounts[n].role = "master" => accounts[n].active

\* The office shows a command as applied only if the vessel has executed it,
\* and the cursor passes a command that was not tried only if that one had
\* drawn its seq and was not committed when a pull read a later one, through
\* cuts, concurrent cycles and restored snapshots.
CommandsAccountedFor ==
  /\ applied \subseteq done
  /\ 1..cursor \subseteq done \cup refused \cup overtaken

Reachable == submitted /\ Accepted(aboard.token)

\* Every command that is committed is tried once the vessel stays let in,
\* unless the cursor went past its seq before it was committed.
CommandsAreTried ==
  <>[]Reachable =>
    \A i \in 1..MaxCommands :
      (i \in queued) ~> (i \in done \cup refused \cup overtaken)

\* The roster at the office heals: it is the vessel's again and again, as it
\* is replaced whole by every status call.
RosterHeals == <>[]Reachable => []<>(roster = accounts)

=============================================================================
