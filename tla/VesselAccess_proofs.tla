-------------------------- MODULE VesselAccess_proofs --------------------------
(***************************************************************************)
(* Who may come aboard, with any number of accounts, cycles, orders, cuts   *)
(* and restored snapshots: that the Master is never locked out and that     *)
(* every command is accounted for; and how the vessel itself comes to be    *)
(* known, with any number of Admins' requests and exchanges, cut and        *)
(* interleaved anywhere between their statements: that no code can be used  *)
(* after a credential was bought with it, and that the rows agree when no   *)
(* two requests overlapped and none was cut.                                *)
(***************************************************************************)
EXTENDS VesselAccess, TLAPS, WellFoundedInduction

Rows == [role : Crew \cup {"master"}, active : BOOLEAN, canSubmit : BOOLEAN]

\* A row that may be in a table, a snapshot or a pending write.
RowOK(r) == r \in Rows /\ (r.role = "master" => r.active)
TableOK(t) == \A n \in DOMAIN t : RowOK(t[n])

\* Commands the cursor may leave behind.
Past == done \cup refused \cup overtaken

\* Everything up to i is in the set t.
Behind(i, t) == i \in Nat /\ 1..i \subseteq t

RowsInv ==
  /\ TableOK(accounts)
  /\ local = None \/ RowOK(local.row)
  /\ snapshot = None \/ TableOK(snapshot.accounts)

AsAsked(w, t) ==
  /\ w = [stage |-> "asked", token |-> w.token, since |-> w.since, open |-> w.open]
  /\ Behind(w.since, t)

AsApplying(w, d, t, n) ==
  /\ w = [stage |-> "applying", token |-> w.token, open |-> w.open, ids |-> w.ids,
          todo |-> w.todo, next |-> w.next, gaps |-> w.gaps, blank |-> w.blank,
          row |-> w.row]
  /\ w.todo \subseteq 1..n
  /\ Behind(w.next, t \cup w.todo \cup w.gaps)
  /\ w.ids \subseteq d
  /\ w.row = None \/ (RowOK(w.row) /\ w.todo # {})

AsReporting(w, d) ==
  /\ w = [stage |-> "reporting", token |-> w.token, ids |-> w.ids, users |-> w.users]
  /\ w.ids \subseteq d

\* A cycle, given what was executed, what may be behind the cursor, and the
\* length of the queue.
CycleOK(w, d, t, n) ==
  w = Resting \/ AsAsked(w, t) \/ AsApplying(w, d, t, n) \/ AsReporting(w, d)

CommandsInv ==
  /\ commands \in Seq(Orders)
  /\ queued \subseteq 1..Len(commands)
  /\ applied \subseteq done
  /\ Behind(cursor, Past)
  /\ snapshot = None \/ Behind(snapshot.cursor, Past)
  /\ cycle = [c \in Cycles |-> cycle[c]]
  /\ \A c \in Cycles : CycleOK(cycle[c], done, Past, Len(commands))

IInv == RowsInv /\ CommandsInv

-----------------------------------------------------------------------------
(* Lemmas. *)

\* A set of numbers that is not empty has a least one.
LEMMA LeastNumber ==
  ASSUME NEW S \in SUBSET Nat, S # {}
  PROVE  \E m \in S : \A k \in S : m <= k
<1>1. IsWellFoundedOn(OpToRel(<, Nat), Nat)
  BY NatLessThanWellFounded
<1>2. PICK m \in S : \A k \in S : <<k, m>> \notin OpToRel(<, Nat)
  BY <1>1, WFMin, Zenon
<1>3. \A k \in S : ~(k < m)
  BY <1>2 DEF OpToRel
<1> QED
  BY <1>3

\* A bounded one has a greatest.
LEMMA GreatestNumber ==
  ASSUME NEW n \in Nat, NEW S \in SUBSET (1..n), S # {}
  PROVE  \E m \in S : \A k \in S : k <= m
<1> DEFINE T == {n - k : k \in S}
<1>1. T \in SUBSET Nat
  <2>1. \A k \in S : k \in 1..n
    OBVIOUS
  <2>2. \A k \in 1..n : n - k \in Nat
    OBVIOUS
  <2> QED
    BY <2>1, <2>2
<1>5. T # {}
  OBVIOUS
<1>2. PICK t \in T : \A u \in T : t <= u
  BY <1>1, <1>5, LeastNumber
<1>3. PICK m \in S : t = n - m
  OBVIOUS
<1>4. \A k \in S : k <= m
  BY <1>2, <1>3
<1> QED
  BY <1>4

\* Whatever an order changes, the row stays one that may be written.
LEMMA ChangedIsOK ==
  ASSUME NEW order \in Orders \cup Requests, order.action # "create",
         NEW row, RowOK(row), Permitted(order, row)
  PROVE  RowOK(Changed(order, row))
<1>1. row = [role |-> row.role, active |-> row.active, canSubmit |-> row.canSubmit]
  BY DEF RowOK, Rows
<1>2. CASE order.action = "setRole" /\ order.role \in Crew
  <2>1. Changed(order, row) = [row EXCEPT !.role = order.role]
    BY <1>2 DEF Changed, SetRole
  <2> QED
    BY <1>2, <2>1, OrdersAssumption DEF RowOK, Rows
<1>3. CASE order.action = "setActive" /\ order.active \in BOOLEAN
  <2>1. Changed(order, row) = [row EXCEPT !.active = order.active]
    BY <1>3 DEF Changed, SetActive
  <2>2. order.active \/ row.role # "master"
    BY <1>3 DEF Permitted
  <2> QED
    BY <1>3, <2>1, <2>2 DEF RowOK, Rows
<1>4. CASE order.action = "setCanSubmit" /\ order.canSubmit \in BOOLEAN
  <2>1. Changed(order, row) = [row EXCEPT !.canSubmit = order.canSubmit]
    BY <1>4 DEF Changed, SetCanSubmit
  <2> QED
    BY <1>4, <2>1 DEF RowOK, Rows
<1>5. CASE order.action = "password"
  BY <1>5 DEF Changed
<1> QED
  BY <1>2, <1>3, <1>4, <1>5, OrdersAssumption

\* A created account is one that may be written.
LEMMA NewUserIsOK == ASSUME NEW role \in Crew PROVE RowOK(NewUser(role))
BY OrdersAssumption DEF RowOK, Rows, NewUser

\* No order creates a Master.
LEMMA CreatesCrew ==
  ASSUME NEW order \in Orders, order.action = "create" PROVE order.role \in Crew
BY OrdersAssumption

\* A table stays right when a right row is put into it.
LEMMA WithIsOK ==
  ASSUME TableOK(accounts), NEW n, NEW row, RowOK(row) PROVE TableOK(With(n, row))
BY DEF TableOK, With

\* The first and the last of some commands.
LEMMA FirstAndLast ==
  ASSUME NEW n \in Nat, NEW S \in SUBSET (1..n), S # {}
  PROVE  First(S) \in S /\ Last(S) \in S /\ First(S) \in 1..n /\ Last(S) \in 1..n
<1>1. First(S) \in S
  <2>1. \E i \in S : \A j \in S : i <= j
    BY LeastNumber
  <2> QED
    BY <2>1 DEF First
<1>2. Last(S) \in S
  <2>1. \E i \in S : \A j \in S : j <= i
    BY GreatestNumber
  <2> QED
    BY <2>1 DEF Last
<1> QED
  BY <1>1, <1>2

\* A cycle that goes on applying, with todo left to do.
Onward(w, todo, ids, row) ==
  [stage |-> "applying", token |-> w.token, open |-> w.open, ids |-> ids,
   todo |-> todo, next |-> w.next, gaps |-> w.gaps, blank |-> w.blank,
   row |-> row]

\* Going on to another command, with or without this one executed.
LEMMA GoesOn ==
  ASSUME NEW w, w = Onward(w, w.todo, w.ids, w.row), NEW i
  PROVE  LET skipped == [w EXCEPT !.todo = @ \ {i}, !.row = None] IN
         /\ skipped = Onward(w, w.todo \ {i}, w.ids, None)
         /\ [skipped EXCEPT !.ids = @ \cup {i}] =
              Onward(w, w.todo \ {i}, w.ids \cup {i}, None)
<1>1. [w EXCEPT !.todo = @ \ {i}] = Onward(w, w.todo \ {i}, w.ids, w.row)
  BY DEF Onward
<1>2. ASSUME NEW v, v = Onward(w, w.todo \ {i}, w.ids, w.row)
      PROVE  [v EXCEPT !.row = None] = Onward(w, w.todo \ {i}, w.ids, None)
  BY <1>2 DEF Onward
<1>3. ASSUME NEW v, v = Onward(w, w.todo \ {i}, w.ids, None)
      PROVE  [v EXCEPT !.ids = @ \cup {i}] = Onward(w, w.todo \ {i}, w.ids \cup {i}, None)
  BY <1>3 DEF Onward
<1>4. [w EXCEPT !.todo = @ \ {i}, !.row = None] = [[w EXCEPT !.todo = @ \ {i}] EXCEPT !.row = None]
  OBVIOUS
<1> QED
  BY <1>1, <1>2, <1>3, <1>4

\* One more was tried.
LEMMA TriedNext ==
  ASSUME NEW w, NEW d, NEW t, NEW n, AsApplying(w, d, t, n),
         NEW i, NEW d2, NEW t2, NEW ids, ids \subseteq d2, t \cup {i} \subseteq t2
  PROVE  AsApplying(Onward(w, w.todo \ {i}, ids, None), d2, t2, n)
<1> DEFINE v == Onward(w, w.todo \ {i}, ids, None)
<1>1. /\ v.todo = w.todo \ {i} /\ v.next = w.next /\ v.gaps = w.gaps
      /\ v.ids = ids /\ v.row = None
      /\ v = [stage |-> "applying", token |-> v.token, open |-> v.open, ids |-> v.ids,
             todo |-> v.todo, next |-> v.next, gaps |-> v.gaps, blank |-> v.blank,
             row |-> v.row]
  BY DEF Onward
<1> HIDE DEF v
<1>2. Behind(v.next, t2 \cup v.todo \cup v.gaps)
  BY <1>1 DEF AsApplying, Behind
<1> QED
  BY <1>1, <1>2 DEF AsApplying, v

\* What was tried stays tried.
LEMMA CycleStays ==
  ASSUME NEW w, NEW d, NEW t, NEW n \in Nat, CycleOK(w, d, t, n),
         NEW d2, NEW t2, NEW n2 \in Nat, d \subseteq d2, t \subseteq t2, n <= n2
  PROVE  CycleOK(w, d2, t2, n2)
<1>1. CASE w = Resting
  BY <1>1 DEF CycleOK
<1>2. CASE AsAsked(w, t)
  BY <1>2 DEF CycleOK, AsAsked, Behind
<1>3. CASE AsApplying(w, d, t, n)
  <2>1. 1..n \subseteq 1..n2
    OBVIOUS
  <2>2. AsApplying(w, d2, t2, n2)
    BY <1>3, <2>1 DEF AsApplying, Behind
  <2> QED
    BY <2>2 DEF CycleOK
<1>4. CASE AsReporting(w, d)
  BY <1>4 DEF CycleOK, AsReporting
<1> QED
  BY <1>1, <1>2, <1>3, <1>4 DEF CycleOK

\* The stage tells which of the four a cycle is.
LEMMA Stage ==
  ASSUME CommandsInv, NEW c \in Cycles
  PROVE  /\ cycle[c].stage = "asked" => AsAsked(cycle[c], Past)
         /\ cycle[c].stage = "applying" =>
              AsApplying(cycle[c], done, Past, Len(commands))
         /\ cycle[c].stage = "reporting" => AsReporting(cycle[c], done)
<1>1. CycleOK(cycle[c], done, Past, Len(commands))
  BY DEF CommandsInv
<1>2. Resting.stage = "rest"
  BY DEF Resting
<1>3. AsAsked(cycle[c], Past) => cycle[c].stage = "asked"
  BY DEF AsAsked
<1>4. AsApplying(cycle[c], done, Past, Len(commands)) => cycle[c].stage = "applying"
  BY DEF AsApplying
<1>5. AsReporting(cycle[c], done) => cycle[c].stage = "reporting"
  BY DEF AsReporting
<1> QED
  BY <1>1, <1>2, <1>3, <1>4, <1>5 DEF CycleOK

\* One cycle goes on, the queue and the history at most grow.
LEMMA OneCycle ==
  ASSUME CommandsInv, UNCHANGED <<commands, queued>>,
         done \subseteq done', Past \subseteq Past',
         NEW c \in Cycles, NEW to, Go(c, to),
         CycleOK(to, done', Past', Len(commands)),
         applied' \subseteq done', cursor' = cursor \/ Behind(cursor', Past'),
         UNCHANGED snapshot
  PROVE  CommandsInv'
<1>1. cycle' = [cycle EXCEPT ![c] = to]
  BY DEF Go
<1>2. Len(commands) \in Nat
  BY DEF CommandsInv
<1>3. ASSUME NEW d \in Cycles PROVE CycleOK(cycle'[d], done', Past', Len(commands))
  <2>1. CASE d = c
    BY <1>1, <2>1 DEF CommandsInv
  <2>2. CASE d # c
    <3>1. cycle'[d] = cycle[d] /\ CycleOK(cycle[d], done, Past, Len(commands))
      BY <1>1, <2>2 DEF CommandsInv
    <3> QED
      BY <1>2, <3>1, CycleStays
  <2> QED
    BY <2>1, <2>2
<1>4. Behind(cursor', Past')
  BY DEF CommandsInv, Behind
<1>5. snapshot = None \/ Behind(snapshot.cursor, Past')
  BY DEF CommandsInv, Behind
<1>6. cycle' = [d \in Cycles |-> cycle'[d]]
  BY <1>1 DEF CommandsInv
<1> QED
  BY <1>3, <1>4, <1>5, <1>6 DEF CommandsInv

\* No cycle moves, the queue at most grows.
LEMMA NoCycle ==
  ASSUME CommandsInv, commands' \in Seq(Orders), Len(commands) <= Len(commands'),
         queued' \subseteq 1..Len(commands'),
         UNCHANGED <<cycle, done, refused, overtaken, applied, cursor>>,
         snapshot' = None \/ Behind(snapshot'.cursor, Past)
  PROVE  CommandsInv'
<1>1. Len(commands) \in Nat /\ Len(commands') \in Nat
  BY DEF CommandsInv
<1>2. \A c \in Cycles : CycleOK(cycle[c], done, Past, Len(commands'))
  BY <1>1, CycleStays DEF CommandsInv
<1> QED
  BY <1>2 DEF CommandsInv, Past

\* A cycle reports what it has executed and saves its cursor.
LEMMA ReportIsOK ==
  ASSUME CommandsInv, NEW c \in Cycles, NEW ids, ids \subseteq done, Report(c, ids),
         UNCHANGED <<commands, queued, applied, done, snapshot>>, Past \subseteq Past',
         cursor' = cursor \/ Behind(cursor', Past')
  PROVE  CommandsInv'
<1> DEFINE to == [stage |-> "reporting", token |-> cycle[c].token, ids |-> ids,
                  users |-> IF cycle[c].open THEN accounts' ELSE <<>>]
<1>1. Go(c, to)
  BY DEF Report
<1>2. CycleOK(to, done', Past', Len(commands))
  BY DEF CycleOK, AsReporting
<1> HIDE DEF to
<1> QED
  BY <1>1, <1>2, OneCycle DEF CommandsInv

-----------------------------------------------------------------------------
(* The steps, by what they touch. *)

\* The installed vessel has its Master, and no command.
LEMMA InvInit == Init => IInv
<1> SUFFICES ASSUME Init PROVE IInv
  OBVIOUS
<1>1. RowsInv
  BY DEF Init, RowsInv, TableOK, RowOK, Rows, None
<1>2. CommandsInv
  BY DEF Init, CommandsInv, Behind, CycleOK
<1> QED
  BY <1>1, <1>2 DEF IInv

\* A step that touches neither accounts nor commands.
LEMMA InvStutter == IInv /\ UNCHANGED users => IInv'
BY DEF IInv, RowsInv, CommandsInv, users, queue, tried, Past

\* Requests on board: loading a row, changing it, writing it back.
LEMMA BoardStep ==
  ASSUME IInv,
         \/ UpdateUser \/ SnapshotTo
         \/ \E n \in Names, role \in Crew : CreateUser(n, role)
         \/ \E order \in Requests : LoadUser(order.name, order)
         \/ \E order \in Orders : QueueUserCommand(order)
         \/ \E i \in DOMAIN commands : CommitUserCommand(i)
  PROVE  IInv'
<1> USE DEF IInv, queue, tried
<1>1. CASE UpdateUser
  <2>1. RowOK(local.row)
    BY <1>1 DEF UpdateUser, RowsInv
  <2>2. RowsInv'
    BY <1>1, <2>1 DEF UpdateUser, RowsInv, TableOK
  <2>3. CommandsInv'
    BY <1>1, NoCycle DEF UpdateUser, CommandsInv
  <2> QED
    BY <2>2, <2>3
<1>2. CASE SnapshotTo
  <2>1. snapshot'.accounts = accounts /\ snapshot'.cursor = cursor
    BY <1>2 DEF SnapshotTo
  <2>2. RowsInv'
    BY <1>2, <2>1 DEF SnapshotTo, RowsInv
  <2>3. CommandsInv'
    BY <1>2, <2>1, NoCycle DEF SnapshotTo, CommandsInv
  <2> QED
    BY <2>2, <2>3
<1>3. ASSUME NEW n \in Names, NEW role \in Crew, CreateUser(n, role) PROVE IInv'
  <2>1. RowsInv'
    BY <1>3, NewUserIsOK, WithIsOK DEF CreateUser, RowsInv
  <2>2. CommandsInv'
    BY <1>3, NoCycle DEF CreateUser, CommandsInv
  <2> QED
    BY <2>1, <2>2
<1>4. ASSUME NEW order \in Requests, LoadUser(order.name, order) PROVE IInv'
  <2>1. RowOK(accounts[order.name])
    BY <1>4 DEF LoadUser, RowsInv, TableOK
  <2>2. RowOK(Changed(order, accounts[order.name]))
    BY <1>4, <2>1, ChangedIsOK DEF LoadUser
  <2>3. RowOK(local'.row)
    BY <1>4, <2>2 DEF LoadUser
  <2>4. RowsInv'
    BY <1>4, <2>3 DEF LoadUser, RowsInv
  <2>5. CommandsInv'
    BY <1>4, NoCycle DEF LoadUser, CommandsInv
  <2> QED
    BY <2>4, <2>5
<1>5. ASSUME NEW order \in Orders, QueueUserCommand(order) PROVE IInv'
  <2>1. /\ commands' \in Seq(Orders) /\ Len(commands) <= Len(commands')
        /\ queued' \subseteq 1..Len(commands')
    BY <1>5 DEF QueueUserCommand, CommandsInv
  <2>2. RowsInv'
    BY <1>5 DEF QueueUserCommand, RowsInv
  <2>3. CommandsInv'
    BY <1>5, <2>1, NoCycle DEF QueueUserCommand, CommandsInv
  <2> QED
    BY <2>2, <2>3
<1>6. ASSUME NEW i \in DOMAIN commands, CommitUserCommand(i) PROVE IInv'
  <2>1. RowsInv'
    BY <1>6 DEF CommitUserCommand, RowsInv
  <2>2. commands' = commands /\ queued' \subseteq 1..Len(commands)
    BY <1>6 DEF CommitUserCommand, CommandsInv
  <2>3. CommandsInv'
    BY <1>6, <2>2, NoCycle DEF CommitUserCommand, CommandsInv
  <2> QED
    BY <2>1, <2>3
<1> QED
  BY <1>1, <1>2, <1>3, <1>4, <1>5, <1>6

\* A restored snapshot brings rows that were written, and an older cursor.
LEMMA RestoreStep == ASSUME IInv, RestoreDatabase PROVE IInv'
<1> USE DEF IInv, queue, tried
<1>1. snapshot # None /\ TableOK(snapshot.accounts) /\ Behind(snapshot.cursor, Past)
  BY DEF RestoreDatabase, RowsInv, CommandsInv
<1>2. RowsInv'
  BY <1>1 DEF RestoreDatabase, RowsInv
<1>3. ASSUME NEW c \in Cycles PROVE CycleOK(cycle'[c], done, Past, Len(commands))
  <2>1. CycleOK(cycle[c], done, Past, Len(commands))
    BY DEF CommandsInv
  <2>2. CASE cycle[c].stage = "asked"
    <3>1. cycle'[c] = [cycle[c] EXCEPT !.open = FALSE]
      BY <2>2 DEF RestoreDatabase
    <3>2. AsAsked(cycle'[c], Past)
      BY <2>2, <3>1, Stage DEF AsAsked
    <3> QED
      BY <3>2 DEF CycleOK
  <2>3. CASE cycle[c].stage = "applying"
    <3>1. cycle'[c] = [cycle[c] EXCEPT !.open = FALSE]
      BY <2>3 DEF RestoreDatabase
    <3>2. AsApplying(cycle'[c], done, Past, Len(commands))
      BY <2>3, <3>1, Stage DEF AsApplying
    <3> QED
      BY <3>2 DEF CycleOK
  <2>4. CASE cycle[c].stage \notin {"asked", "applying"}
    BY <2>1, <2>4 DEF RestoreDatabase
  <2> QED
    BY <2>2, <2>3, <2>4
<1>4. cycle' = [c \in Cycles |-> cycle'[c]]
  BY DEF RestoreDatabase
<1>5. CommandsInv'
  BY <1>1, <1>3, <1>4 DEF RestoreDatabase, CommandsInv, Past
<1> QED
  BY <1>2, <1>5

\* A cycle tries one command: it refuses it or prepares a row.
LEMMA LoadStep == ASSUME IInv, NEW c \in Cycles, LoadCommanded(c) PROVE IInv'
<1> USE DEF IInv, queue
<1> DEFINE w == cycle[c]
           i == First(w.todo)
           order == commands[i]
           row == IF order.action = "create" THEN NewUser(order.role)
                  ELSE Changed(order, accounts[order.name])
<1>1. AsApplying(w, done, Past, Len(commands)) /\ w.todo # {} /\ w.row = None
  BY Stage DEF LoadCommanded
<1>2. order \in Orders
  <2>1. i \in 1..Len(commands)
    BY <1>1, FirstAndLast DEF AsApplying, CommandsInv
  <2> QED
    BY <2>1 DEF CommandsInv
<1>3. RowsInv'
  BY DEF LoadCommanded, RowsInv
<1> HIDE DEF i
<1>4. CASE /\ order.action = "create" \/ (order.name \in DOMAIN accounts /\ Permitted(order, accounts[order.name]))
           /\ Go(c, [w EXCEPT !.row = row]) /\ UNCHANGED refused
  <2>1. RowOK(row)
    <3>1. CASE order.action = "create"
      BY <1>2, <3>1, NewUserIsOK, CreatesCrew
    <3>2. CASE order.action # "create"
      <4>1. RowOK(accounts[order.name])
        BY <1>4, <3>2 DEF RowsInv, TableOK
      <4> QED
        BY <1>2, <1>4, <3>2, <4>1, ChangedIsOK
    <3> QED
      BY <3>1, <3>2
  <2> HIDE DEF row
  <2>2. AsApplying([w EXCEPT !.row = row], done, Past, Len(commands))
    BY <1>1, <2>1 DEF AsApplying
  <2>3. Past' = Past /\ UNCHANGED <<commands, queued, done, applied, cursor, snapshot>>
    BY <1>4 DEF LoadCommanded, Past
  <2>4. CycleOK([w EXCEPT !.row = row], done', Past', Len(commands))
    BY <2>2, <2>3 DEF CycleOK
  <2>5. CommandsInv'
    BY <1>4, <2>3, <2>4, OneCycle DEF CommandsInv
  <2> QED
    BY <1>3, <2>5
<1>5. CASE refused' = refused \cup {i} /\ Go(c, [w EXCEPT !.todo = @ \ {i}])
  <2> DEFINE to == [w EXCEPT !.todo = @ \ {i}]
  <2>1. /\ UNCHANGED <<commands, queued, done, overtaken, applied, cursor, snapshot>>
        /\ Past \cup {i} \subseteq Past'
    BY <1>5 DEF LoadCommanded, Past
  <2>2. to = Onward(w, w.todo \ {i}, w.ids, None)
    <3>1. w = Onward(w, w.todo, w.ids, None)
      BY <1>1 DEF AsApplying, Onward
    <3> HIDE DEF w
    <3> QED
      BY <3>1 DEF Onward
  <2>3. w.ids \subseteq done'
    BY <1>1, <2>1 DEF AsApplying
  <2> HIDE DEF to
  <2>4. AsApplying(to, done', Past', Len(commands))
    BY <1>1, <2>1, <2>2, <2>3, TriedNext
  <2>5. CycleOK(to, done', Past', Len(commands)) /\ Go(c, to)
    BY <1>5, <2>4 DEF CycleOK, to
  <2>6. CommandsInv'
    BY <2>1, <2>5, OneCycle DEF CommandsInv
  <2> QED
    BY <1>3, <2>6
<1> QED
  BY <1>4, <1>5 DEF LoadCommanded, i

\* The prepared row is written.
LEMMA StoreStep == ASSUME IInv, NEW c \in Cycles, StoreCommanded(c) PROVE IInv'
<1> USE DEF IInv, queue
<1> DEFINE w == cycle[c]
           i == First(w.todo)
           skipped == [w EXCEPT !.todo = @ \ {i}, !.row = None]
           stored == [skipped EXCEPT !.ids = @ \cup {i}]
<1>1. AsApplying(w, done, Past, Len(commands)) /\ RowOK(w.row)
  BY Stage DEF StoreCommanded, AsApplying
<1> HIDE DEF i
<1>4. /\ skipped = Onward(w, w.todo \ {i}, w.ids, None)
      /\ stored = Onward(w, w.todo \ {i}, w.ids \cup {i}, None)
  <2>1. w = Onward(w, w.todo, w.ids, w.row)
    BY <1>1 DEF AsApplying, Onward
  <2> HIDE DEF w
  <2> QED
    BY <2>1, GoesOn
<1>5. UNCHANGED <<commands, queued, overtaken, applied, cursor, snapshot>>
  BY DEF StoreCommanded
<1> HIDE DEF skipped, stored
<1>2. CASE /\ accounts' = With(commands[i].name, w.row) /\ done' = done \cup {i}
           /\ Go(c, stored) /\ UNCHANGED refused
  <2>1. RowsInv'
    BY <1>1, <1>2, WithIsOK DEF StoreCommanded, RowsInv
  <2>2. Past \cup {i} \subseteq Past' /\ done \subseteq done'
    BY <1>2, <1>5 DEF Past
  <2>3. AsApplying(stored, done', Past', Len(commands))
    <3>1. w.ids \cup {i} \subseteq done'
      BY <1>1, <1>2 DEF AsApplying
    <3> QED
      BY <1>1, <1>4, <2>2, <3>1, TriedNext
  <2>4. CycleOK(stored, done', Past', Len(commands))
    BY <2>3 DEF CycleOK
  <2>5. CommandsInv'
    BY <1>2, <1>5, <2>2, <2>4, OneCycle DEF CommandsInv
  <2> QED
    BY <2>1, <2>5
<1>3. CASE /\ refused' = refused \cup {i} /\ Go(c, skipped)
           /\ UNCHANGED <<accounts, done>>
  <2>1. RowsInv'
    BY <1>3 DEF StoreCommanded, RowsInv
  <2>2. Past \cup {i} \subseteq Past'
    BY <1>3, <1>5 DEF Past
  <2>3. AsApplying(skipped, done', Past', Len(commands))
    <3>1. w.ids \subseteq done'
      BY <1>1, <1>3 DEF AsApplying
    <3> QED
      BY <1>1, <1>4, <2>2, <3>1, TriedNext
  <2>4. CycleOK(skipped, done', Past', Len(commands))
    BY <2>3 DEF CycleOK
  <2>5. CommandsInv'
    BY <1>3, <1>5, <2>2, <2>4, OneCycle DEF CommandsInv
  <2> QED
    BY <2>1, <2>5
<1> QED
  BY <1>2, <1>3 DEF StoreCommanded, i, skipped, stored

\* The answer to a pull holds every command past the cursor, or its gap.
LEMMA AnswerIsOK ==
  ASSUME CommandsInv, NEW c \in Cycles, AsAsked(cycle[c], Past)
  PROVE  AsApplying(Answered(c), done, Past, Len(commands))
<1> DEFINE since == cycle[c].since
           new == ListUserCommandsSince(since)
           next == IF new = {} THEN since ELSE Last(new)
           gaps == (1..next) \ queued
           a == Answered(c)
<1>1. since \in Nat /\ 1..since \subseteq Past
  BY DEF AsAsked, Behind
<1>2. new \subseteq 1..Len(commands) /\ Len(commands) \in Nat
  BY DEF ListUserCommandsSince, CommandsInv
<1>3. next \in Nat
  BY <1>1, <1>2, FirstAndLast
<1>4. \A k \in 1..next : k \in Past \cup new \cup gaps
  <2> SUFFICES ASSUME NEW k \in 1..next, k \in queued PROVE k \in Past \cup new
    OBVIOUS
  <2>1. k \in Nat /\ (k > since \/ k \in 1..since)
    BY <1>1, <1>3
  <2> QED
    BY <1>1, <2>1 DEF ListUserCommandsSince
<1>5. /\ a = [stage |-> "applying", token |-> a.token, open |-> a.open, ids |-> a.ids,
             todo |-> a.todo, next |-> a.next, gaps |-> a.gaps, blank |-> a.blank,
             row |-> a.row]
      /\ a.todo = new /\ a.next = next /\ a.gaps = gaps /\ a.ids = {} /\ a.row = None
  BY DEF Answered
<1> HIDE DEF a, new, next, gaps
<1>6. AsApplying(a, done, Past, Len(commands))
  BY <1>2, <1>3, <1>4, <1>5 DEF AsApplying, Behind
<1> QED
  BY <1>6 DEF a

\* The other steps of a cycle.
LEMMA CycleMoves ==
  ASSUME IInv, NEW c \in Cycles, BeginCycle(c) \/ CycleStep(c) \/ CutCycle(c)
  PROVE  IInv'
<1> USE DEF IInv, queue, tried
<1>1. \A t : CycleOK(Resting, done, t, Len(commands))
  BY DEF CycleOK
<1>2. CASE BeginCycle(c)
  <2> DEFINE to == [stage |-> "asked", token |-> aboard.token, since |-> cursor, open |-> TRUE]
  <2>1. RowsInv'
    BY <1>2 DEF BeginCycle, RowsInv
  <2>2. AsAsked(to, Past)
    BY DEF AsAsked, CommandsInv
  <2>5. Past' = Past /\ UNCHANGED <<commands, queued, done, applied, cursor, snapshot>>
    BY <1>2 DEF BeginCycle, Past
  <2>3. CycleOK(to, done', Past', Len(commands)) /\ Go(c, to)
    BY <1>2, <2>2, <2>5 DEF CycleOK, BeginCycle
  <2> HIDE DEF to
  <2>4. CommandsInv'
    BY <2>3, <2>5, OneCycle DEF CommandsInv
  <2> QED
    BY <2>1, <2>4
<1>3. CASE PullUserCommands(c)
  <2>1. RowsInv'
    BY <1>3 DEF PullUserCommands, RowsInv
  <2>2. AsAsked(cycle[c], Past)
    BY <1>3, Stage DEF PullUserCommands
  <2>3. CycleOK(Answered(c), done, Past, Len(commands))
    BY <2>2, AnswerIsOK DEF CycleOK
  <2>4. Past' = Past /\ UNCHANGED <<commands, queued, done, applied, cursor, snapshot>>
    BY <1>3 DEF PullUserCommands, Past
  <2>5. CASE Go(c, Answered(c))
    BY <2>1, <2>3, <2>4, <2>5, OneCycle DEF CommandsInv
  <2>6. CASE Rest(c)
    BY <1>1, <2>1, <2>4, <2>6, OneCycle DEF CommandsInv, Rest
  <2> QED
    BY <1>3, <2>5, <2>6 DEF PullUserCommands
<1>4. CASE LoadCommanded(c)
  BY <1>4, LoadStep
<1>5. CASE StoreCommanded(c)
  BY <1>5, StoreStep
<1>6. CASE SaveCursor(c)
  <2>1. RowsInv'
    BY <1>6 DEF SaveCursor, RowsInv
  <2>2. AsApplying(cycle[c], done, Past, Len(commands)) /\ cycle[c].todo = {}
    BY <1>6, Stage DEF SaveCursor
  <2>3. /\ UNCHANGED <<commands, queued, done, refused, applied, snapshot>>
        /\ Report(c, cycle[c].ids) /\ MovePast(cycle[c])
    BY <1>6 DEF SaveCursor
  <2>4. CASE cursor' = cycle[c].next /\ overtaken' = overtaken \cup cycle[c].gaps
    <3>1. Past' = Past \cup cycle[c].gaps
      BY <2>3, <2>4 DEF Past
    <3>2. Behind(cursor', Past')
      BY <2>2, <2>4, <3>1 DEF AsApplying, Behind
    <3> QED
      BY <2>1, <2>2, <2>3, <3>1, <3>2, ReportIsOK DEF AsApplying
  <2>5. CASE UNCHANGED <<cursor, overtaken>>
    BY <2>1, <2>2, <2>3, <2>5, ReportIsOK DEF AsApplying, Past
  <2> QED
    BY <2>3, <2>4, <2>5 DEF MovePast
<1>7. CASE SyncStatus(c)
  <2>1. RowsInv'
    BY <1>7 DEF SyncStatus, RowsInv
  <2>2. cycle[c].ids \subseteq done
    BY <1>7, Stage DEF SyncStatus, AsReporting
  <2>3. applied' \subseteq done'
    BY <1>7, <2>2 DEF SyncStatus, MarkUserCommandsApplied, CommandsInv
  <2>5. Past' = Past /\ UNCHANGED <<commands, queued, done, cursor, snapshot>>
    BY <1>7 DEF SyncStatus, Past
  <2>4. CommandsInv'
    BY <1>1, <1>7, <2>3, <2>5, OneCycle DEF SyncStatus, Rest
  <2> QED
    BY <2>1, <2>4
<1>8. CASE CutCycle(c)
  <2>1. RowsInv'
    BY <1>8 DEF CutCycle, RowsInv
  <2>5. Past' = Past /\ UNCHANGED <<commands, queued, applied, done, cursor, snapshot>>
    BY <1>8 DEF CutCycle, Past
  <2>2. CASE Report(c, {})
    BY <2>1, <2>2, <2>5, ReportIsOK
  <2>3. CASE cycle[c].stage = "applying" /\ Report(c, cycle[c].ids)
    <3>1. cycle[c].ids \subseteq done
      BY <2>3, Stage DEF AsApplying
    <3> QED
      BY <2>1, <2>3, <2>5, <3>1, ReportIsOK
  <2>4. CASE Rest(c)
    BY <1>1, <2>1, <2>4, <2>5, OneCycle DEF CommandsInv, Rest
  <2> QED
    BY <1>8, <2>2, <2>3, <2>4 DEF CutCycle
<1> QED
  BY <1>2, <1>3, <1>4, <1>5, <1>6, <1>7, <1>8 DEF CycleStep

\* One step of any kind.
LEMMA InvStep == IInv /\ [Next]_vars => IInv'
<1> SUFFICES ASSUME IInv, [Next]_vars PROVE IInv'
  OBVIOUS
<1>1. CASE UNCHANGED users
  BY <1>1, InvStutter
<1>2. CASE Access
  BY <1>1, <1>2 DEF Access
<1>3. CASE UNCHANGED vars
  BY <1>1, <1>3 DEF vars
<1> QED
  BY <1>2, <1>3, BoardStep, RestoreStep, CycleMoves DEF Next

\* The tables, the snapshot and every pending write hold rows that may be
\* written, and every cursor is behind what was tried or was overtaken before it
\* was committed.
THEOREM Inductive == Spec => []IInv
<1> QED
  BY InvInit, InvStep, PTL DEF Spec

\* handleUpdateUser, applyUserCommand: no order, no whole-row write and no
\* restored snapshot deactivates the Master.
THEOREM MasterIsNeverLockedOut == Spec => []MasterStaysActive
<1>1. IInv => MasterStaysActive
  BY DEF IInv, RowsInv, TableOK, RowOK, MasterStaysActive
<1> QED
  BY <1>1, Inductive, PTL

\* pullInboxBatch, ApplyInboxPull, MarkUserCommandsApplied: what the office
\* shows as applied was executed, and what the cursor has passed was tried, or
\* had drawn its seq but was not committed when a pull went past.
THEOREM EveryCommandAccountedFor == Spec => []CommandsAccountedFor
<1>1. IInv => CommandsAccountedFor
  BY DEF IInv, CommandsInv, Behind, Past, CommandsAccountedFor
<1> QED
  BY <1>1, Inductive, PTL

-----------------------------------------------------------------------------
(* The enrollment. *)

EnrollmentRow(r, k) ==
  /\ r = [state |-> r.state, code |-> r.code, key |-> r.key]
  /\ r.code \in 0..k

AdminOK(w, k) ==
  \/ w = Idle
  \/ w = [stage |-> "loaded", row |-> w.row] /\ EnrollmentRow(w.row, k)
  \/ w = [stage |-> "saved"]

SetupOK(w, k) ==
  \/ w = Idle
  \/ /\ w = [stage |-> w.stage, code |-> w.code, n |-> w.n, open |-> w.open]
     /\ w.stage # "idle" /\ w.code \in 1..k

EnrollmentRows ==
  /\ codes \in Nat
  /\ EnrollmentRow(enrollment, codes)
  /\ credential = [token |-> credential.token, code |-> credential.code,
                   live |-> credential.live]
  /\ credential.code \in 0..codes
  /\ credential.live => credential.code # 0
  /\ admin = [a \in Admins |-> admin[a]] /\ \A a \in Admins : AdminOK(admin[a], codes)
  /\ setup = [q \in Setups |-> setup[q]] /\ \A q \in Setups : SetupOK(setup[q], codes)

\* The request is about to write a code, the exchange about to buy with one.
Loaded(a) == admin[a].stage = "loaded" /\ admin[a].row.code # 0
Verified(q) == setup[q].stage \in {"found", "consumed"}

\* A code that is about to be written is nowhere else yet.
Unwritten ==
  \A a \in Admins : Loaded(a) =>
    /\ admin[a].row.code # enrollment.code
    /\ admin[a].row.code # credential.code
    /\ \A b \in Admins : b # a /\ Loaded(b) => admin[b].row.code # admin[a].row.code
    /\ \A q \in Setups : Verified(q) => setup[q].code # admin[a].row.code

\* A code that was consumed is not in the row.
Spent ==
  /\ \A q \in Setups : setup[q].stage = "consumed" => setup[q].code # enrollment.code
  /\ credential.code # 0 => enrollment.code # credential.code

AccessInv == EnrollmentRows /\ Unwritten /\ Spent

-----------------------------------------------------------------------------

\* No vessel is enrolled at the start.
LEMMA AccessInvInit == InitAccess => AccessInv
BY DEF InitAccess, AccessInv, EnrollmentRows, Unwritten, Spent, NoEnrollment, EnrollmentRow,
   AdminOK, SetupOK, Idle, Loaded, Verified

\* The stages tell what a request and an exchange hold.
LEMMA LoadedRow ==
  ASSUME EnrollmentRows, NEW a \in Admins, admin[a].stage = "loaded"
  PROVE  EnrollmentRow(admin[a].row, codes)
BY DEF EnrollmentRows, AdminOK, Idle

\* ... and an exchange.
LEMMA SetupHolds ==
  ASSUME EnrollmentRows, NEW q \in Setups, setup[q].stage # "idle"
  PROVE  /\ setup[q] = [stage |-> setup[q].stage, code |-> setup[q].code,
                        n |-> setup[q].n, open |-> setup[q].open]
         /\ setup[q].code \in 1..codes /\ setup[q].code # 0
BY DEF EnrollmentRows, SetupOK, Idle

\* Only the counter of codes has moved on.
LEMMA CodesGrow ==
  ASSUME NEW k \in Nat, NEW m \in Nat, k <= m
  PROVE  /\ \A r : EnrollmentRow(r, k) => EnrollmentRow(r, m)
         /\ \A w : AdminOK(w, k) => AdminOK(w, m)
         /\ \A w : SetupOK(w, k) => SetupOK(w, m)
<1>1. 0..k \subseteq 0..m /\ 1..k \subseteq 1..m
  OBVIOUS
<1> QED
  BY <1>1 DEF EnrollmentRow, AdminOK, SetupOK

\* A row whose code is the next to be generated, and one whose code is cleared.
LEMMA ReissuedRow ==
  ASSUME NEW r, codes \in Nat, EnrollmentRow(r, codes)
  PROVE  EnrollmentRow(Reissue(r), codes + 1) /\ Reissue(r).code = codes + 1
<1> DEFINE s == [state |-> "issued", code |-> r.code, key |-> r.key]
<1>1. [r EXCEPT !.state = "issued"] = s
  BY DEF EnrollmentRow
<1>2. Reissue(r) = [[r EXCEPT !.state = "issued"] EXCEPT !.code = codes + 1]
  BY DEF Reissue
<1>3. Reissue(r) = [state |-> "issued", code |-> codes + 1, key |-> r.key]
  BY <1>1, <1>2
<1> QED
  BY <1>3 DEF EnrollmentRow

\* ... of which the second.
LEMMA RevokedRow ==
  ASSUME NEW r, codes \in Nat, EnrollmentRow(r, codes)
  PROVE  EnrollmentRow(Revoke(r), codes) /\ Revoke(r).code = 0
<1> DEFINE s == [state |-> "revoked", code |-> r.code, key |-> r.key]
<1>1. [r EXCEPT !.state = "revoked"] = s
  BY DEF EnrollmentRow
<1>2. Revoke(r) = [[r EXCEPT !.state = "revoked"] EXCEPT !.code = 0]
  BY DEF Revoke
<1>3. Revoke(r) = [state |-> "revoked", code |-> 0, key |-> r.key]
  BY <1>1, <1>2
<1> QED
  BY <1>3 DEF EnrollmentRow

\* The first enrollment of a vessel.
LEMMA IssueStep == ASSUME AccessInv, IssueEnrollment PROVE AccessInv'
<1>1. codes \in Nat /\ codes' = codes + 1
  BY DEF AccessInv, EnrollmentRows, IssueEnrollment
<1>2. /\ enrollment'.code = codes + 1
      /\ enrollment' = [state |-> enrollment'.state, code |-> enrollment'.code,
                        key |-> enrollment'.key]
  BY DEF IssueEnrollment, Reissue, NoEnrollment
<1>3. EnrollmentRows'
  BY <1>1, <1>2, CodesGrow DEF AccessInv, EnrollmentRows, IssueEnrollment, EnrollmentRow
<1>4. \A a \in Admins : Loaded(a) => admin[a].row.code \in 0..codes
  BY LoadedRow DEF AccessInv, Loaded, EnrollmentRow
<1>5. \A q \in Setups : setup[q].stage = "consumed" => setup[q].code \in 1..codes
  BY SetupHolds DEF AccessInv
<1>6. Unwritten'
  BY <1>1, <1>2, <1>4 DEF AccessInv, Unwritten, Loaded, Verified, IssueEnrollment
<1>7. Spent'
  BY <1>1, <1>2, <1>5 DEF AccessInv, EnrollmentRows, Spent, IssueEnrollment
<1> QED
  BY <1>3, <1>6, <1>7 DEF AccessInv

\* A request to re-issue or revoke loads the row.
LEMMA BeginStep ==
  ASSUME AccessInv, NEW a \in Admins, BeginReissue(a) \/ BeginRevoke(a)
  PROVE  AccessInv'
<1> DEFINE row == admin'[a].row
<1>1. PICK r : /\ admin' = [admin EXCEPT ![a] = [stage |-> "loaded", row |-> r]]
               /\ \/ r = Reissue(enrollment) /\ codes' = codes + 1
                  \/ r = Revoke(enrollment) /\ UNCHANGED codes
               /\ UNCHANGED <<enrollment, credential, setup>>
  BY DEF BeginReissue, BeginRevoke
<1>2. codes \in Nat /\ codes' \in Nat /\ codes <= codes'
  BY <1>1 DEF AccessInv, EnrollmentRows
<1>3. EnrollmentRow(r, codes') /\ (r.code # 0 => r.code = codes + 1)
  <2>1. CASE r = Reissue(enrollment) /\ codes' = codes + 1
    BY <1>2, <2>1, ReissuedRow DEF AccessInv, EnrollmentRows
  <2>2. CASE r = Revoke(enrollment) /\ UNCHANGED codes
    BY <2>2, RevokedRow DEF AccessInv, EnrollmentRows
  <2> QED
    BY <1>1, <2>1, <2>2
<1>4. admin'[a] = [stage |-> "loaded", row |-> r] /\ \A b \in Admins : b # a => admin'[b] = admin[b]
  BY <1>1 DEF AccessInv, EnrollmentRows
<1>5. EnrollmentRows'
  <2>1. \A b \in Admins : AdminOK(admin'[b], codes')
    BY <1>2, <1>3, <1>4, CodesGrow DEF AccessInv, EnrollmentRows, AdminOK
  <2>2. \A q \in Setups : SetupOK(setup'[q], codes')
    BY <1>1, <1>2, CodesGrow DEF AccessInv, EnrollmentRows
  <2>3. EnrollmentRow(enrollment', codes') /\ credential'.code \in 0..codes'
    BY <1>1, <1>2, CodesGrow DEF AccessInv, EnrollmentRows
  <2> QED
    BY <1>1, <1>2, <2>1, <2>2, <2>3 DEF AccessInv, EnrollmentRows
<1>6. Unwritten'
  <2>1. \A b \in Admins : Loaded(b) => admin[b].row.code \in 0..codes
    BY LoadedRow DEF AccessInv, Loaded, EnrollmentRow
  <2>2. \A q \in Setups : Verified(q) => setup[q].code \in 1..codes
    BY SetupHolds DEF AccessInv, Verified
  <2>3. enrollment.code \in 0..codes /\ credential.code \in 0..codes
    BY DEF AccessInv, EnrollmentRows, EnrollmentRow
  <2>4. \A b \in Admins : b # a => Loaded(b)' = Loaded(b)
    BY <1>4 DEF Loaded
  <2>5. \A q \in Setups : Verified(q)' = Verified(q) /\ setup'[q].code = setup[q].code
    BY <1>1 DEF Verified
  <2>6. Loaded(a)' => admin'[a].row.code = codes + 1
    BY <1>3, <1>4 DEF Loaded
  <2> QED
    BY <1>1, <1>2, <1>4, <2>1, <2>2, <2>3, <2>4, <2>5, <2>6 DEF AccessInv, Unwritten
<1>7. Spent'
  BY <1>1 DEF AccessInv, Spent
<1> QED
  BY <1>5, <1>6, <1>7 DEF AccessInv

\* It writes the row back.
LEMMA SaveStep == ASSUME AccessInv, NEW a \in Admins, SaveEnrollment(a) PROVE AccessInv'
<1> USE DEF AccessInv
<1>1. /\ admin' = [admin EXCEPT ![a] = [stage |-> "saved"]]
      /\ enrollment' = admin[a].row /\ admin[a].stage = "loaded"
      /\ UNCHANGED <<credential, setup, codes>>
  BY DEF SaveEnrollment
<1>2. EnrollmentRow(admin[a].row, codes)
  BY <1>1, LoadedRow
<1>3. admin'[a] = [stage |-> "saved"] /\ \A b \in Admins : b # a => admin'[b] = admin[b]
  BY <1>1 DEF EnrollmentRows
<1>4. EnrollmentRows'
  BY <1>1, <1>2, <1>3 DEF EnrollmentRows, EnrollmentRow, AdminOK, SetupOK
<1>5. enrollment'.code # 0 => Loaded(a) /\ enrollment'.code = admin[a].row.code
  BY <1>1 DEF Loaded
<1>6. ~Loaded(a)' /\ \A b \in Admins : b # a => Loaded(b)' = Loaded(b)
  BY <1>3 DEF Loaded
<1>7. \A q \in Setups : Verified(q)' = Verified(q)
  BY <1>1 DEF Verified
<1>8. Unwritten'
  <2> SUFFICES ASSUME NEW b \in Admins, Loaded(b)'
               PROVE  /\ admin'[b].row.code # enrollment'.code
                      /\ admin'[b].row.code # credential'.code
                      /\ \A d \in Admins : d # b /\ Loaded(d)' => admin'[d].row.code # admin'[b].row.code
                      /\ \A q \in Setups : Verified(q)' => setup'[q].code # admin'[b].row.code
    BY DEF Unwritten
  <2>1. b # a /\ Loaded(b) /\ admin'[b] = admin[b]
    BY <1>3, <1>6
  <2>2. admin[b].row.code # 0
    BY <2>1 DEF Loaded
  <2> QED
    BY <1>1, <1>3, <1>5, <1>6, <1>7, <2>1, <2>2 DEF Unwritten
<1>9. Spent'
  <2>1. \A q \in Setups : setup[q].stage = "consumed" => Verified(q) /\ setup[q].code # 0
    BY SetupHolds DEF Verified
  <2> QED
    BY <1>1, <1>5, <2>1 DEF Spent, Unwritten
<1> QED
  BY <1>4, <1>8, <1>9

\* A request ends, or its second statement is done.
LEMMA AdminEnds ==
  ASSUME AccessInv, NEW a \in Admins, admin' = [admin EXCEPT ![a] = Idle],
         credential' = credential \/ credential' = [credential EXCEPT !.live = FALSE],
         UNCHANGED <<enrollment, setup, codes>>
  PROVE  AccessInv'
<1> USE DEF AccessInv
<1>1. admin'[a] = Idle /\ \A b \in Admins : b # a => admin'[b] = admin[b]
  BY DEF EnrollmentRows
<1>2. /\ credential'.code = credential.code
      /\ credential'.live => credential.live
      /\ credential' = [token |-> credential'.token, code |-> credential'.code,
                        live |-> credential'.live]
  BY DEF EnrollmentRows
<1>3. EnrollmentRows'
  BY <1>1, <1>2 DEF EnrollmentRows, EnrollmentRow, AdminOK, SetupOK
<1>4. ~Loaded(a)' /\ \A b \in Admins : b # a => Loaded(b)' = Loaded(b)
  BY <1>1 DEF Loaded, Idle
<1>5. \A q \in Setups : Verified(q)' = Verified(q)
  BY DEF Verified
<1>6. Unwritten'
  BY <1>1, <1>2, <1>4, <1>5 DEF Unwritten
<1>7. Spent'
  BY <1>2 DEF Spent
<1> QED
  BY <1>3, <1>6, <1>7

\* An exchange goes on to a stage in which nothing is bought, or ends.
LEMMA SetupGoes ==
  ASSUME AccessInv, NEW q \in Setups, NEW w, Proceed(q, w), SetupOK(w, codes),
         w.stage \notin {"found", "consumed"},
         UNCHANGED <<enrollment, credential, admin, codes>>
  PROVE  AccessInv'
<1> USE DEF AccessInv
<1>1. setup' = [setup EXCEPT ![q] = w]
  BY DEF Proceed
<1>2. setup'[q] = w /\ \A p \in Setups : p # q => setup'[p] = setup[p]
  BY <1>1 DEF EnrollmentRows
<1>3. EnrollmentRows'
  BY <1>1, <1>2 DEF EnrollmentRows, EnrollmentRow, AdminOK, SetupOK
<1>4. ~Verified(q)' /\ \A p \in Setups : p # q => Verified(p)' = Verified(p)
  BY <1>2 DEF Verified
<1>5. \A a \in Admins : Loaded(a)' = Loaded(a)
  BY DEF Loaded
<1>6. Unwritten'
  BY <1>2, <1>4, <1>5 DEF Unwritten
<1>7. Spent'
  BY <1>2 DEF Spent
<1> QED
  BY <1>3, <1>6, <1>7

\* An exchange that is over holds nothing.
LEMMA IdleIsOK == SetupOK(Idle, codes) /\ Idle.stage \notin {"found", "consumed"}
BY DEF SetupOK, Idle

\* Move keeps everything but the stage.
LEMMA Moved ==
  ASSUME EnrollmentRows, NEW q \in Setups, setup[q].stage # "idle", NEW stage, stage # "idle"
  PROVE  /\ SetupOK([setup[q] EXCEPT !.stage = stage], codes)
         /\ [setup[q] EXCEPT !.stage = stage].stage = stage
         /\ [setup[q] EXCEPT !.stage = stage].code = setup[q].code
<1>1. /\ setup[q] = [stage |-> setup[q].stage, code |-> setup[q].code,
                     n |-> setup[q].n, open |-> setup[q].open]
      /\ setup[q].code \in 1..codes
  BY SetupHolds
<1> QED
  BY <1>1 DEF SetupOK

\* A redeem passes its check.
LEMMA VerifyStep == ASSUME AccessInv, NEW q \in Setups, VerifyCode(q) PROVE AccessInv'
<1> USE DEF AccessInv
<1>1. UNCHANGED <<enrollment, credential, admin, codes>> /\ setup[q].stage = "sent"
  BY DEF VerifyCode
<1>2. CASE Issued(setup[q].code) /\ Move(q, "found")
  <2> DEFINE w == [setup[q] EXCEPT !.stage = "found"]
  <2>1. SetupOK(w, codes) /\ w.stage = "found" /\ w.code = setup[q].code
    BY <1>1, Moved
  <2>2. setup' = [setup EXCEPT ![q] = w]
    BY <1>2 DEF Move, Proceed
  <2> HIDE DEF w
  <2>3. setup'[q] = w /\ \A p \in Setups : p # q => setup'[p] = setup[p]
    BY <2>2 DEF EnrollmentRows
  <2>4. EnrollmentRows'
    BY <1>1, <2>1, <2>2, <2>3 DEF EnrollmentRows, EnrollmentRow, AdminOK, SetupOK
  <2>5. \A p \in Setups : p # q => Verified(p)' = Verified(p)
    BY <2>3 DEF Verified
  <2>6. \A a \in Admins : Loaded(a)' = Loaded(a)
    BY <1>1 DEF Loaded
  <2>7. setup'[q].code = enrollment.code
    BY <1>2, <2>1, <2>3 DEF Issued
  <2>8. Unwritten'
    BY <1>1, <2>3, <2>5, <2>6, <2>7 DEF Unwritten
  <2>9. Spent'
    BY <1>1, <2>1, <2>3 DEF Spent
  <2> QED
    BY <2>4, <2>8, <2>9
<1>3. CASE Proceed(q, Idle)
  BY <1>1, <1>3, SetupGoes, IdleIsOK
<1> QED
  BY <1>2, <1>3 DEF VerifyCode

\* It clears the code.
LEMMA ConsumeStep == ASSUME AccessInv, NEW q \in Setups, ConsumeCode(q) PROVE AccessInv'
<1> USE DEF AccessInv
<1> DEFINE w == [setup[q] EXCEPT !.stage = "consumed"]
<1>1. /\ UNCHANGED <<credential, admin, codes>> /\ setup[q].stage = "found"
      /\ enrollment' = [state |-> "enrolled", code |-> 0, key |-> setup[q].n]
      /\ setup' = [setup EXCEPT ![q] = w]
  BY DEF ConsumeCode, Move, Proceed
<1>2. SetupOK(w, codes) /\ w.stage = "consumed" /\ w.code = setup[q].code
  BY <1>1, Moved
<1> HIDE DEF w
<1>3. setup'[q] = w /\ \A p \in Setups : p # q => setup'[p] = setup[p]
  BY <1>1 DEF EnrollmentRows
<1>4. enrollment'.code = 0 /\ EnrollmentRow(enrollment', codes')
  BY <1>1 DEF EnrollmentRows, EnrollmentRow
<1>5. EnrollmentRows'
  BY <1>1, <1>2, <1>3, <1>4 DEF EnrollmentRows, EnrollmentRow, AdminOK, SetupOK
<1>6. \A p \in Setups : Verified(p)' = Verified(p) /\ setup'[p].code = setup[p].code
  BY <1>1, <1>2, <1>3 DEF Verified
<1>7. \A a \in Admins : Loaded(a)' = Loaded(a)
  BY <1>1 DEF Loaded
<1>8. Unwritten'
  BY <1>1, <1>4, <1>6, <1>7 DEF Unwritten, Loaded
<1>9. Spent'
  <2>1. \A p \in Setups : setup'[p].stage = "consumed" => setup'[p].code \in 1..codes
    <3>1. \A p \in Setups : SetupOK(setup'[p], codes)
      BY <1>1, <1>5 DEF EnrollmentRows
    <3>2. \A v : SetupOK(v, codes) /\ v.stage = "consumed" => v.code \in 1..codes
      BY DEF SetupOK, Idle
    <3> QED
      BY <3>1, <3>2
  <2> QED
    BY <1>1, <1>4, <2>1 DEF Spent, EnrollmentRows
<1> QED
  BY <1>5, <1>8, <1>9

\* It stores the credential.
LEMMA StoreCredentialStep == ASSUME AccessInv, NEW q \in Setups, StoreCredential(q) PROVE AccessInv'
<1> USE DEF AccessInv
<1> DEFINE w == [setup[q] EXCEPT !.stage = "answered"]
<1>1. /\ UNCHANGED <<enrollment, admin, codes>> /\ setup[q].stage = "consumed"
      /\ credential' = [token |-> setup[q].n, code |-> setup[q].code, live |-> TRUE]
      /\ setup' = [setup EXCEPT ![q] = w]
  BY DEF StoreCredential, Move, Proceed
<1>2. /\ SetupOK(w, codes) /\ w.stage = "answered" /\ w.code = setup[q].code
      /\ setup[q].code \in 1..codes
  BY <1>1, Moved, SetupHolds
<1> HIDE DEF w
<1>3. setup'[q] = w /\ \A p \in Setups : p # q => setup'[p] = setup[p]
  BY <1>1 DEF EnrollmentRows
<1>4. EnrollmentRows'
  BY <1>1, <1>2, <1>3 DEF EnrollmentRows, EnrollmentRow, AdminOK, SetupOK
<1>5. ~Verified(q)' /\ Verified(q) /\ \A p \in Setups : p # q => Verified(p)' = Verified(p)
  BY <1>1, <1>2, <1>3 DEF Verified
<1>6. \A a \in Admins : Loaded(a)' = Loaded(a)
  BY <1>1 DEF Loaded
<1>7. credential'.code = setup[q].code
  BY <1>1
<1>8. Unwritten'
  BY <1>1, <1>3, <1>5, <1>6, <1>7 DEF Unwritten
<1>9. Spent'
  BY <1>1, <1>2, <1>3, <1>7 DEF Spent
<1> QED
  BY <1>4, <1>8, <1>9

\* One step of the office, of the vessel or a cut.
LEMMA AccessInvStep == AccessInv /\ [AccessNext]_access => AccessInv'
<1> SUFFICES ASSUME AccessInv, [AccessNext]_access PROVE AccessInv'
  OBVIOUS
<1>1. CASE UNCHANGED <<enrollment, credential, admin, setup, codes>>
  BY <1>1 DEF AccessInv, EnrollmentRows, Unwritten, Spent, EnrollmentRow, AdminOK, SetupOK,
     Loaded, Verified
<1>2. CASE Administer
  BY <1>2, IssueStep, BeginStep DEF Administer
<1>3. CASE Cut
  <2>1. ASSUME NEW a \in Admins, admin' = [admin EXCEPT ![a] = Idle], UNCHANGED setup
        PROVE  AccessInv'
    BY <1>3, <2>1, AdminEnds DEF Cut
  <2>2. ASSUME NEW q \in Setups, Proceed(q, Idle), UNCHANGED admin
        PROVE  AccessInv'
    BY <1>3, <2>2, SetupGoes, IdleIsOK DEF Cut
  <2> QED
    BY <1>3, <2>1, <2>2 DEF Cut
<1>4. ASSUME NEW a \in Admins, AdminStep(a) PROVE AccessInv'
  BY <1>4, SaveStep, AdminEnds DEF AdminStep, RevokeVesselCredential
<1>5. ASSUME NEW q \in Setups, SetupStep(q) PROVE AccessInv'
  <2>1. CASE VerifyCode(q) \/ ConsumeCode(q) \/ StoreCredential(q)
    BY <2>1, VerifyStep, ConsumeStep, StoreCredentialStep
  <2>2. CASE SaveSyncCredential(q)
    <3>1. /\ SetupOK([setup[q] EXCEPT !.stage = "stored"], codes)
          /\ [setup[q] EXCEPT !.stage = "stored"].stage = "stored"
      BY <2>2, Moved DEF SaveSyncCredential, AccessInv
    <3> QED
      BY <2>2, <3>1, SetupGoes, IdleIsOK DEF SaveSyncCredential, Move
  <2>3. CASE SaveDRIdentity(q)
    <3>1. /\ SetupOK([setup[q] EXCEPT !.stage = "keyed"], codes)
          /\ [setup[q] EXCEPT !.stage = "keyed"].stage = "keyed"
      BY <2>3, Moved DEF SaveDRIdentity, AccessInv
    <3> QED
      BY <2>3, <3>1, SetupGoes, IdleIsOK DEF SaveDRIdentity, Move
  <2>4. CASE SetConfigured(q)
    BY <2>4, SetupGoes, IdleIsOK DEF SetConfigured
  <2> QED
    BY <1>5, <2>1, <2>2, <2>3, <2>4 DEF SetupStep
<1>6. ASSUME NEW q \in Setups, NEW k \in 1..codes, SendCode(q, k) PROVE AccessInv'
  <2> DEFINE w == [stage |-> "sent", code |-> k, n |-> exchanges + 1, open |-> TRUE]
  <2>1. Proceed(q, w) /\ UNCHANGED <<enrollment, credential, admin, codes>>
    BY <1>6 DEF SendCode
  <2>2. SetupOK(w, codes) /\ w.stage = "sent"
    BY DEF SetupOK
  <2> HIDE DEF w
  <2> QED
    BY <2>1, <2>2, SetupGoes
<1>7. CASE SkipEnrollment
  BY <1>1, <1>7 DEF SkipEnrollment
<1>8. CASE UNCHANGED access
  BY <1>1, <1>8 DEF access
<1> QED
  BY <1>2, <1>3, <1>4, <1>5, <1>6, <1>7, <1>8 DEF AccessNext

\* The inductive invariant: a code about to be written is nowhere else yet, a
\* code that was consumed is no longer in the row.
THEOREM AccessInductive == AccessSpec => []AccessInv
<1> QED
  BY AccessInvInit, AccessInvStep, PTL DEF AccessSpec

\* handleEnroll, handleReissueEnrollment: whatever interleaves and wherever it
\* is cut, nobody can use the code of an accepted credential again.
THEOREM UsedCodesStayUsed == AccessSpec => []UsedCodeStaysUsed
<1>1. AccessInv => UsedCodeStaysUsed
  BY DEF AccessInv, EnrollmentRows, Spent, UsedCodeStaysUsed
<1> QED
  BY <1>1, AccessInductive, PTL

-----------------------------------------------------------------------------
(* One request at a time, and each to its end. *)

\* The two rows and the vessel.
Agree ==
  /\ enrollment.state = "revoked" => ~credential.live
  /\ enrollment.state = "enrolled" =>
       /\ credential.live
       /\ aboard.token = credential.token => aboard.key = enrollment.key

\* A request that takes access away leaves no enrollment behind.
AdminCalm(a) ==
  \/ admin[a].stage = "loaded" /\ admin[a].row.state \in {"issued", "revoked"}
  \/ admin[a].stage = "saved" /\ enrollment.state \in {"issued", "revoked"}

\* An exchange has written what its stage says, and nobody else has since.
SetupCalm(q) ==
  /\ setup[q].open
  /\ setup[q].stage \in {"sent", "found", "consumed", "answered", "stored", "keyed"}
  /\ setup[q].stage \in {"sent", "found"} => Agree
  /\ setup[q].stage \in {"consumed", "answered", "stored", "keyed"} =>
       enrollment.state = "enrolled" /\ enrollment.key = setup[q].n
  /\ setup[q].stage \in {"answered", "stored", "keyed"} => credential.live
  /\ setup[q].stage = "keyed" => aboard.key = setup[q].n

AboardRow == aboard = [token |-> aboard.token, key |-> aboard.key]

AllIdle == (\A a \in Admins : admin[a] = Idle) /\ (\A q \in Setups : setup[q] = Idle)

CalmInv ==
  /\ calm \in BOOLEAN
  /\ calm =>
       /\ \A a \in Admins : admin[a] # Idle =>
            /\ \A b \in Admins : b # a => admin[b] = Idle
            /\ \A q \in Setups : setup[q] = Idle
            /\ AdminCalm(a)
       /\ \A q \in Setups : setup[q] # Idle =>
            /\ \A r \in Setups : r # q => setup[r] = Idle
            /\ \A a \in Admins : admin[a] = Idle
            /\ SetupCalm(q)
       /\ AllIdle => Agree

\* A request begins: before it, nothing was under way.
LEMMA BeginsAlone ==
  ASSUME CalmInv, Overlap
  PROVE  calm' \in BOOLEAN /\ (calm' => calm /\ AllIdle /\ Agree)
<1>1. UnderWay = {} => AllIdle
  BY DEF UnderWay, AllIdle
<1> QED
  BY <1>1 DEF CalmInv, Overlap

\* A request of an Admin goes on.
LEMMA AdminGoesOn ==
  ASSUME EnrollmentRows, CalmInv, NEW a \in Admins, admin[a] # Idle, NEW w,
         admin' = [admin EXCEPT ![a] = w], UNCHANGED <<setup, calm>>,
         calm => (w = Idle /\ Agree') \/ (w # Idle /\ AdminCalm(a)')
  PROVE  CalmInv'
<1>1. admin'[a] = w /\ \A b \in Admins : b # a => admin'[b] = admin[b]
  BY DEF EnrollmentRows
<1>2. calm => /\ \A b \in Admins : b # a => admin'[b] = Idle
              /\ \A q \in Setups : setup'[q] = Idle
  BY <1>1 DEF CalmInv
<1>3. CASE w = Idle /\ Agree'
  BY <1>1, <1>2, <1>3 DEF CalmInv
<1>4. CASE w # Idle /\ AdminCalm(a)'
  <2>1. ~AllIdle'
    BY <1>1, <1>4 DEF AllIdle
  <2> QED
    BY <1>1, <1>2, <1>4, <2>1 DEF CalmInv
<1>5. CASE ~calm
  BY <1>5 DEF CalmInv
<1> QED
  BY <1>3, <1>4, <1>5 DEF CalmInv

\* An exchange goes on.
LEMMA SetupGoesOn ==
  ASSUME EnrollmentRows, CalmInv, NEW q \in Setups, setup[q] # Idle, NEW w,
         Proceed(q, w), UNCHANGED <<admin, calm>>,
         calm => (w = Idle /\ Agree') \/ (w # Idle /\ SetupCalm(q)')
  PROVE  CalmInv'
<1>1. setup'[q] = w /\ \A r \in Setups : r # q => setup'[r] = setup[r]
  BY DEF EnrollmentRows, Proceed
<1>2. calm => /\ \A r \in Setups : r # q => setup'[r] = Idle
              /\ \A a \in Admins : admin'[a] = Idle
  BY <1>1 DEF CalmInv
<1>3. CASE w = Idle /\ Agree'
  BY <1>1, <1>2, <1>3 DEF CalmInv
<1>4. CASE w # Idle /\ SetupCalm(q)'
  <2>1. ~AllIdle'
    BY <1>1, <1>4 DEF AllIdle
  <2> QED
    BY <1>1, <1>2, <1>4, <2>1 DEF CalmInv
<1>5. CASE ~calm
  BY <1>5 DEF CalmInv
<1> QED
  BY <1>3, <1>4, <1>5 DEF CalmInv

\* Re-issue and revoke load the row, and write it with another state.
LEMMA BeginCalm ==
  ASSUME EnrollmentRows, CalmInv, NEW a \in Admins, BeginReissue(a) \/ BeginRevoke(a)
  PROVE  CalmInv'
<1>1. PICK row : /\ admin' = [admin EXCEPT ![a] = [stage |-> "loaded", row |-> row]]
                 /\ row = Reissue(enrollment) \/ row = Revoke(enrollment)
  BY DEF BeginReissue, BeginRevoke
<1>2. row.state \in {"issued", "revoked"}
  <2>1. enrollment = [state |-> enrollment.state, code |-> enrollment.code,
                      key |-> enrollment.key]
    BY DEF EnrollmentRows, EnrollmentRow
  <2>2. Reissue(enrollment) = [[enrollment EXCEPT !.state = "issued"] EXCEPT !.code = codes + 1]
    BY DEF Reissue
  <2>3. Revoke(enrollment) = [[enrollment EXCEPT !.state = "revoked"] EXCEPT !.code = 0]
    BY DEF Revoke
  <2>4. [enrollment EXCEPT !.state = "issued"]
          = [state |-> "issued", code |-> enrollment.code, key |-> enrollment.key]
        /\ [enrollment EXCEPT !.state = "revoked"]
          = [state |-> "revoked", code |-> enrollment.code, key |-> enrollment.key]
    BY <2>1
  <2>5. Reissue(enrollment).state = "issued" /\ Revoke(enrollment).state = "revoked"
    BY <2>2, <2>3, <2>4
  <2> QED
    BY <1>1, <2>5
<1>3. calm' \in BOOLEAN /\ (calm' => calm /\ AllIdle) /\ setup' = setup
  BY BeginsAlone DEF BeginReissue, BeginRevoke
<1>4. /\ admin'[a].stage = "loaded" /\ admin'[a].row = row
      /\ \A b \in Admins : b # a => admin'[b] = admin[b]
  BY <1>1 DEF EnrollmentRows
<1>5. admin'[a] # Idle
  BY <1>4 DEF Idle
<1>6. AdminCalm(a)'
  BY <1>2, <1>4 DEF AdminCalm
<1> QED
  BY <1>3, <1>4, <1>5, <1>6 DEF CalmInv, AllIdle

\* Issuing is one statement.
LEMMA IssueCalm == ASSUME CalmInv, IssueEnrollment PROVE CalmInv'
<1>1. UNCHANGED <<admin, setup>> /\ calm' \in BOOLEAN /\ (calm' => calm /\ AllIdle)
  BY BeginsAlone DEF IssueEnrollment
<1>2. enrollment'.state = "issued"
  BY DEF IssueEnrollment, Reissue, NoEnrollment
<1>3. Agree'
  BY <1>2 DEF Agree
<1> QED
  BY <1>1, <1>3 DEF CalmInv, AllIdle

\* The statements of a request.
LEMMA AdminStepCalm ==
  ASSUME EnrollmentRows, CalmInv, NEW a \in Admins, AdminStep(a) PROVE CalmInv'
<1>1. CASE SaveEnrollment(a)
  <2> DEFINE w == [stage |-> "saved"]
  <2>1. /\ admin[a].stage = "loaded" /\ admin[a] # Idle
        /\ enrollment' = admin[a].row /\ admin' = [admin EXCEPT ![a] = w]
        /\ UNCHANGED <<setup, calm>>
    BY <1>1 DEF SaveEnrollment, Idle
  <2>2. w.stage = "saved" /\ w # Idle
    BY DEF Idle
  <2> HIDE DEF w
  <2>3. admin'[a] = w
    BY <2>1 DEF EnrollmentRows
  <2>4. calm => AdminCalm(a)'
    BY <2>1, <2>2, <2>3 DEF CalmInv, AdminCalm
  <2> QED
    BY <2>1, <2>2, <2>4, AdminGoesOn
<1>2. CASE RevokeVesselCredential(a)
  <2>1. /\ admin[a].stage = "saved" /\ admin[a] # Idle
        /\ credential' = [credential EXCEPT !.live = FALSE]
        /\ admin' = [admin EXCEPT ![a] = Idle] /\ UNCHANGED <<setup, calm, enrollment>>
    BY <1>2 DEF RevokeVesselCredential, Idle
  <2>2. ~credential'.live
    BY <2>1 DEF EnrollmentRows
  <2>3. calm => enrollment'.state \in {"issued", "revoked"}
    BY <2>1 DEF CalmInv, AdminCalm
  <2>4. calm => Agree'
    BY <2>2, <2>3 DEF Agree
  <2> QED
    BY <2>1, <2>4, AdminGoesOn
<1> QED
  BY <1>1, <1>2 DEF AdminStep

\* The next stage of an exchange.
Staged(q, stage) == [setup[q] EXCEPT !.stage = stage]

\* It keeps the rest.
LEMMA NextStage ==
  ASSUME EnrollmentRows, NEW q \in Setups, setup[q].stage # "idle", NEW stage, stage # "idle",
         Proceed(q, Staged(q, stage))
  PROVE  /\ setup'[q].stage = stage /\ setup'[q].n = setup[q].n
         /\ setup'[q].open = setup[q].open
         /\ Staged(q, stage) # Idle /\ setup'[q] = Staged(q, stage)
<1>1. setup[q] = [stage |-> setup[q].stage, code |-> setup[q].code,
                  n |-> setup[q].n, open |-> setup[q].open]
  BY SetupHolds
<1> DEFINE w == Staged(q, stage)
<1>2. w.stage = stage /\ w.n = setup[q].n /\ w.open = setup[q].open
  BY <1>1 DEF Staged
<1>3. w # Idle
  BY <1>2 DEF Idle
<1> HIDE DEF w
<1>4. setup'[q] = w
  BY DEF Proceed, EnrollmentRows, w
<1> QED
  BY <1>2, <1>3, <1>4 DEF w

\* The statements of an exchange.
LEMMA SetupStepCalm ==
  ASSUME EnrollmentRows, AboardRow, CalmInv, NEW q \in Setups, SetupStep(q) PROVE CalmInv'
<1> DEFINE v == setup[q]
<1>0. v.stage # "idle" /\ UNCHANGED <<admin, calm>> /\ v # Idle
  <2>1. v.stage # "idle" /\ UNCHANGED <<admin, calm>>
    BY DEF SetupStep, VerifyCode, ConsumeCode, StoreCredential, SaveSyncCredential,
           SaveDRIdentity, SetConfigured
  <2> QED
    BY <2>1 DEF Idle
<1>1. calm => SetupCalm(q)
  BY <1>0 DEF CalmInv
<1>2. CASE VerifyCode(q)
  <2>1. v.stage = "sent" /\ UNCHANGED <<enrollment, credential, aboard>>
        /\ (Proceed(q, Idle) \/ Proceed(q, Staged(q, "found")))
    BY <1>2 DEF VerifyCode, Move, Staged
  <2>2. calm => Agree'
    BY <1>1, <2>1 DEF SetupCalm, Agree
  <2>3. CASE Proceed(q, Idle)
    BY <1>0, <2>2, <2>3, SetupGoesOn
  <2>4. CASE Proceed(q, Staged(q, "found"))
    <3>1. /\ setup'[q].stage = "found" /\ Staged(q, "found") # Idle
          /\ setup'[q].open = v.open
      BY <1>0, <2>4, NextStage
    <3>2. calm => SetupCalm(q)'
      BY <1>1, <2>2, <3>1 DEF SetupCalm
    <3> QED
      BY <1>0, <2>4, <3>1, <3>2, SetupGoesOn
  <2> QED
    BY <2>1, <2>3, <2>4
<1>3. CASE ConsumeCode(q)
  <2>1. /\ v.stage = "found" /\ Proceed(q, Staged(q, "consumed"))
        /\ enrollment' = [state |-> "enrolled", code |-> 0, key |-> v.n]
    BY <1>3 DEF ConsumeCode, Move, Staged
  <2>2. /\ setup'[q].stage = "consumed" /\ Staged(q, "consumed") # Idle
        /\ setup'[q].open = v.open /\ setup'[q].n = v.n
    BY <1>0, <2>1, NextStage
  <2>3. calm => SetupCalm(q)'
    BY <1>1, <2>1, <2>2 DEF SetupCalm
  <2> QED
    BY <1>0, <2>1, <2>2, <2>3, SetupGoesOn
<1>4. CASE StoreCredential(q)
  <2>1. /\ v.stage = "consumed" /\ Proceed(q, Staged(q, "answered")) /\ enrollment' = enrollment
        /\ credential' = [token |-> v.n, code |-> v.code, live |-> TRUE]
    BY <1>4 DEF StoreCredential, Move, Staged
  <2>2. /\ setup'[q].stage = "answered" /\ Staged(q, "answered") # Idle
        /\ setup'[q].open = v.open /\ setup'[q].n = v.n
    BY <1>0, <2>1, NextStage
  <2>3. calm => SetupCalm(q)'
    BY <1>1, <2>1, <2>2 DEF SetupCalm
  <2> QED
    BY <1>0, <2>1, <2>2, <2>3, SetupGoesOn
<1>5. CASE SaveSyncCredential(q)
  <2>1. /\ v.stage = "answered" /\ UNCHANGED <<enrollment, credential>>
        /\ v.open => Proceed(q, Staged(q, "stored"))
        /\ ~v.open => Proceed(q, Idle)
    BY <1>5 DEF SaveSyncCredential, Move, Staged
  <2>2. CASE v.open
    <3>1. /\ setup'[q].stage = "stored" /\ Staged(q, "stored") # Idle
          /\ setup'[q].open = v.open /\ setup'[q].n = v.n
      BY <1>0, <2>1, <2>2, NextStage
    <3>2. calm => SetupCalm(q)'
      BY <1>1, <2>1, <3>1 DEF SetupCalm
    <3> QED
      BY <1>0, <2>1, <2>2, <3>1, <3>2, SetupGoesOn
  <2>3. CASE ~v.open
    <3>1. ~calm
      BY <1>1, <2>3 DEF SetupCalm
    <3> QED
      BY <1>0, <2>1, <2>3, <3>1, SetupGoesOn
  <2> QED
    BY <2>2, <2>3
<1>6. CASE SaveDRIdentity(q)
  <2>1. /\ v.stage = "stored" /\ UNCHANGED <<enrollment, credential>>
        /\ v.open => Proceed(q, Staged(q, "keyed")) /\ aboard' = [aboard EXCEPT !.key = v.n]
        /\ ~v.open => Proceed(q, Idle)
    BY <1>6 DEF SaveDRIdentity, Move, Staged
  <2>2. CASE v.open
    <3>1. /\ setup'[q].stage = "keyed" /\ Staged(q, "keyed") # Idle
          /\ setup'[q].open = v.open /\ setup'[q].n = v.n
      BY <1>0, <2>1, <2>2, NextStage
    <3>2. aboard'.key = v.n
      BY <2>1, <2>2 DEF AboardRow
    <3>3. calm => SetupCalm(q)'
      BY <1>1, <2>1, <3>1, <3>2 DEF SetupCalm
    <3> QED
      BY <1>0, <2>1, <2>2, <3>1, <3>3, SetupGoesOn
  <2>3. CASE ~v.open
    <3>1. ~calm
      BY <1>1, <2>3 DEF SetupCalm
    <3> QED
      BY <1>0, <2>1, <2>3, <3>1, SetupGoesOn
  <2> QED
    BY <2>2, <2>3
<1>7. CASE SetConfigured(q)
  <2>1. /\ v.stage = "keyed" /\ Proceed(q, Idle)
        /\ UNCHANGED <<enrollment, credential, aboard>>
    BY <1>7 DEF SetConfigured
  <2>2. calm => Agree'
    BY <1>1, <2>1 DEF SetupCalm, Agree
  <2> QED
    BY <1>0, <2>1, <2>2, SetupGoesOn
<1> QED
  BY <1>2, <1>3, <1>4, <1>5, <1>6, <1>7 DEF SetupStep

\* An exchange begins.
LEMMA SendCalm ==
  ASSUME EnrollmentRows, CalmInv, NEW q \in Setups, NEW k, SendCode(q, k) PROVE CalmInv'
<1> DEFINE w == [stage |-> "sent", code |-> k, n |-> exchanges + 1, open |-> TRUE]
<1>1. /\ Proceed(q, w) /\ UNCHANGED <<enrollment, credential, aboard, admin>>
      /\ calm' \in BOOLEAN /\ (calm' => calm /\ AllIdle /\ Agree)
  BY BeginsAlone DEF SendCode
<1>2. w.stage = "sent" /\ w.open
  OBVIOUS
<1>3. w # Idle
  BY <1>2 DEF Idle
<1> HIDE DEF w
<1>4. setup'[q] = w /\ \A r \in Setups : r # q => setup'[r] = setup[r]
  BY <1>1 DEF Proceed, EnrollmentRows
<1>5. calm' => Agree'
  BY <1>1 DEF Agree
<1>6. calm' => SetupCalm(q)'
  BY <1>2, <1>4, <1>5 DEF SetupCalm
<1>7. ~AllIdle'
  BY <1>3, <1>4 DEF AllIdle
<1> QED
  BY <1>1, <1>4, <1>6, <1>7 DEF CalmInv, AllIdle

\* One step of any kind.
LEMMA CalmStep ==
  AccessInv /\ AboardRow /\ CalmInv /\ [AccessNext]_access => AboardRow' /\ CalmInv'
<1> SUFFICES ASSUME EnrollmentRows, AboardRow, CalmInv, [AccessNext]_access
             PROVE  AboardRow' /\ CalmInv'
  BY DEF AccessInv
<1>0. AboardRow'
  <2>1. ASSUME NEW q \in Setups, SaveSyncCredential(q) \/ SaveDRIdentity(q)
        PROVE  AboardRow'
    <3>1. \/ aboard' = aboard
          \/ aboard' = [aboard EXCEPT !.token = setup[q].n]
          \/ aboard' = [aboard EXCEPT !.key = setup[q].n]
      BY <2>1 DEF SaveSyncCredential, SaveDRIdentity
    <3> QED
      BY <3>1 DEF AboardRow
  <2>2. \/ \E q \in Setups : SaveSyncCredential(q) \/ SaveDRIdentity(q)
        \/ aboard' = aboard
    BY DEF AccessNext, Administer, IssueEnrollment, BeginReissue, BeginRevoke, Cut,
           SkipEnrollment, AdminStep, SaveEnrollment, RevokeVesselCredential, SetupStep,
           VerifyCode, ConsumeCode, StoreCredential, SetConfigured, SendCode, access
  <2> QED
    BY <2>1, <2>2 DEF AboardRow
<1>1. CASE Cut
  <2>1. calm' = FALSE
    BY <1>1 DEF Cut
  <2> QED
    BY <1>0, <2>1 DEF CalmInv
<1>2. CASE SkipEnrollment \/ UNCHANGED access
  <2>1. UNCHANGED <<enrollment, credential, admin, setup, aboard, calm>>
    BY <1>2 DEF SkipEnrollment, access
  <2>2. /\ Agree' = Agree /\ AllIdle' = AllIdle
        /\ \A a : AdminCalm(a)' = AdminCalm(a)
        /\ \A q : SetupCalm(q)' = SetupCalm(q)
    BY <2>1 DEF Agree, AllIdle, AdminCalm, SetupCalm
  <2> QED
    BY <1>0, <2>1, <2>2 DEF CalmInv
<1> QED
  BY <1>0, <1>1, <1>2, IssueCalm, BeginCalm, AdminStepCalm, SetupStepCalm, SendCalm
     DEF AccessNext, Administer

\* Nothing is under way at the start.
LEMMA CalmInit == InitAccess => AboardRow /\ CalmInv
BY DEF InitAccess, AboardRow, CalmInv, Agree, AllIdle, NoEnrollment, Idle

\* handleReissueEnrollment, handleRevokeEnrollment, handleEnroll: as long as
\* no two requests overlapped and none was cut, a revoked vessel is cut off,
\* an enrolled one is let in, and it can decrypt a bundle encrypted for it.
THEOREM SettledRowsAgree == AccessSpec => []SettledAgrees
<1>1. CalmInv => SettledAgrees
  <2>1. UnderWay = {} => AllIdle
    BY DEF UnderWay, AllIdle
  <2> QED
    BY <2>1 DEF CalmInv, SettledAgrees, Agree
<1> QED
  BY <1>1, CalmInit, CalmStep, AccessInductive, PTL DEF AccessSpec

=============================================================================
