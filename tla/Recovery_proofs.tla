--------------------------- MODULE Recovery_proofs ---------------------------
(* What Recovery keeps, for any number of cycles, messages, bundles and      *)
(* failures: the two walls agree, and a restore bundle that is in stays in.  *)
EXTENDS Recovery, TLAPS, WellFoundedInduction, SequenceTheorems, FiniteSetTheorems

\* The least element of a set of numbers.
LEMMA LeastNumber ==
  ASSUME NEW S \in SUBSET Nat, S # {}
  PROVE  \E n \in S : \A m \in S : n <= m
<1>1. IsWellFoundedOn(OpToRel(<, Nat), Nat)
  BY NatLessThanWellFounded
<1>2. PICK n \in S : \A m \in S : <<m, n>> \notin OpToRel(<, Nat)
  BY <1>1, WFMin, Zenon
<1>3. \A m \in S : ~(m < n)
  BY <1>2 DEF OpToRel
<1> QED
  BY <1>3

LEMMA MinIsLeast ==
  ASSUME NEW S \in SUBSET Nat, S # {}
  PROVE  Min(S) \in S
  BY LeastNumber DEF Min

\* Sets of numbers that have a largest one.
Bounded(S) == S \subseteq Nat /\ \E k \in Nat : \A n \in S : n <= k

LEMMA MaxIsLargest ==
  ASSUME NEW S, Bounded(S), S # {}
  PROVE  Max(S) \in S /\ \A n \in S : n <= Max(S)
<1> DEFINE B == {k \in Nat : \A n \in S : n <= k}
<1>1. PICK k \in B : \A m \in B : k <= m
  BY LeastNumber DEF Bounded
<1>2. PICK n \in S : TRUE
  OBVIOUS
<1>3. k \in S
  <2>1. SUFFICES ASSUME k \notin S PROVE FALSE
    OBVIOUS
  <2>2. \A m \in S : m \in Nat /\ m <= k - 1
    BY <2>1 DEF Bounded
  <2>3. k - 1 \in B
    BY <1>2, <2>2
  <2> QED
    BY <1>1, <2>3
<1>4. \E x \in S : \A y \in S : x >= y
  BY <1>3 DEF Bounded
<1> QED
  BY <1>4 DEF Max, Bounded

\* A list of the positions of S has each of them, once.
LEMMA InOrderLists ==
  ASSUME NEW n \in Nat, NEW S \in SUBSET (1..n), NEW q \in InOrder(S)
  PROVE  /\ DOMAIN q = 1..Cardinality(S) /\ Cardinality(S) \in Nat
         /\ \A j \in DOMAIN q : q[j] \in S
         /\ \A i \in S : \E j \in DOMAIN q : q[j] = i
<1> DEFINE m == Cardinality(S)
<1>1. IsFiniteSet(S) /\ m \in Nat
  <2>1. IsFiniteSet(1..n)
    BY FS_Interval
  <2> QED
    BY <2>1, FS_Subset, FS_CardinalityType
<1>2. q \in [1..m -> S] /\ \A j, k \in 1..m : j < k => q[j] < q[k]
  BY DEF InOrder
<1> HIDE DEF m
<1>3. S \subseteq Nat
  OBVIOUS
<1>4. \A j, k \in 1..m : q[j] = q[k] => j = k
  <2>1. SUFFICES ASSUME NEW j \in 1..m, NEW k \in 1..m, q[j] = q[k] PROVE j = k
    OBVIOUS
  <2>2. q[j] \in S
    BY <1>2
  <2>4. q[j] \in Nat
    BY <1>3, <2>2
  <2>3. ~(j < k) /\ ~(k < j)
    BY <1>2, <2>1, <2>4
  <2> QED
    BY <1>1, <2>3
<1>5. q \in Injection(1..m, S)
  BY <1>2, <1>4 DEF Injection, IsInjective
<1>6. IsFiniteSet(1..m) /\ Cardinality(1..m) = m
  BY <1>1, FS_Interval
<1>7. q \in Surjection(1..m, S)
  BY <1>1, <1>5, <1>6, FS_Injection DEF m
<1> QED
  BY <1>1, <1>2, <1>7 DEF Surjection, m

-----------------------------------------------------------------------------
(* The invariant.  What it says of a part of the state is an operator on     *)
(* that part and on what it relates it to: rows, the rows of the walls as    *)
(* their authors wrote them; said, the office's messages; past, the restore  *)
(* commands that were executed and what the cursors overtook.               *)

Past == [executed |-> executed, missed |-> missed, skipped |-> skipped]
Grown(past, past2) ==
  /\ past.executed \subseteq past2.executed
  /\ past.missed \subseteq past2.missed /\ past.skipped \subseteq past2.skipped

Rows == {Row(id) : id \in DOMAIN authors}
Says(said, id) == \E i \in DOMAIN said : said[i].id = id

\* The queues of the system: the outbox, that of the snapshot, what a cycle
\* has sent.  An item is about a version, by its number, or a message.
Item(item) ==
  /\ item.body.kind = "version" => item.body.no \in Nat
  /\ item.body.kind = "chat" => item.body.message # 0
  /\ item.body.kind \in {"version", "chat"}
Queue(q) ==
  /\ \E n \in Nat : DOMAIN q = 1..n
  /\ q \in Seq({q[i] : i \in DOMAIN q})
  /\ \A i \in DOMAIN q : Item(q[i])

\* Which message an item says, if any, and what the items of a queue say.
Message(item) == IF item.body.kind = "chat" THEN item.body.message ELSE 0
Told(q) == {<<q[i].id, Message(q[i])>> : i \in DOMAIN q}

SentBy(x) == IF x.stage = "push" THEN Told(x.batch) ELSE {}
Sent(all) == UNION {SentBy(all[w]) : w \in Workers}
Saved(copy) == IF copy = None THEN {} ELSE Told(copy.db.outbox)
Known == Told(db.outbox) \cup Saved(snapshot) \cup Sent(work)

\* An item has one message, of the vessel; once it is received, that is at
\* the office.
ItemOK(x) ==
  /\ x[1] \in 1..items
  /\ x[2] # 0 => x[2] \in DOMAIN authors /\ authors[x[2]] = "vessel"
  /\ x[2] # 0 /\ x[1] \in receipts => Says(chat, x[2])
ItemsInv ==
  /\ items \in Nat /\ receipts \subseteq 1..items
  /\ \A x \in Known : ItemOK(x)
  /\ \A x, y \in Known : x[1] = y[1] => x[2] = y[2]

\* The office's own messages up to a cursor are on the wall, but for the late.
Heard(said, wall, cursor, late) ==
  /\ cursor \in 0..Len(said)
  /\ \A i \in 1..cursor : said[i].by = "office" => said[i] \in wall \/ i \in late
Executed(n, done) == n \in Nat /\ 1..n \subseteq done

\* A database, the snapshot's too.
WallOK(d, excused, rows, said, past) ==
  /\ d.wall \subseteq rows
  /\ \A row \in d.wall : row.by = "vessel" =>
       \/ Says(said, row.id) \/ row.id \in excused
       \/ \E x \in Told(d.outbox) : x[2] = row.id
  /\ Heard(said, d.wall, d.chatCursor, past.missed)
Database(d) ==
  d = [ready |-> d.ready, master |-> d.master, enrolled |-> d.enrolled,
       versions |-> d.versions, wall |-> d.wall, outbox |-> d.outbox,
       chatCursor |-> d.chatCursor, restoreCursor |-> d.restoreCursor]
DbOK(d, excused, rows, said, past) ==
  /\ Database(d) /\ Bounded(DOMAIN d.versions) /\ Queue(d.outbox)
  /\ WallOK(d, excused, rows, said, past)
  /\ Executed(d.restoreCursor, past.executed \cup past.skipped)

DbInv == DbOK(db, unqueued \cup {post}, Rows, chat, Past)
SnapshotInv ==
  snapshot = None \/
    /\ snapshot = [stage |-> "taken", db |-> snapshot.db, post |-> snapshot.post,
                   submitting |-> snapshot.submitting]
    /\ DbOK(snapshot.db, unqueued \cup {snapshot.post}, Rows, chat, Past)

\* A version with this data is aboard and will not be written over.
Kept(n, data, versions) ==
  n \in DOMAIN versions /\ versions[n].data = data /\ versions[n].state # "draft"

\* A bundle that is going in: what is not left to store has been stored.
RestoreOK(x, said, d) ==
  LET left == x.bundle.versions IN
  /\ x.bundle = [versions |-> left, rows |-> x.bundle.rows]
  /\ x.bundle.rows \subseteq ToSet(said)
  /\ DOMAIN left \subseteq Nat /\ DOMAIN left \subseteq DOMAIN x.asOf
  /\ \A n \in DOMAIN x.asOf :
       IF n \in DOMAIN left THEN left[n] = x.asOf[n] ELSE Kept(n, x.asOf[n], d.versions)
  /\ x.stage = "applied" => DOMAIN left = {}

\* A cycle that has pulled.
Pulled(x) ==
  x = [stage |-> x.stage, ids |-> x.ids, said |-> x.said, next |-> x.next,
       unsaid |-> x.unsaid, todo |-> x.todo, last |-> x.last, unasked |-> x.unasked,
       bundle |-> x.bundle, asOf |-> x.asOf]
PulledOK(x, rows, said, d, past) ==
  /\ Pulled(x)
  /\ x.said \subseteq {row \in rows : row.by = "office"}
  /\ Heard(said, d.wall \cup x.said, x.next, past.missed \cup x.unsaid)
  /\ x.ids \subseteq past.executed
  /\ Executed(x.last, past.executed \cup past.skipped \cup x.todo \cup x.unasked)

CycleOK(x, rows, said, d, past) ==
  \/ x = Rest
  \/ x = [stage |-> "push", open |-> x.open, batch |-> x.batch] /\ Queue(x.batch)
  \/ x = [stage |-> "pull"]
  \/ x.stage \in {"restore", "stopped"} /\ PulledOK(x, rows, said, d, past)
  \/ /\ x.stage \in {"apply", "applied"}
     /\ PulledOK(x, rows, said, d, past) /\ RestoreOK(x, said, d)
  \/ x = [stage |-> "report", ids |-> x.ids] /\ x.ids \subseteq past.executed
ImportOK(x, said, d) ==
  \/ x = Rest
  \/ /\ x.stage \in {"apply", "applied"}
     /\ x = [stage |-> x.stage, bundle |-> x.bundle, asOf |-> x.asOf]
     /\ RestoreOK(x, said, d)
WorkOK(w, x, rows, said, d, past) ==
  IF w = "import" THEN ImportOK(x, said, d) ELSE CycleOK(x, rows, said, d, past)
WorkInv ==
  /\ work = [w \in Workers |-> work[w]]
  /\ \A w \in Workers : WorkOK(w, work[w], Rows, chat, db, Past)

WordsInv ==
  /\ authors \in Seq({"vessel", "office"}) /\ chat \in Seq(Rows)
  /\ post # 0 => post \in DOMAIN authors /\ authors[post] = "vessel"
  /\ submitting \in Nat

RestoredInv ==
  /\ DOMAIN landed \subseteq Nat /\ commands \in Seq([applied : BOOLEAN])
  /\ \A n \in DOMAIN restored : Kept(n, restored[n], db.versions)
  /\ \A i \in DOMAIN commands : commands[i].applied => i \in executed

IInv == WordsInv /\ ItemsInv /\ DbInv /\ SnapshotInv /\ WorkInv /\ RestoredInv

-----------------------------------------------------------------------------
(* Queues. *)

\* A list of n elements is a sequence of them.
LEMMA ListIsSequence ==
  ASSUME NEW n \in Nat, NEW q, DOMAIN q = 1..n, q = [i \in 1..n |-> q[i]]
  PROVE  q \in Seq({q[i] : i \in DOMAIN q})
<1> DEFINE S == {q[i] : i \in DOMAIN q}
<1>1. q \in [1..n -> S]
  OBVIOUS
<1> HIDE DEF S
<1>2. q \in Seq(S)
  BY <1>1, SeqDef
<1> QED
  BY <1>2 DEF S

\* Queued: the new item is last.
LEMMA Appended ==
  ASSUME NEW q, Queue(q), NEW item, Item(item)
  PROVE  /\ Queue(Append(q, item))
         /\ Told(Append(q, item)) = Told(q) \cup {<<item.id, Message(item)>>}
<1> DEFINE S == {q[i] : i \in DOMAIN q}
           T == S \cup {item}
           r == Append(q, item)
<1>1. PICK n \in Nat : DOMAIN q = 1..n
  BY DEF Queue
<1>2. q \in Seq(S) /\ q \in Seq(T)
  <2>1. q \in Seq(S)
    BY DEF Queue
  <2> HIDE DEF S
  <2> QED
    BY <2>1
<1>3. Len(q) = n
  <2> HIDE DEF S
  <2>1. Len(q) \in Nat /\ DOMAIN q = 1..Len(q)
    BY <1>2
  <2> QED
    BY <1>1, <2>1
<1>4. r \in Seq(T) /\ DOMAIN r = 1..(n + 1) /\ r[n + 1] = item /\ \A i \in 1..n : r[i] = q[i]
  <2> HIDE DEF S
  <2> QED
    BY <1>2, <1>3
<1>5. r = [i \in 1..(n + 1) |-> r[i]]
  <2> HIDE DEF r, T
  <2>1. r \in [1..Len(r) -> T] /\ DOMAIN r = 1..Len(r)
    BY <1>4
  <2> QED
    BY <1>4, <2>1
<1> HIDE DEF r
<1>6. r \in Seq({r[i] : i \in DOMAIN r})
  BY <1>4, <1>5, ListIsSequence
<1>7. \A i \in 1..(n + 1) : i \in 1..n \/ i = n + 1
  OBVIOUS
<1>8. Queue(r)
  <2>1. n + 1 \in Nat
    OBVIOUS
  <2>2. \A i \in DOMAIN r : Item(r[i])
    BY <1>1, <1>4, <1>7 DEF Queue
  <2> QED
    BY <1>4, <1>6, <2>1, <2>2 DEF Queue
<1>9. Told(r) = Told(q) \cup {<<item.id, Message(item)>>}
  <2>1. \A x \in Told(r) : x \in Told(q) \cup {<<item.id, Message(item)>>}
    BY <1>1, <1>4, <1>7 DEF Told
  <2>2. \A x \in Told(q) : x \in Told(r)
    <3>1. SUFFICES ASSUME NEW i \in 1..n PROVE <<q[i].id, Message(q[i])>> \in Told(r)
      BY <1>1 DEF Told
    <3>2. i \in DOMAIN r /\ r[i] = q[i]
      BY <1>4
    <3> QED
      BY <3>2 DEF Told
  <2>3. <<item.id, Message(item)>> \in Told(r)
    <3>1. n + 1 \in DOMAIN r /\ r[n + 1] = item
      BY <1>4
    <3> QED
      BY <3>1 DEF Told
  <2> QED
    BY <2>1, <2>2, <2>3
<1> QED
  BY <1>8, <1>9 DEF r

\* A queue picked from another.
LEMMA Picked ==
  ASSUME NEW q, Queue(q), NEW S \in SUBSET (DOMAIN q), NEW p \in InOrder(S)
  PROVE  LET r == [j \in DOMAIN p |-> q[p[j]]] IN
         /\ Queue(r)
         /\ Told(r) = {<<q[i].id, Message(q[i])>> : i \in S}
<1> DEFINE r == [j \in DOMAIN p |-> q[p[j]]]
           m == Cardinality(S)
<1>1. PICK n \in Nat : DOMAIN q = 1..n
  BY DEF Queue
<1>2. /\ DOMAIN p = 1..m /\ m \in Nat
      /\ \A j \in DOMAIN p : p[j] \in S
      /\ \A i \in S : \E j \in DOMAIN p : p[j] = i
  <2>1. S \in SUBSET (1..n)
    BY <1>1
  <2> QED
    BY <2>1, InOrderLists
<1>3. DOMAIN r = 1..m /\ r = [j \in 1..m |-> r[j]] /\ \A j \in 1..m : r[j] = q[p[j]]
  BY <1>2
<1> HIDE DEF r, m
<1>4. r \in Seq({r[j] : j \in DOMAIN r})
  BY <1>2, <1>3, ListIsSequence
<1>5. Queue(r)
  BY <1>2, <1>3, <1>4 DEF Queue
<1>6. Told(r) = {<<q[i].id, Message(q[i])>> : i \in S}
  BY <1>2, <1>3 DEF Told
<1> QED
  BY <1>5, <1>6 DEF r

\* What a cycle sends says what the outbox says.
LEMMA PayloadSays ==
  ASSUME Queue(db.outbox)
  PROVE  LET r == [i \in DOMAIN db.outbox |-> Payload(db.outbox[i])] IN
         Queue(r) /\ Told(r) = Told(db.outbox)
<1> DEFINE q == db.outbox
           r == [i \in DOMAIN q |-> Payload(q[i])]
<1>1. PICK n \in Nat : DOMAIN q = 1..n
  BY DEF Queue
<1>2. \A i \in DOMAIN q : r[i].id = q[i].id /\ Message(r[i]) = Message(q[i])
  BY DEF Payload, ReportVersionFromDomain, Message
<1>3. \A i \in DOMAIN q : Item(r[i])
  BY DEF Payload, ReportVersionFromDomain, Queue, Item
<1>4. DOMAIN r = 1..n /\ r = [i \in 1..n |-> r[i]]
  BY <1>1
<1> HIDE DEF r
<1>5. r \in Seq({r[i] : i \in DOMAIN r})
  BY <1>4, ListIsSequence
<1>6. Queue(r)
  BY <1>1, <1>3, <1>4, <1>5 DEF Queue
<1>7. Told(r) = Told(q)
  BY <1>1, <1>2, <1>4 DEF Told
<1> QED
  BY <1>6, <1>7 DEF r

-----------------------------------------------------------------------------
(* What stays while messages, walls and histories grow. *)

\* The office's messages go on.
Extends(said, said2) ==
  /\ said \in Seq(ToSet(said)) /\ said2 \in Seq(ToSet(said2))
  /\ Len(said) <= Len(said2) /\ \A i \in 1..Len(said) : said2[i] = said[i]

LEMMA SaysStays ==
  ASSUME NEW said, NEW said2, Extends(said, said2)
  PROVE  /\ \A id : Says(said, id) => Says(said2, id)
         /\ ToSet(said) \subseteq ToSet(said2)
<1>1. Len(said) \in Nat /\ Len(said2) \in Nat
  BY DEF Extends
<1>2. DOMAIN said = 1..Len(said) /\ DOMAIN said2 = 1..Len(said2)
  BY DEF Extends
<1>3. \A i \in DOMAIN said : i \in DOMAIN said2 /\ said2[i] = said[i]
  BY <1>1, <1>2 DEF Extends
<1> QED
  BY <1>3 DEF Says, ToSet

LEMMA HeardStays ==
  ASSUME NEW said, NEW said2, Extends(said, said2), NEW wall, NEW wall2, wall \subseteq wall2,
         NEW late, NEW late2, late \subseteq late2, NEW cursor, Heard(said, wall, cursor, late)
  PROVE  Heard(said2, wall2, cursor, late2)
<1>1. Len(said) \in Nat /\ Len(said2) \in Nat /\ Len(said) <= Len(said2)
  BY DEF Extends
<1>2. \A i \in 1..cursor : i \in 1..Len(said)
  BY <1>1 DEF Heard
<1> QED
  BY <1>1, <1>2 DEF Heard, Extends

\* What is committed of the one is as committed in the other.
KeptIn(d, d2) == \A n, data : Kept(n, data, d.versions) => Kept(n, data, d2.versions)

LEMMA RestoreStays ==
  ASSUME NEW x, NEW said, NEW said2, Extends(said, said2), NEW d, NEW d2, KeptIn(d, d2),
         RestoreOK(x, said, d)
  PROVE  RestoreOK(x, said2, d2)
<1>1. x.bundle.rows \subseteq ToSet(said2)
  BY SaysStays DEF RestoreOK
<1>2. \A n \in DOMAIN x.asOf :
        IF n \in DOMAIN x.bundle.versions THEN x.bundle.versions[n] = x.asOf[n]
        ELSE Kept(n, x.asOf[n], d2.versions)
  BY DEF RestoreOK, KeptIn
<1> QED
  BY <1>1, <1>2 DEF RestoreOK

LEMMA PulledStays ==
  ASSUME NEW x, NEW rows, NEW rows2, rows \subseteq rows2,
         NEW said, NEW said2, Extends(said, said2),
         NEW d, NEW d2, d.wall \subseteq d2.wall, NEW past, NEW past2, Grown(past, past2),
         PulledOK(x, rows, said, d, past)
  PROVE  PulledOK(x, rows2, said2, d2, past2)
<1>1. Heard(said2, d2.wall \cup x.said, x.next, past2.missed \cup x.unsaid)
  <2>1. d.wall \cup x.said \subseteq d2.wall \cup x.said
    OBVIOUS
  <2>2. Heard(said, d.wall \cup x.said, x.next, past.missed \cup x.unsaid)
    BY DEF PulledOK
  <2>3. past.missed \cup x.unsaid \subseteq past2.missed \cup x.unsaid
    BY DEF Grown
  <2> QED
    BY <2>1, <2>2, <2>3, HeardStays
<1> QED
  BY <1>1 DEF PulledOK, Executed, Grown

LEMMA WorkStays ==
  ASSUME NEW w, NEW x, NEW rows, NEW rows2, rows \subseteq rows2,
         NEW said, NEW said2, Extends(said, said2),
         NEW d, NEW d2, d.wall \subseteq d2.wall, KeptIn(d, d2),
         NEW past, NEW past2, Grown(past, past2),
         WorkOK(w, x, rows, said, d, past)
  PROVE  WorkOK(w, x, rows2, said2, d2, past2)
<1>1. RestoreOK(x, said, d) => RestoreOK(x, said2, d2)
  BY RestoreStays
<1>2. PulledOK(x, rows, said, d, past) => PulledOK(x, rows2, said2, d2, past2)
  BY PulledStays
<1>3. CASE w = "import"
  BY <1>1, <1>3 DEF WorkOK, ImportOK
<1>4. CASE w # "import"
  <2>1. CycleOK(x, rows, said, d, past)
    BY <1>4 DEF WorkOK
  <2>2. CycleOK(x, rows2, said2, d2, past2)
    BY <1>1, <1>2, <2>1 DEF CycleOK, Grown
  <2> QED
    BY <1>4, <2>2 DEF WorkOK
<1> QED
  BY <1>3, <1>4

\* A database that is not touched; fewer need not be excused.
LEMMA DbStays ==
  ASSUME NEW d, NEW excused, NEW excused2, NEW rows, NEW rows2, rows \subseteq rows2,
         NEW said, NEW said2, Extends(said, said2), NEW past, NEW past2, Grown(past, past2),
         DbOK(d, excused, rows, said, past),
         \A id \in excused : id \in excused2 \/ Says(said2, id)
  PROVE  DbOK(d, excused2, rows2, said2, past2)
<1>1. Heard(said2, d.wall, d.chatCursor, past2.missed)
  BY HeardStays DEF DbOK, WallOK, Grown
<1>2. ASSUME NEW row \in d.wall, row.by = "vessel"
      PROVE  \/ Says(said2, row.id) \/ row.id \in excused2
             \/ \E x \in Told(d.outbox) : x[2] = row.id
  <2>1. \/ Says(said, row.id) \/ row.id \in excused
        \/ \E x \in Told(d.outbox) : x[2] = row.id
    BY <1>2 DEF DbOK, WallOK
  <2> QED
    BY <2>1, SaysStays
<1>3. WallOK(d, excused2, rows2, said2, past2)
  BY <1>1, <1>2 DEF DbOK, WallOK
<1>4. Executed(d.restoreCursor, past2.executed \cup past2.skipped)
  BY DEF DbOK, Executed, Grown
<1> QED
  BY <1>3, <1>4 DEF DbOK

-----------------------------------------------------------------------------
(* Steps: what a step leaves of the invariant when it only adds.             *)

Adds ==
  /\ \A id \in DOMAIN authors : id \in DOMAIN authors' /\ authors'[id] = authors[id]
  /\ Rows \subseteq Rows' /\ Extends(chat, chat') /\ Grown(Past, Past')

LEMMA ChatGoesOn ==
  ASSUME WordsInv
  PROVE  Extends(chat, chat)
<1>1. chat \in Seq(Rows)
  BY DEF WordsInv
<1>2. Len(chat) \in Nat /\ DOMAIN chat = 1..Len(chat) /\ chat \in [1..Len(chat) -> Rows]
  BY <1>1
<1>3. chat = [i \in 1..Len(chat) |-> chat[i]]
  BY <1>2
<1>4. ToSet(chat) = {chat[i] : i \in DOMAIN chat}
  BY DEF ToSet
<1>5. chat \in Seq(ToSet(chat))
  BY <1>2, <1>3, <1>4, ListIsSequence
<1> QED
  BY <1>2, <1>5 DEF Extends

LEMMA AddsNothing ==
  ASSUME WordsInv, UNCHANGED <<authors, chat, executed, missed, skipped>>
  PROVE  Adds
<1>1. Rows' = Rows
  BY DEF Rows, Row, ChatMessageToDomain
<1>2. Extends(chat, chat')
  BY ChatGoesOn
<1> QED
  BY <1>1, <1>2 DEF Adds, Grown, Past

LEMMA SnapshotStays ==
  ASSUME SnapshotInv, Adds, snapshot' = snapshot, unqueued \subseteq unqueued'
  PROVE  SnapshotInv'
<1>1. CASE snapshot = None
  BY <1>1 DEF SnapshotInv
<1>2. CASE snapshot # None
  <2> DEFINE s == snapshot
  <2>1. /\ s = [stage |-> "taken", db |-> s.db, post |-> s.post, submitting |-> s.submitting]
        /\ DbOK(s.db, unqueued \cup {s.post}, Rows, chat, Past)
    BY <1>2 DEF SnapshotInv
  <2>2. \A id \in unqueued \cup {s.post} : id \in unqueued' \cup {s.post}
    OBVIOUS
  <2>3. DbOK(s.db, unqueued' \cup {s.post}, Rows', chat', Past')
    BY <2>1, <2>2, DbStays DEF Adds
  <2> QED
    BY <2>1, <2>3 DEF SnapshotInv
<1> QED
  BY <1>1, <1>2

LEMMA DatabaseStays ==
  ASSUME DbInv, Adds, db' = db,
         \A id \in unqueued \cup {post} : id \in unqueued' \cup {post'}
  PROVE  DbInv'
<1>1. DbOK(db, unqueued' \cup {post'}, Rows', chat', Past')
  BY DbStays DEF DbInv, Adds
<1> QED
  BY <1>1 DEF DbInv

\* What a step may do to the database while restores and pulls are under way.
DbAdds == db.wall \subseteq db'.wall /\ KeptIn(db, db')

LEMMA OthersStay ==
  ASSUME WorkInv, Adds, DbAdds
  PROVE  \A w \in Workers : WorkOK(w, work[w], Rows', chat', db', Past')
BY WorkStays DEF WorkInv, Adds, DbAdds

LEMMA WorkersStay ==
  ASSUME WorkInv, Adds, DbAdds, work' = work
  PROVE  WorkInv'
BY OthersStay DEF WorkInv

LEMMA WorkerGoes ==
  ASSUME WorkInv, Adds, DbAdds, NEW w \in Workers, NEW to, Go(w, to),
         WorkOK(w, to, Rows', chat', db', Past')
  PROVE  WorkInv'
<1>1. work' = [v \in Workers |-> IF v = w THEN to ELSE work[v]]
  BY DEF WorkInv, Go
<1>2. \A v \in Workers : WorkOK(v, work'[v], Rows', chat', db', Past')
  BY <1>1, OthersStay
<1> QED
  BY <1>1, <1>2 DEF WorkInv

LEMMA ItemsStay ==
  ASSUME ItemsInv, Adds, UNCHANGED <<items, receipts>>, Known' \subseteq Known
  PROVE  ItemsInv'
<1>1. \A x \in Known : ItemOK(x)'
  BY SaysStays DEF ItemsInv, ItemOK, Adds
<1> QED
  BY <1>1 DEF ItemsInv

\* What is known, when one worker changes.
LEMMA KnownWhenGoing ==
  ASSUME WorkInv, NEW w \in Workers, NEW to, Go(w, to), NEW more,
         SentBy(to) \subseteq Known \cup more, Told(db'.outbox) \subseteq Known \cup more,
         snapshot' = snapshot
  PROVE  Known' \subseteq Known \cup more
<1>1. work' = [v \in Workers |-> IF v = w THEN to ELSE work[v]]
  BY DEF WorkInv, Go
<1>2. Sent(work') \subseteq Sent(work) \cup SentBy(to)
  BY <1>1 DEF Sent
<1> QED
  BY <1>2 DEF Known

LEMMA NothingSent ==
  ASSUME NEW x, x.stage # "push"
  PROVE  SentBy(x) = {}
BY DEF SentBy

LEMMA RestoredStays ==
  ASSUME RestoredInv, executed \subseteq executed', KeptIn(db, db'),
         UNCHANGED <<landed, restored, commands>>
  PROVE  RestoredInv'
BY DEF RestoredInv, KeptIn

LEMMA ItemQueued ==
  ASSUME ItemsInv, Adds, receipts' = receipts, items' = items + 1,
         NEW m, m # 0 => m \in DOMAIN authors /\ authors[m] = "vessel",
         Known' \subseteq Known \cup {<<items + 1, m>>}
  PROVE  ItemsInv'
<1>1. items \in Nat /\ receipts \subseteq 1..items
  BY DEF ItemsInv
<1>2. 1..items \subseteq 1..items' /\ items + 1 \in 1..items' /\ items + 1 \notin 1..items
  BY <1>1
<1>3. \A x \in Known : ItemOK(x)' /\ x[1] # items + 1
  BY <1>2, SaysStays DEF ItemsInv, ItemOK, Adds
<1>4. PICK z : z = <<items + 1, m>>
  OBVIOUS
<1>5. z[1] = items + 1 /\ z[2] = m
  BY <1>4
<1>6. ItemOK(z)'
  <2>1. z[1] \in 1..items' /\ z[1] \notin receipts'
    BY <1>1, <1>2, <1>5
  <2>2. z[2] # 0 => z[2] \in DOMAIN authors' /\ authors'[z[2]] = "vessel"
    BY <1>5 DEF Adds
  <2> QED
    BY <2>1, <2>2 DEF ItemOK
<1>7. \A x \in Known' : x \in Known \/ x = z
  BY <1>4
<1>8. \A x, y \in Known' : x[1] = y[1] => x[2] = y[2]
  BY <1>3, <1>5, <1>7 DEF ItemsInv
<1>9. \A x \in Known' : ItemOK(x)'
  BY <1>3, <1>6, <1>7
<1>10. items' \in Nat /\ receipts' \subseteq 1..items'
  BY <1>1, <1>2
<1> QED
  BY <1>8, <1>9, <1>10 DEF ItemsInv

\* A step after which the versions aboard are as they were.
LEMMA SameVersionsKept ==
  ASSUME db'.versions = db.versions
  PROVE  KeptIn(db, db')
BY DEF KeptIn

-----------------------------------------------------------------------------
(* Setting up, and the report. *)

\* What a vessel is, and who is on it: nothing the invariant is about.
LEMMA SetsUp ==
  ASSUME IInv, Database(db'), db'.versions = db.versions, db'.wall = db.wall,
         db'.outbox = db.outbox, db'.chatCursor = db.chatCursor,
         db'.restoreCursor = db.restoreCursor,
         UNCHANGED <<snapshot, post, submitting, work, office, items, authors, history>>
  PROVE  IInv'
<1>1. Adds
  BY AddsNothing DEF IInv, office, history, Past
<1>2. DbAdds
  BY SameVersionsKept DEF DbAdds
<1>3. WordsInv'
  <2>1. Rows' = Rows
    BY DEF Rows, Row, ChatMessageToDomain
  <2> QED
    BY <2>1 DEF IInv, WordsInv, office
<1>4. ItemsInv'
  <2>1. Known' = Known
    BY DEF Known, Sent
  <2> QED
    BY <1>1, <2>1, ItemsStay DEF IInv, office
<1>5. DbInv'
  <2>1. DbOK(db, unqueued' \cup {post'}, Rows', chat', Past')
    BY <1>1, DbStays DEF IInv, DbInv, Adds, history, Past
  <2> QED
    BY <2>1 DEF DbInv, DbOK, WallOK
<1>6. SnapshotInv'
  BY <1>1, SnapshotStays DEF IInv, history, Past
<1>7. WorkInv'
  BY <1>1, <1>2, WorkersStay DEF IInv
<1>8. RestoredInv'
  BY <1>2, RestoredStays DEF IInv, DbAdds, office, history, Past
<1> QED
  BY <1>3, <1>4, <1>5, <1>6, <1>7, <1>8 DEF IInv

LEMMA DatabaseIsRecord ==
  ASSUME IInv
  PROVE  Database(db)
BY DEF IInv, DbInv, DbOK

LEMMA SetupKeepsIInv ==
  ASSUME IInv, SetupMode \/ Enroll \/ SetupMaster \/ Login
  PROVE  IInv'
<1>1. UNCHANGED <<snapshot, post, submitting, work, office, items, authors, history>>
  BY DEF SetupMode, Enroll, SetupMaster, Login, ids, history, Past, office
<1>2. Database(db)
  BY DatabaseIsRecord
<1>3. PICK to : \/ db' = [db EXCEPT !.ready = to] \/ db' = [db EXCEPT !.enrolled = to]
                \/ db' = [db EXCEPT !.master = to] \/ db' = db
  BY DEF SetupMode, Enroll, SetupMaster, Login
<1>4. /\ Database(db') /\ db'.versions = db.versions /\ db'.wall = db.wall
      /\ db'.outbox = db.outbox /\ db'.chatCursor = db.chatCursor
      /\ db'.restoreCursor = db.restoreCursor
  BY <1>2, <1>3 DEF Database
<1> QED
  BY <1>1, <1>4, SetsUp

LEMMA NewestIsLargest ==
  ASSUME DbInv, Newest # 0
  PROVE  /\ Newest \in DOMAIN db.versions /\ Newest \in Nat
         /\ \A n \in DOMAIN db.versions : n \in Nat /\ n <= Newest
<1>1. Bounded(DOMAIN db.versions)
  BY DEF DbInv, DbOK
<1>2. DOMAIN db.versions # {} /\ Newest = Max(DOMAIN db.versions)
  BY DEF Newest
<1>3. Newest \in DOMAIN db.versions /\ \A n \in DOMAIN db.versions : n <= Newest
  BY <1>1, <1>2, MaxIsLargest
<1> QED
  BY <1>1, <1>3 DEF Bounded

LEMMA StartCorrectionKeepsIInv ==
  ASSUME IInv, StartCorrection
  PROVE  IInv'
<1>1. /\ UNCHANGED <<snapshot, post, submitting, work, office, ids, history>>
      /\ Newest # 0
      /\ db' = [db EXCEPT !.versions =
                  Put(db.versions, Newest + 1, [data |-> edits', state |-> "draft"])]
  BY DEF StartCorrection
<1>2. Database(db) /\ DbOK(db, unqueued \cup {post}, Rows, chat, Past)
  BY DatabaseIsRecord DEF IInv, DbInv
<1> DEFINE n0 == Newest
<1>3. /\ n0 \in Nat /\ n0 + 1 \notin DOMAIN db.versions
      /\ \A n \in DOMAIN db.versions : n \in Nat /\ n <= n0
  BY <1>1, NewestIsLargest DEF IInv
<1> HIDE DEF n0
<1>4. /\ Database(db') /\ db'.wall = db.wall /\ db'.outbox = db.outbox
      /\ db'.chatCursor = db.chatCursor /\ db'.restoreCursor = db.restoreCursor
      /\ DOMAIN db'.versions = DOMAIN db.versions \cup {n0 + 1}
      /\ \A n \in DOMAIN db.versions : n # n0 + 1 => db'.versions[n] = db.versions[n]
  BY <1>1, <1>2 DEF Database, Put, n0
<1>5. Adds
  BY <1>1, AddsNothing DEF IInv, office, history, Past, ids
<1>6. DbAdds
  <2>1. KeptIn(db, db')
    BY <1>3, <1>4 DEF KeptIn, Kept
  <2> QED
    BY <1>4, <2>1 DEF DbAdds
<1>7. WordsInv'
  <2>1. Rows' = Rows
    BY <1>1 DEF Rows, Row, ChatMessageToDomain, ids
  <2> QED
    BY <1>1, <2>1 DEF IInv, WordsInv, office, ids
<1>8. ItemsInv'
  <2>1. Known' = Known
    BY <1>1, <1>4 DEF Known, Sent
  <2> QED
    BY <1>1, <1>5, <2>1, ItemsStay DEF IInv, office, ids
<1>9. DbInv'
  <2>1. DbOK(db, unqueued' \cup {post'}, Rows', chat', Past')
    BY <1>1, <1>2, <1>5, DbStays DEF Adds, history, Past
  <2>2. Bounded(DOMAIN db'.versions)
    <3>1. n0 + 1 \in Nat /\ \A n \in DOMAIN db'.versions : n \in Nat /\ n <= n0 + 1
      BY <1>3, <1>4
    <3> QED
      BY <3>1 DEF Bounded
  <2> QED
    BY <1>4, <2>1, <2>2 DEF DbInv, DbOK, WallOK
<1>10. SnapshotInv'
  BY <1>1, <1>5, SnapshotStays DEF IInv, history, Past
<1>11. WorkInv'
  BY <1>1, <1>5, <1>6, WorkersStay DEF IInv
<1>12. RestoredInv'
  BY <1>1, <1>6, RestoredStays DEF IInv, DbAdds, office, history, Past
<1> QED
  BY <1>7, <1>8, <1>9, <1>10, <1>11, <1>12 DEF IInv

LEMMA SubmitReportKeepsIInv ==
  ASSUME IInv, SubmitReport
  PROVE  IInv'
<1> DEFINE n0 == Newest
           now == Put(db.versions, n0, [db.versions[n0] EXCEPT !.state = "submitted"])
<1>1. /\ UNCHANGED <<snapshot, post, work, office, items, authors, history>>
      /\ n0 # 0 /\ db.versions[n0].state = "draft" /\ submitting' = n0
      /\ db' = [db EXCEPT !.versions = now]
  BY DEF SubmitReport, ids
<1>2. Database(db) /\ DbOK(db, unqueued \cup {post}, Rows, chat, Past)
  BY DatabaseIsRecord DEF IInv, DbInv
<1>3. n0 \in Nat /\ n0 \in DOMAIN db.versions
  BY <1>1, NewestIsLargest DEF IInv
<1>5. DOMAIN now = DOMAIN db.versions /\ \A n \in DOMAIN now : n # n0 => now[n] = db.versions[n]
  BY <1>3 DEF Put
<1> HIDE DEF n0, now
<1>7. /\ Database(db') /\ db'.wall = db.wall /\ db'.outbox = db.outbox
      /\ db'.chatCursor = db.chatCursor /\ db'.restoreCursor = db.restoreCursor
      /\ db'.versions = now
  BY <1>1, <1>2 DEF Database
<1>8. Adds
  BY <1>1, AddsNothing DEF IInv, office, history
<1>9. DbAdds
  <2>1. KeptIn(db, db')
    BY <1>1, <1>5, <1>7 DEF KeptIn, Kept
  <2> QED
    BY <1>7, <2>1 DEF DbAdds
<1>10. WordsInv'
  <2>1. Rows' = Rows
    BY <1>1 DEF Rows, Row, ChatMessageToDomain
  <2> QED
    BY <1>1, <1>3, <2>1 DEF IInv, WordsInv, office
<1>11. ItemsInv'
  <2>1. Known' = Known
    BY <1>1, <1>7 DEF Known, Sent
  <2> QED
    BY <1>1, <1>8, <2>1, ItemsStay DEF IInv, office
<1>12. DbInv'
  <2>1. DbOK(db, unqueued' \cup {post'}, Rows', chat', Past')
    BY <1>1, <1>2, <1>8, DbStays DEF Adds, history
  <2> QED
    BY <1>5, <1>7, <2>1 DEF DbInv, DbOK, WallOK
<1>13. SnapshotInv'
  BY <1>1, <1>8, SnapshotStays DEF IInv, history
<1>14. WorkInv'
  BY <1>1, <1>8, <1>9, WorkersStay DEF IInv
<1>15. RestoredInv'
  BY <1>1, <1>9, RestoredStays DEF IInv, DbAdds, office, history
<1> QED
  BY <1>10, <1>11, <1>12, <1>13, <1>14, <1>15 DEF IInv

LEMMA EnqueueReportVersionKeepsIInv ==
  ASSUME IInv, EnqueueReportVersion
  PROVE  IInv'
<1> DEFINE item == [id |-> items + 1, body |-> [kind |-> "version", no |-> submitting]]
<1>1. /\ UNCHANGED <<snapshot, post, work, office, authors, history>>
      /\ submitting' = 0 /\ items' = items + 1
      /\ db' = [db EXCEPT !.outbox = Append(db.outbox, item)]
  BY DEF EnqueueReportVersion, Queued
<1>2. Database(db) /\ DbOK(db, unqueued \cup {post}, Rows, chat, Past) /\ submitting \in Nat
  BY DatabaseIsRecord DEF IInv, DbInv, WordsInv
<1>3. item.id = items + 1 /\ item.body.kind = "version" /\ item.body.no = submitting
  OBVIOUS
<1> HIDE DEF item
<1>4. /\ Queue(Append(db.outbox, item))
      /\ Told(Append(db.outbox, item)) = Told(db.outbox) \cup {<<items + 1, 0>>}
  <2>1. Queue(db.outbox) /\ Message(item) = 0 /\ Item(item)
    BY <1>2, <1>3 DEF DbOK, Message, Item
  <2> QED
    BY <1>3, <2>1, Appended
<1>5. /\ Database(db') /\ db'.wall = db.wall /\ db'.outbox = Append(db.outbox, item)
      /\ db'.chatCursor = db.chatCursor /\ db'.restoreCursor = db.restoreCursor
      /\ db'.versions = db.versions
  BY <1>1, <1>2 DEF Database
<1>6. Adds
  BY <1>1, AddsNothing DEF IInv, office, history
<1>7. DbAdds
  BY <1>5, SameVersionsKept DEF DbAdds
<1>8. WordsInv'
  <2>1. Rows' = Rows
    BY <1>1 DEF Rows, Row, ChatMessageToDomain
  <2> QED
    BY <1>1, <2>1 DEF IInv, WordsInv, office
<1>9. ItemsInv'
  <2>1. Known' \subseteq Known \cup {<<items + 1, 0>>}
    BY <1>1, <1>4, <1>5 DEF Known, Sent
  <2> QED
    BY <1>1, <1>6, <2>1, ItemQueued DEF IInv, office
<1>10. DbInv'
  <2>1. DbOK(db, unqueued' \cup {post'}, Rows', chat', Past')
    BY <1>1, <1>2, <1>6, DbStays DEF Adds, history
  <2> QED
    BY <1>4, <1>5, <2>1 DEF DbInv, DbOK, WallOK
<1>11. SnapshotInv'
  BY <1>1, <1>6, SnapshotStays DEF IInv, history
<1>12. WorkInv'
  BY <1>1, <1>6, <1>7, WorkersStay DEF IInv
<1>13. RestoredInv'
  BY <1>1, <1>7, RestoredStays DEF IInv, DbAdds, office, history
<1> QED
  BY <1>8, <1>9, <1>10, <1>11, <1>12, <1>13 DEF IInv

-----------------------------------------------------------------------------
(* The chat walls. *)

\* A new author: what the others wrote stays theirs.
LEMMA AuthorAdded ==
  ASSUME WordsInv, NEW by \in {"vessel", "office"}, authors' = Append(authors, by)
  PROVE  /\ Len(authors') = Len(authors) + 1 /\ Len(authors') \in DOMAIN authors'
         /\ Len(authors') \in Nat \ {0} /\ authors'[Len(authors')] = by
         /\ authors' \in Seq({"vessel", "office"})
         /\ \A id \in DOMAIN authors : id \in DOMAIN authors' /\ authors'[id] = authors[id]
         /\ Rows \subseteq Rows'
         /\ [id |-> Len(authors'), by |-> by] \in Rows'
<1>1. authors \in Seq({"vessel", "office"})
  BY DEF WordsInv
<1>2. Len(authors) \in Nat /\ DOMAIN authors = 1..Len(authors)
  BY <1>1
<1>3. /\ authors' \in Seq({"vessel", "office"}) /\ Len(authors') = Len(authors) + 1
      /\ DOMAIN authors' = 1..(Len(authors) + 1) /\ authors'[Len(authors) + 1] = by
      /\ \A id \in 1..Len(authors) : authors'[id] = authors[id]
  BY <1>1
<1>4. \A id \in DOMAIN authors : id \in DOMAIN authors' /\ authors'[id] = authors[id]
  BY <1>2, <1>3
<1>5. \A id \in DOMAIN authors : Row(id) = [id |-> id, by |-> authors[id]]
  BY DEF Row, ChatMessageToDomain
<1>6. \A id \in DOMAIN authors' : [id |-> id, by |-> authors'[id]] \in Rows'
  BY DEF Rows, Row, ChatMessageToDomain
<1>7. Rows \subseteq Rows'
  BY <1>4, <1>5, <1>6 DEF Rows
<1>8. Len(authors') \in DOMAIN authors' /\ Len(authors') \in Nat \ {0}
  BY <1>2, <1>3
<1> QED
  BY <1>3, <1>4, <1>6, <1>7, <1>8

LEMMA InsertChatMessageKeepsIInv ==
  ASSUME IInv, InsertChatMessage
  PROVE  IInv'
<1> DEFINE new == Len(authors')
<1>1. /\ UNCHANGED <<snapshot, submitting, work, office, items, history>>
      /\ post = 0 /\ authors' = Append(authors, "vessel") /\ post' = new
      /\ db' = [db EXCEPT !.wall = db.wall \cup {[id |-> new, by |-> "vessel"]}]
  BY DEF InsertChatMessage, NewChatMessage
<1>2. Database(db) /\ DbOK(db, unqueued \cup {post}, Rows, chat, Past)
  BY DatabaseIsRecord DEF IInv, DbInv
<1>3. /\ new \in DOMAIN authors' /\ new \in Nat \ {0} /\ authors'[new] = "vessel"
      /\ authors' \in Seq({"vessel", "office"})
      /\ \A id \in DOMAIN authors : id \in DOMAIN authors' /\ authors'[id] = authors[id]
      /\ Rows \subseteq Rows'
      /\ [id |-> new, by |-> "vessel"] \in Rows'
  BY <1>1, AuthorAdded DEF IInv
<1> HIDE DEF new
<1>4. PICK row : row = [id |-> new, by |-> "vessel"]
  OBVIOUS
<1>5. /\ Database(db') /\ db'.wall = db.wall \cup {row} /\ db'.outbox = db.outbox
      /\ db'.chatCursor = db.chatCursor /\ db'.restoreCursor = db.restoreCursor
      /\ db'.versions = db.versions
  BY <1>1, <1>2, <1>4 DEF Database
<1>6. Adds
  <2>1. Extends(chat, chat')
    BY <1>1, ChatGoesOn DEF IInv, office
  <2> QED
    BY <1>1, <1>3, <2>1 DEF Adds, history, Past, Grown
<1>7. DbAdds
  BY <1>5, SameVersionsKept DEF DbAdds
<1>8. WordsInv'
  <2>1. chat \in Seq(Rows) /\ chat' = chat
    BY <1>1 DEF IInv, WordsInv, office
  <2>2. chat \in Seq(Rows')
    <3>1. Len(chat) \in Nat /\ chat \in [1..Len(chat) -> Rows]
      BY <2>1
    <3>2. chat \in [1..Len(chat) -> Rows']
      BY <1>3, <3>1
    <3> QED
      BY <3>1, <3>2, SeqDef
  <2> QED
    BY <1>1, <1>3, <2>1, <2>2 DEF IInv, WordsInv
<1>9. ItemsInv'
  <2>1. Known' = Known
    BY <1>1, <1>5 DEF Known, Sent
  <2> QED
    BY <1>1, <1>6, <2>1, ItemsStay DEF IInv, office
<1>10. DbInv'
  <2>1. DbOK(db, unqueued' \cup {post}, Rows', chat', Past')
    <3>1. \A id \in unqueued \cup {post} : id \in unqueued' \cup {post}
      BY <1>1 DEF history, Past
    <3> QED
      BY <1>2, <1>6, <3>1, DbStays DEF Adds
  <2>2. db'.wall \subseteq Rows'
    BY <1>3, <1>4, <1>5, <2>1 DEF DbOK, WallOK
  <2>3. Heard(chat', db'.wall, db'.chatCursor, Past'.missed)
    BY <1>5, <2>1 DEF DbOK, WallOK, Heard
  <2>4. ASSUME NEW r \in db'.wall, r.by = "vessel"
        PROVE  \/ Says(chat', r.id) \/ r.id \in unqueued' \cup {post'}
               \/ \E x \in Told(db'.outbox) : x[2] = r.id
    <3>1. CASE r = row
      BY <1>1, <1>4, <3>1
    <3>2. CASE r \in db.wall
      <4>1. \/ Says(chat', r.id) \/ r.id \in unqueued' \cup {post}
            \/ \E x \in Told(db.outbox) : x[2] = r.id
        BY <2>1, <2>4, <3>2 DEF DbOK, WallOK
      <4>2. CASE r.id = post
        <5>1. r \in Rows
          BY <1>2, <3>2 DEF DbOK, WallOK
        <5>2. PICK id \in DOMAIN authors : r = [id |-> id, by |-> authors[id]]
          BY <5>1 DEF Rows, Row, ChatMessageToDomain
        <5>3. id \in Nat \ {0} /\ r.id = id
          BY <5>2 DEF IInv, WordsInv
        <5> QED
          BY <1>1, <4>2, <5>3
      <4> QED
        BY <1>5, <4>1, <4>2
    <3> QED
      BY <1>5, <3>1, <3>2
  <2>5. WallOK(db', unqueued' \cup {post'}, Rows', chat', Past')
    BY <2>2, <2>3, <2>4 DEF WallOK
  <2> QED
    BY <1>5, <2>1, <2>5 DEF DbInv, DbOK
<1>11. SnapshotInv'
  BY <1>1, <1>6, SnapshotStays DEF IInv, history, Past
<1>12. WorkInv'
  BY <1>1, <1>6, <1>7, WorkersStay DEF IInv
<1>13. RestoredInv'
  BY <1>1, <1>7, RestoredStays DEF IInv, DbAdds, office, history, Past
<1> QED
  BY <1>8, <1>9, <1>10, <1>11, <1>12, <1>13 DEF IInv

LEMMA EnqueueChatMessageKeepsIInv ==
  ASSUME IInv, EnqueueChatMessage
  PROVE  IInv'
<1> DEFINE item == [id |-> items + 1, body |-> [kind |-> "chat", message |-> post]]
<1>1. /\ UNCHANGED <<snapshot, submitting, work, office, authors, history>>
      /\ post # 0 /\ post' = 0 /\ items' = items + 1
      /\ db' = [db EXCEPT !.outbox = Append(db.outbox, item)]
  BY DEF EnqueueChatMessage, Queued
<1>2. Database(db) /\ DbOK(db, unqueued \cup {post}, Rows, chat, Past)
  BY DatabaseIsRecord DEF IInv, DbInv
<1>3. item.id = items + 1 /\ item.body.kind = "chat" /\ item.body.message = post
  OBVIOUS
<1> HIDE DEF item
<1>4. PICK z : z = <<items + 1, post>>
  OBVIOUS
<1>5. Queue(Append(db.outbox, item)) /\ Told(Append(db.outbox, item)) = Told(db.outbox) \cup {z}
  <2>1. Queue(db.outbox) /\ Message(item) = post /\ Item(item)
    BY <1>1, <1>2, <1>3 DEF DbOK, Message, Item
  <2> QED
    BY <1>3, <1>4, <2>1, Appended
<1>6. /\ Database(db') /\ db'.wall = db.wall /\ db'.outbox = Append(db.outbox, item)
      /\ db'.chatCursor = db.chatCursor /\ db'.restoreCursor = db.restoreCursor
      /\ db'.versions = db.versions
  BY <1>1, <1>2 DEF Database
<1>7. Adds
  BY <1>1, AddsNothing DEF IInv, office, history, Past
<1>8. DbAdds
  BY <1>6, SameVersionsKept DEF DbAdds
<1>9. WordsInv'
  <2>1. Rows' = Rows
    BY <1>1 DEF Rows, Row, ChatMessageToDomain
  <2> QED
    BY <1>1, <2>1 DEF IInv, WordsInv, office
<1>10. ItemsInv'
  <2>1. Known' \subseteq Known \cup {z}
    BY <1>1, <1>5, <1>6 DEF Known, Sent
  <2>2. post \in DOMAIN authors /\ authors[post] = "vessel"
    BY <1>1 DEF IInv, WordsInv
  <2> QED
    BY <1>1, <1>4, <1>7, <2>1, <2>2, ItemQueued DEF IInv, office
<1>11. DbInv'
  <2>1. DbOK(db, unqueued' \cup {post}, Rows', chat', Past')
    BY <1>1, <1>2, <1>7, DbStays DEF Adds, history, Past
  <2>2. z[2] = post /\ z \in Told(db'.outbox)
    BY <1>4, <1>5, <1>6
  <2>3. ASSUME NEW r \in db'.wall, r.by = "vessel"
        PROVE  \/ Says(chat', r.id) \/ r.id \in unqueued' \cup {post'}
               \/ \E x \in Told(db'.outbox) : x[2] = r.id
    <3>1. \/ Says(chat', r.id) \/ r.id \in unqueued' \cup {post}
          \/ \E x \in Told(db.outbox) : x[2] = r.id
      BY <1>6, <2>1, <2>3 DEF DbOK, WallOK
    <3>2. CASE r.id = post
      BY <2>2, <3>2
    <3> QED
      BY <1>5, <1>6, <3>1, <3>2
  <2>4. WallOK(db', unqueued' \cup {post'}, Rows', chat', Past')
    BY <1>6, <2>1, <2>3 DEF DbOK, WallOK
  <2> QED
    BY <1>5, <1>6, <2>1, <2>4 DEF DbInv, DbOK
<1>12. SnapshotInv'
  BY <1>1, <1>7, SnapshotStays DEF IInv, history, Past
<1>13. WorkInv'
  BY <1>1, <1>7, <1>8, WorkersStay DEF IInv
<1>14. RestoredInv'
  BY <1>1, <1>8, RestoredStays DEF IInv, DbAdds, office, history, Past
<1> QED
  BY <1>9, <1>10, <1>11, <1>12, <1>13, <1>14 DEF IInv

\* What is appended to the office's messages goes after them.
LEMMA ChatAppended ==
  ASSUME NEW rows, NEW rows2, rows \subseteq rows2, NEW said \in Seq(rows),
         NEW more \in Seq(rows2)
  PROVE  said \o more \in Seq(rows2) /\ Extends(said, said \o more)
<1>1. Len(said) \in Nat /\ Len(more) \in Nat
  OBVIOUS
<1>2. said \in Seq(rows2)
  <2>1. said \in [1..Len(said) -> rows]
    OBVIOUS
  <2>2. said \in [1..Len(said) -> rows2]
    BY <2>1
  <2> QED
    BY <1>1, <2>2, SeqDef
<1>3. /\ said \o more \in Seq(rows2) /\ Len(said \o more) = Len(said) + Len(more)
      /\ \A i \in 1..Len(said) : (said \o more)[i] = said[i]
  BY <1>2
<1>4. \A s \in Seq(rows2) : s \in Seq(ToSet(s))
  <2>1. SUFFICES ASSUME NEW s \in Seq(rows2) PROVE s \in Seq(ToSet(s))
    OBVIOUS
  <2>2. DOMAIN s = 1..Len(s) /\ Len(s) \in Nat /\ s = [i \in 1..Len(s) |-> s[i]]
    OBVIOUS
  <2>3. ToSet(s) = {s[i] : i \in DOMAIN s}
    BY DEF ToSet
  <2> QED
    BY <2>2, <2>3, ListIsSequence
<1>5. said \in Seq(ToSet(said)) /\ (said \o more) \in Seq(ToSet(said \o more))
  BY <1>2, <1>3, <1>4
<1>6. Len(said) <= Len(said \o more)
  BY <1>1, <1>3
<1> QED
  BY <1>3, <1>5, <1>6 DEF Extends

\* The office has more messages, and nothing aboard changes.
LEMMA ChatGrowsKeepsIInv ==
  ASSUME IInv, Adds, UNCHANGED <<vessel, items, receipts, landed, commands, history>>,
         Known' \subseteq Known, WordsInv', WorkInv'
  PROVE  IInv'
<1>1. ItemsInv'
  BY ItemsStay DEF IInv
<1>2. DbInv'
  BY DatabaseStays DEF IInv, vessel, history, Past
<1>3. SnapshotInv'
  BY SnapshotStays DEF IInv, vessel, history, Past
<1>4. KeptIn(db, db')
  BY SameVersionsKept DEF vessel
<1>5. RestoredInv'
  BY <1>4, RestoredStays DEF IInv, history, Past
<1> QED
  BY <1>1, <1>2, <1>3, <1>5 DEF IInv

LEMMA PostFromOfficeKeepsIInv ==
  ASSUME IInv, PostFromOffice
  PROVE  IInv'
<1> DEFINE new == Len(authors')
<1>1. /\ UNCHANGED <<vessel, work, receipts, landed, commands, items, history>>
      /\ authors' = Append(authors, "office")
      /\ chat' = Append(chat, [id |-> new, by |-> "office"])
  BY DEF PostFromOffice, NewChatMessage, orders
<1>2. /\ authors' \in Seq({"vessel", "office"})
      /\ \A id \in DOMAIN authors : id \in DOMAIN authors' /\ authors'[id] = authors[id]
      /\ Rows \subseteq Rows'
      /\ [id |-> new, by |-> "office"] \in Rows'
  BY <1>1, AuthorAdded DEF IInv
<1> HIDE DEF new
<1>3. PICK row : row = [id |-> new, by |-> "office"]
  OBVIOUS
<1>4. chat' \in Seq(Rows') /\ Extends(chat, chat')
  <2>1. chat \in Seq(Rows) /\ <<row>> \in Seq(Rows')
    BY <1>2, <1>3 DEF IInv, WordsInv
  <2>2. chat' = chat \o <<row>>
    BY <1>1, <1>3, <2>1
  <2> QED
    BY <1>2, <2>1, <2>2, ChatAppended
<1>5. Adds
  BY <1>1, <1>2, <1>4 DEF Adds, history, Past, Grown
<1>6. WordsInv'
  BY <1>1, <1>2, <1>4 DEF IInv, WordsInv, vessel
<1>7. Known' \subseteq Known
  BY <1>1 DEF Known, Sent, vessel
<1>8. WorkInv'
  <2>1. DbAdds
    BY <1>1, SameVersionsKept DEF DbAdds, vessel
  <2> QED
    BY <1>1, <1>5, <2>1, WorkersStay DEF IInv
<1> QED
  BY <1>1, <1>5, <1>6, <1>7, <1>8, ChatGrowsKeepsIInv

\* The office's tables are as they were, but for what is committed.
LEMMA CommitsKeepIInv ==
  ASSUME IInv, UNCHANGED <<vessel, work, chat, receipts, landed, commands, ids, history>>
  PROVE  IInv'
<1>1. Rows' = Rows /\ Past' = Past
  BY DEF Rows, Row, ChatMessageToDomain, ids, history, Past
<1>2. Known' = Known
  BY DEF Known, Sent, vessel
<1>3. WordsInv'
  BY <1>1 DEF IInv, WordsInv, ids, vessel
<1>4. ItemsInv'
  BY <1>2 DEF IInv, ItemsInv, ItemOK, ids
<1>5. DbInv' /\ SnapshotInv'
  BY <1>1 DEF IInv, DbInv, SnapshotInv, vessel, history
<1>6. WorkInv'
  BY <1>1 DEF IInv, WorkInv, vessel
<1>7. RestoredInv'
  BY DEF IInv, RestoredInv, vessel, history
<1> QED
  BY <1>3, <1>4, <1>5, <1>6, <1>7 DEF IInv

\* A step of a worker that writes nothing to the databases but what has been
\* executed.
LEMMA WorkerMovesKeepsIInv ==
  ASSUME IInv,
         UNCHANGED <<db, snapshot, post, submitting, chat, receipts, items, authors, unqueued>>,
         Grown(Past, Past'), RestoredInv',
         NEW w \in Workers, NEW to, Go(w, to), SentBy(to) \subseteq Known,
         WorkOK(w, to, Rows, chat, db, Past')
  PROVE  IInv'
<1>1. Rows' = Rows
  BY DEF Rows, Row, ChatMessageToDomain
<1>2. Adds
  BY <1>1, ChatGoesOn DEF IInv, Adds
<1>3. WordsInv'
  BY <1>1 DEF IInv, WordsInv
<1>4. DbAdds
  BY SameVersionsKept DEF DbAdds
<1>5. WorkInv'
  <2>1. WorkOK(w, to, Rows', chat', db', Past')
    BY <1>1
  <2> QED
    BY <1>2, <1>4, <2>1, WorkerGoes DEF IInv
<1>6. ItemsInv'
  <2>1. Told(db'.outbox) \subseteq Known
    BY DEF Known
  <2>2. Known' \subseteq Known \cup {}
    BY <2>1, KnownWhenGoing DEF IInv
  <2> QED
    BY <1>2, <2>2, ItemsStay DEF IInv
<1>7. DbInv'
  BY <1>2, DatabaseStays DEF IInv
<1>8. SnapshotInv'
  BY <1>2, SnapshotStays DEF IInv
<1> QED
  BY <1>3, <1>5, <1>6, <1>7, <1>8 DEF IInv

LEMMA WorkerOnlyKeepsIInv ==
  ASSUME IInv, UNCHANGED <<db, snapshot, post, submitting, office, items, authors, history>>,
         NEW w \in Workers, NEW to, Go(w, to), SentBy(to) \subseteq Known,
         WorkOK(w, to, Rows, chat, db, Past)
  PROVE  IInv'
<1>1. RestoredInv'
  BY DEF IInv, RestoredInv, office, history
<1> QED
  BY <1>1, WorkerMovesKeepsIInv DEF office, history, Past, Grown

LEMMA QueueRestoreCommandKeepsIInv ==
  ASSUME IInv, QueueRestoreCommand
  PROVE  IInv'
<1>1. /\ UNCHANGED <<vessel, work, chat, receipts, landed, ids, history>>
      /\ commands' = Append(commands, [applied |-> FALSE])
  BY DEF QueueRestoreCommand, messages
<1>2. Rows' = Rows
  BY <1>1 DEF Rows, Row, ChatMessageToDomain, ids
<1>3. Known' = Known
  BY <1>1 DEF Known, Sent, vessel
<1>4. WordsInv' /\ ItemsInv' /\ DbInv' /\ SnapshotInv' /\ WorkInv'
  <2>1. WordsInv'
    BY <1>1, <1>2 DEF IInv, WordsInv, ids, vessel
  <2>2. ItemsInv'
    BY <1>1, <1>3 DEF IInv, ItemsInv, ItemOK, ids
  <2>3. DbInv' /\ SnapshotInv'
    BY <1>1, <1>2 DEF IInv, DbInv, SnapshotInv, vessel, history, Past
  <2>4. WorkInv'
    BY <1>1, <1>2 DEF IInv, WorkInv, vessel, history, Past
  <2> QED
    BY <2>1, <2>2, <2>3, <2>4
<1>5. RestoredInv'
  <2> SUFFICES ASSUME NEW i \in DOMAIN commands', commands'[i].applied
               PROVE  i \in executed'
    BY <1>1 DEF IInv, RestoredInv, vessel, history, Past
  <2>1. commands \in Seq([applied : BOOLEAN]) /\ [applied |-> FALSE] \in [applied : BOOLEAN]
    BY DEF IInv, RestoredInv
  <2>2. Len(commands) \in Nat /\ DOMAIN commands = 1..Len(commands)
    BY <2>1
  <2>3. /\ DOMAIN commands' = 1..(Len(commands) + 1)
        /\ commands'[Len(commands) + 1] = [applied |-> FALSE]
        /\ \A j \in 1..Len(commands) : commands'[j] = commands[j]
    BY <1>1, <2>1
  <2>4. i \in DOMAIN commands /\ commands[i].applied
    <3>1. i # Len(commands) + 1
      BY <2>3
    <3> QED
      BY <2>2, <2>3, <3>1
  <2> QED
    BY <1>1, <2>4 DEF IInv, RestoredInv, history, Past
<1> QED
  BY <1>4, <1>5 DEF IInv

-----------------------------------------------------------------------------
(* Workers that only move on. *)

\* What is known of a cycle by its stage.
LEMMA CycleStages ==
  ASSUME WorkInv, NEW c \in Cycles
  PROVE  LET x == work[c] IN
         /\ c \in Workers /\ c # "import" /\ CycleOK(x, Rows, chat, db, Past)
         /\ x.stage = "push" =>
              x = [stage |-> "push", open |-> x.open, batch |-> x.batch] /\ Queue(x.batch)
         /\ x.stage = "pull" => x = [stage |-> "pull"]
         /\ x.stage \in {"restore", "stopped", "apply", "applied"} =>
              PulledOK(x, Rows, chat, db, Past)
         /\ x.stage \in {"apply", "applied"} => RestoreOK(x, chat, db)
         /\ x.stage = "report" =>
              x = [stage |-> "report", ids |-> x.ids] /\ x.ids \subseteq Past.executed
<1> DEFINE x == work[c]
<1>1. c \in Workers /\ c # "import"
  BY CyclesAssumption DEF Workers
<1>2. WorkOK(c, x, Rows, chat, db, Past)
  BY <1>1 DEF WorkInv
<1>3. CycleOK(x, Rows, chat, db, Past)
  BY <1>1, <1>2 DEF WorkOK
<1> HIDE DEF x
<1>4. /\ x = Rest => x.stage = "rest"
      /\ x = [stage |-> "push", open |-> x.open, batch |-> x.batch] => x.stage = "push"
      /\ x = [stage |-> "pull"] => x.stage = "pull"
      /\ x = [stage |-> "report", ids |-> x.ids] => x.stage = "report"
  BY DEF Rest
<1>5. /\ x.stage = "push" =>
           x = [stage |-> "push", open |-> x.open, batch |-> x.batch] /\ Queue(x.batch)
      /\ x.stage = "pull" => x = [stage |-> "pull"]
      /\ x.stage \in {"restore", "stopped", "apply", "applied"} =>
           PulledOK(x, Rows, chat, db, Past)
      /\ x.stage \in {"apply", "applied"} => RestoreOK(x, chat, db)
      /\ x.stage = "report" =>
           x = [stage |-> "report", ids |-> x.ids] /\ x.ids \subseteq Past.executed
  BY <1>3, <1>4 DEF CycleOK
<1> QED
  BY <1>1, <1>3, <1>5 DEF x

\* A bundle as it was built.
LEMMA BundleIsWhole ==
  ASSUME RestoredInv, NEW x, x.bundle = BuildBundle, x.asOf = landed, x.stage = "apply"
  PROVE  RestoreOK(x, chat, db)
BY DEF RestoredInv, RestoreOK, BuildBundle, Wall, ToSet

LEMMA ImportKeepsIInv ==
  ASSUME IInv, ImportRestoreBundle
  PROVE  IInv'
<1> DEFINE to == [stage |-> "apply", bundle |-> BuildBundle, asOf |-> landed]
<1>1. UNCHANGED <<vessel, office, ids, history>> /\ Go("import", to)
  BY DEF ImportRestoreBundle, GenerateRestoreBundle
<1>2. /\ to.stage = "apply" /\ to.bundle = BuildBundle /\ to.asOf = landed
      /\ to = [stage |-> to.stage, bundle |-> to.bundle, asOf |-> to.asOf]
  OBVIOUS
<1> HIDE DEF to
<1>3. WorkOK("import", to, Rows, chat, db, Past)
  BY <1>2, BundleIsWhole DEF IInv, WorkOK, ImportOK
<1>4. SentBy(to) = {} /\ "import" \in Workers
  BY <1>2, NothingSent DEF Workers
<1> QED
  BY <1>1, <1>3, <1>4, WorkerOnlyKeepsIInv DEF vessel, ids

LEMMA BeginCycleKeepsIInv ==
  ASSUME IInv, NEW c \in Cycles, BeginCycle(c)
  PROVE  IInv'
<1> DEFINE batch == [i \in DOMAIN db.outbox |-> Payload(db.outbox[i])]
           to == [stage |-> "push", open |-> TRUE, batch |-> batch]
<1>1. UNCHANGED <<vessel, office, ids, history>> /\ Go(c, to)
  BY DEF BeginCycle
<1>2. Queue(batch) /\ Told(batch) = Told(db.outbox)
  <2>1. Queue(db.outbox)
    BY DEF IInv, DbInv, DbOK
  <2> QED
    BY <2>1, PayloadSays
<1> HIDE DEF batch
<1>3. to = [stage |-> "push", open |-> to.open, batch |-> to.batch] /\ to.stage = "push"
      /\ to.batch = batch
  OBVIOUS
<1> HIDE DEF to
<1>4. c \in Workers /\ WorkOK(c, to, Rows, chat, db, Past)
  BY <1>2, <1>3, CycleStages DEF IInv, WorkOK, CycleOK
<1>5. SentBy(to) \subseteq Known
  BY <1>2, <1>3 DEF SentBy, Known
<1> QED
  BY <1>1, <1>4, <1>5, WorkerOnlyKeepsIInv DEF vessel, ids

\* The cursor after a stream's rows.
LEMMA LastOf ==
  ASSUME NEW n \in Nat, NEW S \in SUBSET (1..n), NEW cursor \in Nat
  PROVE  LET k == Max(S \cup {cursor}) IN
         k \in Nat /\ k \in S \cup {cursor} /\ \A i \in S \cup {cursor} : i <= k
<1>1. n + cursor \in Nat /\ \A i \in S \cup {cursor} : i \in Nat /\ i <= n + cursor
  OBVIOUS
<1>2. Bounded(S \cup {cursor})
  BY <1>1 DEF Bounded
<1> QED
  BY <1>1, <1>2, MaxIsLargest

LEMMA PullInboxKeepsIInv ==
  ASSUME IInv, NEW c \in Cycles, PullInbox(c)
  PROVE  IInv'
<1> DEFINE new == Beyond(db.chatCursor)
           heard == {ChatMessageToDomain(chat[i].id, "office") : i \in new}
           upTo == Max(new \cup {db.chatCursor})
           todo == ListRestoreCommandsSince(db.restoreCursor)
           last == Max(todo \cup {db.restoreCursor})
           to == [stage |-> "restore", ids |-> {}, said |-> heard,
                  next |-> upTo, unsaid |-> (1..upTo) \cap unsaid,
                  todo |-> todo, last |-> last, unasked |-> (1..last) \cap unasked,
                  bundle |-> NoBundle, asOf |-> <<>>]
<1>1. UNCHANGED <<vessel, office, ids, history>> /\ Go(c, to)
  BY DEF PullInbox
<1>2. /\ chat \in Seq(Rows) /\ Len(chat) \in Nat /\ DOMAIN chat = 1..Len(chat)
      /\ Heard(chat, db.wall, db.chatCursor, missed)
      /\ Executed(db.restoreCursor, executed \cup skipped)
  BY DEF IInv, WordsInv, DbInv, DbOK, WallOK, Past
<1>3. db.chatCursor \in 0..Len(chat) /\ db.chatCursor \in Nat /\ db.restoreCursor \in Nat
  BY <1>2 DEF Heard, Executed
<1>4. upTo \in new \cup {db.chatCursor} /\ \A n \in new \cup {db.chatCursor} : n <= upTo
  <2>1. new \in SUBSET (1..Len(chat))
    BY <1>2 DEF Beyond
  <2> HIDE DEF new
  <2> QED
    BY <1>2, <1>3, <2>1, LastOf
<1>5. upTo \in 0..Len(chat)
  BY <1>2, <1>3, <1>4 DEF Beyond
<1>6. \A i \in new : ChatMessageToDomain(chat[i].id, "office") = chat[i] /\ chat[i] \in Rows
  BY <1>2 DEF Beyond, ChatMessageToDomain, Rows, Row
<1>7. heard \subseteq {row \in Rows : row.by = "office"} /\ \A i \in new : chat[i] \in heard
  BY <1>6 DEF Beyond
<1>8. ASSUME NEW i \in 1..upTo, chat[i].by = "office"
      PROVE  chat[i] \in db.wall \cup heard \/ i \in missed \cup ((1..upTo) \cap unsaid)
  <2>1. i \in 1..Len(chat) /\ i \in Nat
    BY <1>2, <1>5
  <2>2. CASE i \in 1..db.chatCursor
    BY <1>2, <1>8, <2>2 DEF Heard
  <2>3. CASE i \notin 1..db.chatCursor
    <3>1. i \in new \/ i \in unsaid
      BY <1>2, <1>3, <1>8, <2>1, <2>3 DEF Beyond
    <3> QED
      BY <1>7, <1>8, <3>1
  <2> QED
    BY <2>2, <2>3
<1>9. Executed(last, executed \cup skipped \cup todo \cup ((1..last) \cap unasked))
  <2>1. Len(commands) \in Nat /\ DOMAIN commands = 1..Len(commands)
    BY DEF IInv, RestoredInv
  <2>2. todo \in SUBSET (1..Len(commands))
    BY <2>1 DEF ListRestoreCommandsSince
  <2>3. last \in Nat /\ last \in todo \cup {db.restoreCursor}
    <3> HIDE DEF todo
    <3> QED
      BY <1>3, <2>1, <2>2, LastOf
  <2>4. ASSUME NEW i \in 1..last, i \notin 1..db.restoreCursor
        PROVE  i \in todo \/ i \in unasked
    <3>1. last \in 1..Len(commands)
      BY <1>3, <2>2, <2>3, <2>4
    <3>2. i \in DOMAIN commands /\ i > db.restoreCursor
      BY <1>3, <2>1, <2>4, <3>1
    <3> QED
      BY <3>2 DEF ListRestoreCommandsSince
  <2> QED
    BY <1>2, <2>3, <2>4 DEF Executed
<1> HIDE DEF new, heard, upTo, todo, last
<1>10. /\ to.stage = "restore" /\ to.ids = {} /\ to.said = heard /\ to.next = upTo
       /\ to.unsaid = (1..upTo) \cap unsaid /\ to.todo = todo /\ to.last = last
       /\ to.unasked = (1..last) \cap unasked /\ Pulled(to)
  BY DEF Pulled
<1> HIDE DEF to
<1>11. PulledOK(to, Rows, chat, db, Past)
  <2>1. Heard(chat, db.wall \cup heard, upTo, missed \cup ((1..upTo) \cap unsaid))
    BY <1>5, <1>8 DEF Heard
  <2> QED
    BY <1>7, <1>9, <1>10, <2>1 DEF PulledOK, Past
<1>12. c \in Workers /\ WorkOK(c, to, Rows, chat, db, Past)
  BY <1>10, <1>11, CycleStages DEF IInv, WorkOK, CycleOK
<1>13. SentBy(to) = {}
  BY <1>10, NothingSent
<1> QED
  BY <1>1, <1>12, <1>13, WorkerOnlyKeepsIInv DEF vessel, ids

\* What of a cycle stays from its pull on, and what it has executed.
Alike(x, y) ==
  /\ y.said = x.said /\ y.next = x.next /\ y.unsaid = x.unsaid
  /\ y.last = x.last /\ y.unasked = x.unasked
SameTodo(x, y) == y.ids = x.ids /\ y.todo = x.todo

\* What of a cycle a bundle changes.
Fetched(x, bundle, asOf) == [x EXCEPT !.stage = "apply", !.bundle = bundle, !.asOf = asOf]

LEMMA BundleFetched ==
  ASSUME NEW x, Pulled(x), NEW bundle, NEW asOf
  PROVE  LET to == Fetched(x, bundle, asOf) IN
         /\ to.stage = "apply" /\ to.bundle = bundle /\ to.asOf = asOf /\ Pulled(to)
         /\ Alike(x, to) /\ SameTodo(x, to)
<1> DEFINE one == [x EXCEPT !.stage = "apply"]
           two == [one EXCEPT !.bundle = bundle]
           to == [two EXCEPT !.asOf = asOf]
<1>1. /\ Pulled(one) /\ one.stage = "apply"
      /\ Alike(x, one) /\ SameTodo(x, one)
  BY DEF Pulled, Alike, SameTodo
<1> HIDE DEF one
<1>2. /\ Pulled(two) /\ two.stage = "apply" /\ two.bundle = bundle
      /\ Alike(x, two) /\ SameTodo(x, two)
  BY <1>1 DEF Pulled, Alike, SameTodo
<1> HIDE DEF two
<1>3. /\ Pulled(to) /\ to.stage = "apply" /\ to.bundle = bundle /\ to.asOf = asOf
      /\ Alike(x, to) /\ SameTodo(x, to)
  BY <1>2 DEF Pulled, Alike, SameTodo
<1>4. to = Fetched(x, bundle, asOf)
  BY DEF one, two, Fetched
<1> HIDE DEF to
<1> QED
  BY <1>3, <1>4

LEMMA FetchKeepsIInv ==
  ASSUME IInv, NEW c \in Cycles, FetchRestoreBundle(c)
  PROVE  IInv'
<1> DEFINE x == work[c]
           to == Fetched(x, BuildBundle, landed)
<1>1. UNCHANGED <<vessel, office, ids, history>> /\ Go(c, to) /\ x.stage = "restore"
  BY DEF FetchRestoreBundle, Fetched
<1>2. c \in Workers /\ c # "import" /\ PulledOK(x, Rows, chat, db, Past)
  BY <1>1, CycleStages DEF IInv
<1> HIDE DEF x
<1>3. /\ to.stage = "apply" /\ to.bundle = BuildBundle /\ to.asOf = landed /\ Pulled(to)
      /\ Alike(x, to) /\ SameTodo(x, to)
  <2>1. Pulled(x)
    BY <1>2 DEF PulledOK
  <2> QED
    BY <2>1, BundleFetched
<1> HIDE DEF to
<1>4. PulledOK(to, Rows, chat, db, Past) /\ RestoreOK(to, chat, db)
  BY <1>2, <1>3, BundleIsWhole DEF IInv, PulledOK, Alike, SameTodo
<1>5. WorkOK(c, to, Rows, chat, db, Past)
  BY <1>2, <1>3, <1>4 DEF WorkOK, CycleOK
<1>6. SentBy(to) = {}
  BY <1>3, NothingSent
<1> QED
  BY <1>1, <1>2, <1>5, <1>6, WorkerOnlyKeepsIInv DEF vessel, ids

\* The rest of a batch is given up.
LEMMA StoppedIsOK ==
  ASSUME NEW c \in Cycles, NEW x, PulledOK(x, Rows, chat, db, Past)
  PROVE  LET to == [x EXCEPT !.stage = "stopped"] IN
         WorkOK(c, to, Rows, chat, db, Past) /\ SentBy(to) = {}
<1> DEFINE to == [x EXCEPT !.stage = "stopped"]
<1>1. /\ to.stage = "stopped" /\ Pulled(to)
      /\ Alike(x, to) /\ SameTodo(x, to)
  BY DEF PulledOK, Pulled, Alike, SameTodo
<1> HIDE DEF to
<1>2. PulledOK(to, Rows, chat, db, Past) /\ c # "import"
  BY <1>1, CyclesAssumption DEF PulledOK, Alike, SameTodo
<1>3. WorkOK(c, to, Rows, chat, db, Past)
  BY <1>1, <1>2 DEF WorkOK, CycleOK
<1>4. SentBy(to) = {}
  BY <1>1, NothingSent
<1> QED
  BY <1>3, <1>4 DEF to

\* The report of what was executed, perhaps of nothing.
LEMMA ReportingIsOK ==
  ASSUME NEW c \in Cycles, NEW I, NEW rows, NEW said, NEW d, NEW past,
         I \subseteq past.executed
  PROVE  LET to == [stage |-> "report", ids |-> I] IN
         WorkOK(c, to, rows, said, d, past) /\ SentBy(to) = {}
<1> DEFINE to == [stage |-> "report", ids |-> I]
<1>1. to = [stage |-> "report", ids |-> to.ids] /\ to.ids = I /\ to.stage = "report"
  OBVIOUS
<1> HIDE DEF to
<1>2. WorkOK(c, to, rows, said, d, past)
  BY <1>1, CyclesAssumption DEF WorkOK, CycleOK
<1>3. SentBy(to) = {}
  BY <1>1, NothingSent
<1> QED
  BY <1>2, <1>3 DEF to

LEMMA RestingIsOK ==
  ASSUME NEW w, NEW rows, NEW said, NEW d, NEW past
  PROVE  WorkOK(w, Rest, rows, said, d, past) /\ SentBy(Rest) = {}
BY DEF WorkOK, CycleOK, ImportOK, SentBy, Rest

LEMMA LoseCallKeepsIInv ==
  ASSUME IInv, NEW c \in Cycles, LoseCall(c)
  PROVE  IInv'
<1>1. UNCHANGED <<db, snapshot, post, submitting, office, items, authors, history>>
  BY DEF LoseCall, vessel, ids
<1>2. c \in Workers /\ c # "import"
  BY CyclesAssumption DEF Workers
<1>3. CASE Go(c, [stage |-> "report", ids |-> {}])
  <2>1. {} \subseteq Past.executed
    OBVIOUS
  <2>2. WorkOK(c, [stage |-> "report", ids |-> {}], Rows, chat, db, Past)
        /\ SentBy([stage |-> "report", ids |-> {}]) = {}
    BY <2>1, ReportingIsOK
  <2> QED
    BY <1>1, <1>2, <1>3, <2>2, WorkerOnlyKeepsIInv
<1>4. CASE work[c].stage = "restore" /\ Stopped(c)
  <2>1. Go(c, [work[c] EXCEPT !.stage = "stopped"])
    BY <1>2, <1>4 DEF Stopped
  <2>2. PulledOK(work[c], Rows, chat, db, Past)
    BY <1>4, CycleStages DEF IInv
  <2> QED
    BY <1>1, <1>2, <2>1, <2>2, StoppedIsOK, WorkerOnlyKeepsIInv
<1>5. CASE Go(c, Rest)
  BY <1>1, <1>2, <1>5, RestingIsOK, WorkerOnlyKeepsIInv
<1> QED
  BY <1>3, <1>4, <1>5 DEF LoseCall

LEMMA ReportStatusKeepsIInv ==
  ASSUME IInv, NEW c \in Cycles, ReportStatus(c)
  PROVE  IInv'
<1>1. /\ UNCHANGED <<vessel, chat, receipts, landed, ids, history>>
      /\ work[c].stage = "report" /\ Go(c, Rest)
      /\ commands' = [i \in DOMAIN commands |->
           [commands[i] EXCEPT !.applied = @ \/ i \in work[c].ids]]
  BY DEF ReportStatus, messages
<1>2. c \in Workers /\ work[c].ids \subseteq executed
  BY <1>1, CycleStages DEF IInv, Past
<1>3. RestoredInv'
  <2>1. commands \in Seq([applied : BOOLEAN])
    BY DEF IInv, RestoredInv
  <2>2. /\ Len(commands) \in Nat /\ DOMAIN commands = 1..Len(commands)
        /\ \A i \in DOMAIN commands : commands[i] \in [applied : BOOLEAN]
    <3> DEFINE T == [applied : BOOLEAN]
    <3>1. commands \in Seq(T)
      BY <2>1
    <3> HIDE DEF T
    <3>2. /\ Len(commands) \in Nat /\ DOMAIN commands = 1..Len(commands)
          /\ \A i \in DOMAIN commands : commands[i] \in T
      BY <3>1
    <3> QED
      BY <3>2 DEF T
  <2>3. \A i \in DOMAIN commands :
          /\ commands'[i] \in [applied : BOOLEAN]
          /\ commands'[i].applied = (commands[i].applied \/ i \in work[c].ids)
    BY <1>1, <2>2
  <2>4. commands' \in [1..Len(commands) -> [applied : BOOLEAN]]
    BY <1>1, <2>2, <2>3
  <2>5. commands' \in Seq([applied : BOOLEAN])
    BY <2>2, <2>4, SeqDef
  <2>6. \A i \in DOMAIN commands' : commands'[i].applied => i \in executed'
    BY <1>1, <1>2, <2>2, <2>3, <2>4 DEF IInv, RestoredInv, history, Past
  <2> QED
    BY <1>1, <2>5, <2>6 DEF IInv, RestoredInv, vessel, history, Past
<1>4. WorkOK(c, Rest, Rows, chat, db, Past') /\ SentBy(Rest) = {}
  BY RestingIsOK
<1> QED
  BY <1>1, <1>2, <1>3, <1>4, WorkerMovesKeepsIInv DEF vessel, ids, history, Past, Grown

-----------------------------------------------------------------------------
(* A bundle goes in. *)

\* What is known of a worker, a cycle or the import, with a bundle.
LEMMA RestoringStages ==
  ASSUME WorkInv, NEW w \in Workers, work[w].stage \in {"apply", "applied"}
  PROVE  LET x == work[w] IN
         /\ RestoreOK(x, chat, db)
         /\ w = "import" => x = [stage |-> x.stage, bundle |-> x.bundle, asOf |-> x.asOf]
         /\ w # "import" => w \in Cycles /\ PulledOK(x, Rows, chat, db, Past)
<1> DEFINE x == work[w]
<1>1. CASE w = "import"
  <2>1. ImportOK(x, chat, db)
    BY <1>1 DEF WorkInv, WorkOK
  <2>2. x # Rest
    BY DEF Rest
  <2> QED
    BY <1>1, <2>1, <2>2 DEF ImportOK
<1>2. CASE w # "import"
  BY <1>2, CycleStages DEF Workers
<1> QED
  BY <1>1, <1>2

\* A worker whose bundle, or stage, is another one.
Moved(x, y) ==
  /\ Pulled(x) => Pulled(y) /\ Alike(x, y) /\ SameTodo(x, y)
  /\ x = [stage |-> x.stage, bundle |-> x.bundle, asOf |-> x.asOf] =>
       y = [stage |-> y.stage, bundle |-> y.bundle, asOf |-> y.asOf]
  /\ y.stage \in {"apply", "applied"} /\ y.asOf = x.asOf

LEMMA MovedIsOK ==
  ASSUME WorkInv, NEW w \in Workers, work[w].stage \in {"apply", "applied"},
         NEW y, Moved(work[w], y), NEW d, db.wall \subseteq d.wall, RestoreOK(y, chat, d)
  PROVE  WorkOK(w, y, Rows, chat, d, Past) /\ SentBy(y) = {}
<1> DEFINE x == work[w]
<1>1. SentBy(y) = {}
  BY NothingSent DEF Moved
<1>2. CASE w = "import"
  <2>1. x = [stage |-> x.stage, bundle |-> x.bundle, asOf |-> x.asOf]
    BY <1>2, RestoringStages
  <2> HIDE DEF x
  <2>2. y = [stage |-> y.stage, bundle |-> y.bundle, asOf |-> y.asOf]
        /\ y.stage \in {"apply", "applied"}
    BY <2>1 DEF Moved, x
  <2> QED
    BY <1>1, <1>2, <2>2 DEF WorkOK, ImportOK
<1>3. CASE w # "import"
  <2>1. PulledOK(x, Rows, chat, db, Past)
    BY <1>3, RestoringStages
  <2> HIDE DEF x
  <2>2. /\ Pulled(y) /\ Alike(x, y) /\ SameTodo(x, y)
        /\ y.stage \in {"apply", "applied"}
    BY <2>1 DEF Moved, PulledOK, x
  <2>3. Heard(chat, d.wall \cup y.said, y.next, Past.missed \cup y.unsaid)
    BY <2>1, <2>2 DEF PulledOK, Heard, Alike
  <2>4. PulledOK(y, Rows, chat, d, Past)
    BY <2>1, <2>2, <2>3 DEF PulledOK, Alike, SameTodo
  <2> QED
    BY <1>1, <1>3, <2>2, <2>4 DEF WorkOK, CycleOK
<1> QED
  BY <1>2, <1>3

\* A step of a worker that writes to the vessel's database.
LEMMA WorkerWritesKeepsIInv ==
  ASSUME IInv,
         UNCHANGED <<snapshot, post, submitting, office, ids, executed, restored, unqueued>>,
         Grown(Past, Past'), DbAdds,
         DbOK(db', unqueued \cup {post}, Rows, chat, Past'),
         Told(db'.outbox) \subseteq Known,
         NEW w \in Workers, NEW to, Go(w, to), SentBy(to) \subseteq Known,
         WorkOK(w, to, Rows, chat, db', Past')
  PROVE  IInv'
<1>1. Rows' = Rows
  BY DEF Rows, Row, ChatMessageToDomain, ids
<1>2. Adds
  <2>1. Extends(chat, chat')
    BY ChatGoesOn DEF IInv, office
  <2> QED
    BY <1>1, <2>1 DEF Adds, ids
<1>3. WordsInv'
  BY <1>1 DEF IInv, WordsInv, office, ids
<1>4. WorkInv'
  <2>1. WorkOK(w, to, Rows', chat', db', Past')
    BY <1>1 DEF office
  <2> QED
    BY <1>2, <2>1, WorkerGoes DEF IInv
<1>5. ItemsInv'
  <2>1. Known' \subseteq Known \cup {}
    BY KnownWhenGoing DEF IInv
  <2> QED
    BY <1>2, <2>1, ItemsStay DEF IInv, office, ids
<1>6. DbInv'
  <2>1. DbOK(db', unqueued' \cup {post'}, Rows', chat', Past')
    BY <1>1 DEF office
  <2> QED
    BY <2>1 DEF DbInv
<1>7. SnapshotInv'
  BY <1>2, SnapshotStays DEF IInv
<1>8. RestoredInv'
  BY RestoredStays DEF IInv, DbAdds, office
<1> QED
  BY <1>3, <1>4, <1>5, <1>6, <1>7, <1>8 DEF IInv

\* The same, when the cursors stay.
LEMMA WorkerStoresKeepsIInv ==
  ASSUME IInv, UNCHANGED <<snapshot, post, submitting, office, ids, history>>, DbAdds,
         DbOK(db', unqueued \cup {post}, Rows, chat, Past),
         Told(db'.outbox) \subseteq Known,
         NEW w \in Workers, NEW to, Go(w, to), SentBy(to) \subseteq Known,
         WorkOK(w, to, Rows, chat, db', Past)
  PROVE  IInv'
<1>1. Past' = Past /\ Grown(Past, Past')
  BY DEF history, Past, Grown
<1>2. UNCHANGED <<executed, restored, unqueued>>
  BY DEF history
<1> QED
  BY <1>1, <1>2, WorkerWritesKeepsIInv

\* Rows the vessel is sent go to its wall: they are as written, and its own
\* ones among them are at the office.
LEMMA RowsInserted ==
  ASSUME NEW d, NEW d2, NEW excused, NEW past, DbOK(d, excused, Rows, chat, past),
         Database(d2), d2.versions = d.versions, d2.outbox = d.outbox,
         NEW more, d2.wall = d.wall \cup more, more \subseteq Rows,
         \A row \in more : row.by = "vessel" => Says(chat, row.id),
         NEW past2, Heard(chat, d2.wall, d2.chatCursor, past2.missed),
         Executed(d2.restoreCursor, past2.executed \cup past2.skipped)
  PROVE  DbOK(d2, excused, Rows, chat, past2)
<1>1. d2.wall \subseteq Rows
  BY DEF DbOK, WallOK
<1>2. \A row \in d2.wall : row.by = "vessel" =>
        \/ Says(chat, row.id) \/ row.id \in excused
        \/ \E x \in Told(d2.outbox) : x[2] = row.id
  BY DEF DbOK, WallOK
<1> QED
  BY <1>1, <1>2 DEF DbOK, WallOK

\* The two writes of applyRestoreBundle as functions of the worker.
Taken(x, n) ==
  LET left == x.bundle.versions IN
  [x EXCEPT !.bundle = [@ EXCEPT !.versions = Restrict(left, DOMAIN left \ {n})]]
Applied(x) == [x EXCEPT !.stage = "applied"]

LEMMA TakenMoves ==
  ASSUME NEW said, NEW d, NEW x, RestoreOK(x, said, d), x.stage = "apply",
         Pulled(x) \/ x = [stage |-> x.stage, bundle |-> x.bundle, asOf |-> x.asOf],
         NEW n
  PROVE  LET y == Taken(x, n)
             left == x.bundle.versions IN
         /\ Moved(x, y) /\ y.stage = "apply"
         /\ y.bundle = [versions |-> [m \in DOMAIN left \ {n} |-> left[m]],
                        rows |-> x.bundle.rows]
<1> DEFINE left == x.bundle.versions
           b == [x.bundle EXCEPT !.versions = Restrict(left, DOMAIN left \ {n})]
           y == [x EXCEPT !.bundle = b]
<1>1. b = [versions |-> [m \in DOMAIN left \ {n} |-> left[m]], rows |-> x.bundle.rows]
  BY DEF RestoreOK, Restrict
<1>2. y = Taken(x, n)
  BY DEF Taken
<1> HIDE DEF b
<1>3. y.bundle = b /\ y.stage = "apply" /\ y.asOf = x.asOf /\ Moved(x, y)
  BY DEF Moved, Pulled, Alike, SameTodo
<1> HIDE DEF y
<1> QED
  BY <1>1, <1>2, <1>3

LEMMA AppliedMoves ==
  ASSUME NEW x, x.stage = "apply",
         Pulled(x) \/ x = [stage |-> x.stage, bundle |-> x.bundle, asOf |-> x.asOf]
  PROVE  LET y == Applied(x) IN
         Moved(x, y) /\ y.stage = "applied" /\ y.bundle = x.bundle
BY DEF Applied, Moved, Pulled, Alike, SameTodo

LEMMA InsertRowsKeepsIInv ==
  ASSUME IInv, NEW w \in Workers, ApplyRestoreBundle(w), DOMAIN work[w].bundle.versions = {}
  PROVE  IInv'
<1> DEFINE x == work[w]
           more == {row \in x.bundle.rows : ~OnWall(row.id)}
           to == Applied(x)
<1>1. /\ UNCHANGED <<snapshot, session, post, submitting, office, ids, history>>
      /\ x.stage = "apply"
      /\ db' = [db EXCEPT !.wall = db.wall \cup more]
      /\ Go(w, to)
  BY DEF ApplyRestoreBundle, InsertRows, Applied
<1>2. /\ RestoreOK(x, chat, db)
      /\ Pulled(x) \/ x = [stage |-> x.stage, bundle |-> x.bundle, asOf |-> x.asOf]
  BY <1>1, RestoringStages DEF IInv, PulledOK
<1>3. Moved(x, to) /\ to.stage = "applied" /\ to.bundle = x.bundle /\ to.asOf = x.asOf
  BY <1>1, <1>2, AppliedMoves DEF Moved
<1>4. more \subseteq Rows /\ \A row \in more : Says(chat, row.id)
  <2>1. more \subseteq ToSet(chat) /\ chat \in Seq(Rows)
    BY <1>2 DEF RestoreOK, IInv, WordsInv
  <2>2. \A row \in ToSet(chat) : row \in Rows /\ Says(chat, row.id)
    BY <2>1 DEF ToSet, Says
  <2> QED
    BY <2>1, <2>2
<1>5. Database(db) /\ DbOK(db, unqueued \cup {post}, Rows, chat, Past)
  BY DatabaseIsRecord DEF IInv, DbInv
<1> HIDE DEF more, to
<1>6. /\ Database(db') /\ db'.wall = db.wall \cup more /\ db'.outbox = db.outbox
      /\ db'.chatCursor = db.chatCursor /\ db'.restoreCursor = db.restoreCursor
      /\ db'.versions = db.versions
  BY <1>1, <1>5 DEF Database
<1>7. DbAdds
  BY <1>6, SameVersionsKept DEF DbAdds
<1>8. DbOK(db', unqueued \cup {post}, Rows, chat, Past)
  <2>1. /\ Heard(chat, db'.wall, db'.chatCursor, Past.missed)
        /\ Executed(db'.restoreCursor, Past.executed \cup Past.skipped)
    BY <1>5, <1>6 DEF DbOK, WallOK, Heard
  <2> QED
    BY <1>4, <1>5, <1>6, <2>1, RowsInserted
<1>9. RestoreOK(to, chat, db')
  <2> HIDE DEF x
  <2>1. DOMAIN to.bundle.versions = {}
    BY <1>3 DEF x
  <2> QED
    BY <1>2, <1>3, <1>6, <2>1 DEF RestoreOK
<1>10. WorkOK(w, to, Rows, chat, db', Past) /\ SentBy(to) = {}
  BY <1>1, <1>3, <1>6, <1>9, MovedIsOK DEF IInv
<1>11. Told(db'.outbox) \subseteq Known
  BY <1>6 DEF Known
<1> QED
  BY <1>1, <1>7, <1>8, <1>10, <1>11, WorkerStoresKeepsIInv

LEMMA SaveReportKeepsIInv ==
  ASSUME IInv, NEW w \in Workers, ApplyRestoreBundle(w),
         NEW n, DOMAIN work[w].bundle.versions # {}, n = Min(DOMAIN work[w].bundle.versions),
         Saves(n, work[w].bundle.versions[n])
  PROVE  IInv'
<1> DEFINE x == work[w]
           left == x.bundle.versions
           saved == ReportVersionToDomain(left[n])
           to == Taken(x, n)
<1>1. /\ UNCHANGED <<snapshot, session, post, submitting, office, ids, history>>
      /\ x.stage = "apply"
      /\ db' = [db EXCEPT !.versions = Put(db.versions, n, saved)]
      /\ Go(w, to)
  BY DEF ApplyRestoreBundle, SaveReport, Taken
<1>2. /\ RestoreOK(x, chat, db)
      /\ Pulled(x) \/ x = [stage |-> x.stage, bundle |-> x.bundle, asOf |-> x.asOf]
  BY <1>1, RestoringStages DEF IInv, PulledOK
<1>3. Moved(x, to) /\ to.stage = "apply" /\ to.asOf = x.asOf
      /\ to.bundle = [versions |-> [m \in DOMAIN left \ {n} |-> left[m]],
                      rows |-> x.bundle.rows]
  BY <1>1, <1>2, TakenMoves DEF Moved
<1>4. n \in DOMAIN left /\ n \in Nat
  <2>1. DOMAIN left \subseteq Nat
    BY <1>2 DEF RestoreOK
  <2> QED
    BY <2>1, MinIsLeast
<1>5. saved.data = left[n] /\ saved.state = "submitted"
  BY DEF ReportVersionToDomain
<1>6. Database(db) /\ DbOK(db, unqueued \cup {post}, Rows, chat, Past)
  BY DatabaseIsRecord DEF IInv, DbInv
<1> HIDE DEF saved, to
<1>7. /\ Database(db') /\ db'.wall = db.wall /\ db'.outbox = db.outbox
      /\ db'.chatCursor = db.chatCursor /\ db'.restoreCursor = db.restoreCursor
      /\ DOMAIN db'.versions = DOMAIN db.versions \cup {n} /\ db'.versions[n] = saved
      /\ \A m \in DOMAIN db.versions : m # n => db'.versions[m] = db.versions[m]
  BY <1>1, <1>6 DEF Database, Put
<1>8. KeptIn(db, db') /\ Kept(n, left[n], db'.versions)
  <2>1. ASSUME NEW m, NEW data, Kept(m, data, db.versions)
        PROVE  Kept(m, data, db'.versions)
    <3>1. CASE m = n
      <4>1. left[n] = data
        BY <2>1, <3>1 DEF Saves, Kept
      <4> QED
        BY <1>5, <1>7, <3>1, <4>1 DEF Kept
    <3>2. CASE m # n
      BY <1>7, <2>1, <3>2 DEF Kept
    <3> QED
      BY <3>1, <3>2
  <2>2. Kept(n, left[n], db'.versions)
    BY <1>5, <1>7 DEF Kept
  <2> QED
    BY <2>1, <2>2 DEF KeptIn
<1>9. DbAdds
  BY <1>7, <1>8 DEF DbAdds
<1>10. DbOK(db', unqueued \cup {post}, Rows, chat, Past)
  <2>1. Bounded(DOMAIN db'.versions)
    <3>1. PICK k \in Nat : \A m \in DOMAIN db.versions : m \in Nat /\ m <= k
      BY <1>6 DEF DbOK, Bounded
    <3>2. k + n \in Nat /\ \A m \in DOMAIN db'.versions : m \in Nat /\ m <= k + n
      BY <1>4, <1>7, <3>1
    <3> QED
      BY <3>2 DEF Bounded
  <2> QED
    BY <1>6, <1>7, <2>1 DEF DbOK, WallOK
<1>11. RestoreOK(to, chat, db')
  <2> DEFINE rest == to.bundle.versions
  <2>1. /\ to.bundle = [versions |-> rest, rows |-> to.bundle.rows]
        /\ to.bundle.rows = x.bundle.rows
        /\ DOMAIN rest = DOMAIN left \ {n} /\ \A m \in DOMAIN rest : rest[m] = left[m]
    BY <1>3
  <2> HIDE DEF rest, left, x
  <2>2. ASSUME NEW m \in DOMAIN to.asOf
        PROVE  IF m \in DOMAIN rest THEN rest[m] = to.asOf[m]
               ELSE Kept(m, to.asOf[m], db'.versions)
    <3>1. m \in DOMAIN left => left[m] = x.asOf[m]
      BY <1>2, <1>3, <2>2 DEF RestoreOK, left
    <3>2. m \notin DOMAIN left => Kept(m, x.asOf[m], db'.versions)
      BY <1>2, <1>3, <1>8, <2>2 DEF RestoreOK, KeptIn, left
    <3> QED
      BY <1>3, <1>8, <2>1, <3>1, <3>2
  <2>3. DOMAIN rest \subseteq Nat /\ DOMAIN rest \subseteq DOMAIN to.asOf
    BY <1>2, <1>3, <2>1 DEF RestoreOK, left
  <2>4. to.bundle.rows \subseteq ToSet(chat) /\ to.stage # "applied"
    BY <1>2, <1>3, <2>1 DEF RestoreOK
  <2> QED
    BY <2>1, <2>2, <2>3, <2>4 DEF RestoreOK, rest
<1>12. WorkOK(w, to, Rows, chat, db', Past) /\ SentBy(to) = {}
  BY <1>1, <1>3, <1>7, <1>11, MovedIsOK DEF IInv
<1>13. Told(db'.outbox) \subseteq Known
  BY <1>7 DEF Known
<1> QED
  BY <1>1, <1>9, <1>10, <1>12, <1>13, WorkerStoresKeepsIInv

LEMMA ApplyRestoreBundleKeepsIInv ==
  ASSUME IInv, NEW w \in Workers, ApplyRestoreBundle(w)
  PROVE  IInv'
<1> DEFINE left == work[w].bundle.versions
           n == Min(DOMAIN left)
<1>1. CASE DOMAIN left = {}
  BY <1>1, InsertRowsKeepsIInv
<1>2. CASE DOMAIN left # {} /\ Saves(n, left[n])
  BY <1>2, SaveReportKeepsIInv
<1>3. CASE DOMAIN left # {} /\ ~Saves(n, left[n])
  <2>1. /\ UNCHANGED <<db, snapshot, session, post, submitting, office, ids, history>>
        /\ work[w].stage = "apply" /\ Stopped(w)
    BY <1>3 DEF ApplyRestoreBundle, SaveReport
  <2>2. CASE w = "import"
    <3>1. Go(w, Rest)
      BY <2>1, <2>2 DEF Stopped
    <3> QED
      BY <2>1, <3>1, RestingIsOK, WorkerOnlyKeepsIInv DEF ids
  <2>3. CASE w # "import"
    <3>1. Go(w, [work[w] EXCEPT !.stage = "stopped"])
      BY <2>1, <2>3 DEF Stopped
    <3>2. w \in Cycles /\ PulledOK(work[w], Rows, chat, db, Past)
      BY <2>1, <2>3, RestoringStages DEF IInv
    <3> QED
      BY <2>1, <3>1, <3>2, StoppedIsOK, WorkerOnlyKeepsIInv DEF ids
  <2> QED
    BY <2>2, <2>3
<1> QED
  BY <1>1, <1>2, <1>3

\* A command has been executed.
Finished(x, i) == [x EXCEPT !.stage = "restore", !.todo = @ \ {i}, !.ids = @ \cup {i}]

LEMMA FinishedIs ==
  ASSUME NEW x, Pulled(x), NEW i
  PROVE  LET y == Finished(x, i) IN
         /\ y.stage = "restore" /\ y.todo = x.todo \ {i} /\ y.ids = x.ids \cup {i}
         /\ Alike(x, y) /\ Pulled(y)
<1> DEFINE done == x.ids \cup {i}
           left == x.todo \ {i}
           one == [x EXCEPT !.stage = "restore"]
           two == [one EXCEPT !.todo = left]
           y == [two EXCEPT !.ids = done]
<1>1. y = Finished(x, i)
  BY DEF Finished, Pulled
<1> HIDE DEF done, left
<1>2. Pulled(one) /\ one.stage = "restore" /\ Alike(x, one)
  BY DEF Pulled, Alike
<1> HIDE DEF one
<1>3. Pulled(two) /\ two.stage = "restore" /\ Alike(x, two) /\ two.todo = left
  BY <1>2 DEF Pulled, Alike
<1> HIDE DEF two
<1>4. Pulled(y) /\ y.stage = "restore" /\ Alike(x, y) /\ y.todo = left /\ y.ids = done
  BY <1>3 DEF Pulled, Alike
<1> HIDE DEF y
<1> QED
  BY <1>1, <1>4 DEF done, left

LEMMA FinishRestoreKeepsIInv ==
  ASSUME IInv, NEW w \in Workers, FinishRestore(w)
  PROVE  IInv'
<1> DEFINE x == work[w]
           i == Min(x.todo)
<1>1. /\ UNCHANGED <<vessel, office, ids, unqueued, missed, skipped>>
      /\ x.stage = "applied" /\ restored' = x.asOf
      /\ \/ w = "import" /\ Go(w, Rest) /\ executed' = executed
         \/ w # "import" /\ executed' = executed \cup {i} /\ Go(w, Finished(x, i))
  BY DEF FinishRestore, Finished, cut, overtaken
<1>2. RestoreOK(x, chat, db)
  BY <1>1, RestoringStages DEF IInv
<1>3. executed \subseteq executed' /\ Grown(Past, Past')
  BY <1>1 DEF Past, Grown
<1>4. RestoredInv'
  <2> HIDE DEF x
  <2>1. \A n \in DOMAIN x.asOf : Kept(n, x.asOf[n], db.versions)
    BY <1>1, <1>2 DEF RestoreOK
  <2>2. \A n \in DOMAIN restored' : Kept(n, restored'[n], db'.versions)
    BY <1>1, <2>1 DEF vessel
  <2> QED
    BY <1>1, <1>3, <2>2 DEF IInv, RestoredInv, office
<1>5. CASE w = "import" /\ Go(w, Rest)
  BY <1>1, <1>3, <1>4, <1>5, RestingIsOK, WorkerMovesKeepsIInv DEF vessel, office, ids
<1>6. CASE w # "import" /\ executed' = executed \cup {i} /\ Go(w, Finished(x, i))
  <2> DEFINE y == Finished(x, i)
  <2>1. PulledOK(x, Rows, chat, db, Past)
    BY <1>1, <1>6, RestoringStages DEF IInv
  <2> HIDE DEF x, i
  <2>2. /\ y.stage = "restore" /\ y.todo = x.todo \ {i} /\ y.ids = x.ids \cup {i}
        /\ Alike(x, y) /\ Pulled(y)
    BY <2>1, FinishedIs DEF PulledOK
  <2> HIDE DEF y
  <2>3. Executed(y.last, executed' \cup skipped' \cup y.todo \cup y.unasked)
    BY <1>1, <1>6, <2>1, <2>2 DEF PulledOK, Executed, Alike, Past
  <2>4. PulledOK(y, Rows, chat, db, Past')
    <3>1. /\ Heard(chat, db.wall \cup x.said, x.next, missed \cup x.unsaid)
          /\ x.ids \subseteq executed
      BY <2>1 DEF PulledOK, Past
    <3> QED
      BY <1>1, <1>6, <2>1, <2>2, <2>3, <3>1 DEF PulledOK, Alike, Past
  <2>5. WorkOK(w, y, Rows, chat, db, Past')
    BY <1>6, <2>2, <2>4 DEF WorkOK, CycleOK
  <2>6. SentBy(y) = {}
    BY <2>2, NothingSent
  <2> QED
    BY <1>1, <1>3, <1>4, <1>6, <2>5, <2>6, WorkerMovesKeepsIInv DEF vessel, office, ids, y
<1> QED
  BY <1>1, <1>5, <1>6

LEMMA ApplyInboxPullKeepsIInv ==
  ASSUME IInv, NEW c \in Cycles, ApplyInboxPull(c)
  PROVE  IInv'
<1> DEFINE x == work[c]
           more == {row \in x.said : ~OnWall(row.id)}
           upTo == IF x.stage = "restore" THEN x.last ELSE db.restoreCursor
           to == [stage |-> "report", ids |-> x.ids]
<1>1. /\ UNCHANGED <<snapshot, session, post, submitting, office, ids, executed, restored,
                     unqueued>>
      /\ (x.stage = "restore" /\ x.todo = {}) \/ x.stage = "stopped"
      /\ missed' = missed \cup x.unsaid
      /\ skipped' = IF x.stage = "restore" THEN skipped \cup x.unasked ELSE skipped
      /\ Go(c, to)
      /\ db' = [db EXCEPT !.wall = db.wall \cup more, !.chatCursor = x.next,
                          !.restoreCursor = upTo]
  BY DEF ApplyInboxPull, cut
<1>2. c \in Workers /\ PulledOK(x, Rows, chat, db, Past)
  BY <1>1, CycleStages DEF IInv
<1>3. Database(db) /\ DbOK(db, unqueued \cup {post}, Rows, chat, Past)
  BY DatabaseIsRecord DEF IInv, DbInv
<1>4. Executed(upTo, executed \cup skipped') /\ Grown(Past, Past')
  BY <1>1, <1>2, <1>3 DEF PulledOK, DbOK, Executed, Past, Grown
<1> HIDE DEF more, upTo
<1>5. /\ Database(db') /\ db'.wall = db.wall \cup more /\ db'.outbox = db.outbox
      /\ db'.chatCursor = x.next /\ db'.restoreCursor = upTo
      /\ db'.versions = db.versions
  BY <1>1, <1>3 DEF Database
<1>6. DbAdds
  BY <1>5, SameVersionsKept DEF DbAdds
<1>7. DbOK(db', unqueued \cup {post}, Rows, chat, Past')
  <2>1. more \subseteq Rows /\ \A row \in more : row.by = "office"
    BY <1>2 DEF PulledOK, more
  <2>2. Heard(chat, db.wall \cup x.said, x.next, missed')
    BY <1>1, <1>2 DEF PulledOK, Past
  <2>3. ASSUME NEW row \in x.said PROVE row \in db.wall \cup more
    <3>1. CASE ~OnWall(row.id)
      BY <2>3, <3>1 DEF more
    <3>2. CASE OnWall(row.id)
      <4>1. PICK r \in db.wall : r.id = row.id
        BY <3>2 DEF OnWall
      <4>2. r \in Rows /\ row \in Rows
        BY <1>2, <1>3, <2>3 DEF PulledOK, DbOK, WallOK
      <4>3. r = row
        BY <4>1, <4>2 DEF Rows, Row, ChatMessageToDomain
      <4> QED
        BY <4>1, <4>3
    <3> QED
      BY <3>1, <3>2
  <2>4. Heard(chat, db'.wall, db'.chatCursor, missed')
    BY <1>5, <2>2, <2>3 DEF Heard
  <2>5. Executed(db'.restoreCursor, executed \cup skipped')
    BY <1>4, <1>5
  <2>6. Past'.missed = missed' /\ Past'.executed = executed /\ Past'.skipped = skipped'
    BY <1>1 DEF Past
  <2> QED
    BY <1>3, <1>5, <2>1, <2>4, <2>5, <2>6, RowsInserted
<1>8. WorkOK(c, to, Rows, chat, db', Past') /\ SentBy(to) = {}
  <2>1. x.ids \subseteq Past'.executed
    BY <1>2, <1>4 DEF PulledOK, Grown
  <2> QED
    BY <2>1, ReportingIsOK
<1>9. Told(db'.outbox) \subseteq Known
  BY <1>5 DEF Known
<1> QED
  BY <1>1, <1>2, <1>4, <1>6, <1>7, <1>8, <1>9, WorkerWritesKeepsIInv

-----------------------------------------------------------------------------
(* Failures. *)

\* Nobody is writing: the posts that are cut are excused.
LEMMA WordsAfterCut ==
  ASSUME WordsInv, UNCHANGED <<authors, chat>>, post' = 0, submitting' = 0
  PROVE  WordsInv'
BY DEF WordsInv, Rows, Row, ChatMessageToDomain

LEMMA AllRest ==
  ASSUME work' = [w \in Workers |-> Rest]
  PROVE  WorkInv' /\ Sent(work') = {}
<1>1. \A w \in Workers : work'[w] = Rest /\ WorkOK(w, Rest, Rows', chat', db', Past')
  BY RestingIsOK
<1>2. WorkInv'
  BY <1>1 DEF WorkInv
<1>3. Sent(work') = {}
  BY <1>1, RestingIsOK DEF Sent
<1> QED
  BY <1>2, <1>3

LEMMA PowerCutKeepsIInv ==
  ASSUME IInv, PowerCut
  PROVE  IInv'
<1>1. /\ UNCHANGED <<db, snapshot, office, ids, executed, restored, missed, skipped>>
      /\ post' = 0 /\ submitting' = 0 /\ unqueued' = unqueued \cup {post}
      /\ work' = [w \in Workers |-> Rest]
  BY DEF PowerCut, overtaken
<1>2. Adds
  BY <1>1, AddsNothing DEF IInv, office, ids
<1>3. WorkInv' /\ Sent(work') = {}
  BY <1>1, AllRest
<1>4. ItemsInv'
  <2>1. Known' \subseteq Known
    BY <1>1, <1>3 DEF Known
  <2> QED
    BY <1>1, <1>2, <2>1, ItemsStay DEF IInv, office, ids
<1>5. WordsInv'
  BY <1>1, WordsAfterCut DEF IInv, office, ids
<1>6. DbInv' /\ SnapshotInv'
  BY <1>1, <1>2, DatabaseStays, SnapshotStays DEF IInv
<1>7. RestoredInv'
  BY <1>1 DEF IInv, RestoredInv, office
<1> QED
  BY <1>3, <1>4, <1>5, <1>6, <1>7 DEF IInv

LEMMA SnapshotKeepsIInv ==
  ASSUME IInv, RunNightlySnapshot
  PROVE  IInv'
<1>1. /\ UNCHANGED <<db, session, post, submitting, work, office, ids, history>>
      /\ snapshot' = [stage |-> "taken", db |-> db, post |-> post, submitting |-> submitting]
  BY DEF RunNightlySnapshot, SnapshotTo
<1>2. Adds
  BY <1>1, AddsNothing DEF IInv, office, ids, history, Past
<1>3. Rows' = Rows
  BY <1>1 DEF Rows, Row, ChatMessageToDomain, ids
<1>4. /\ snapshot'.db = db /\ snapshot'.post = post /\ snapshot'.submitting = submitting
      /\ snapshot' # None
  BY <1>1 DEF None
<1>5. DbInv'
  BY <1>1, <1>2, DatabaseStays DEF IInv, history, Past
<1>6. SnapshotInv'
  <2>1. DbOK(db, unqueued \cup {post}, Rows, chat, Past)
    BY DEF IInv, DbInv
  <2>2. DbOK(snapshot'.db, unqueued' \cup {snapshot'.post}, Rows', chat', Past')
    BY <1>1, <1>3, <1>4, <2>1 DEF office, history, Past
  <2> QED
    BY <1>1, <1>4, <2>2 DEF SnapshotInv
<1>7. ItemsInv'
  <2>1. Saved(snapshot') = Told(db.outbox)
    BY <1>4 DEF Saved
  <2>2. Known' \subseteq Known
    BY <1>1, <2>1 DEF Known, Sent
  <2> QED
    BY <1>1, <1>2, <2>2, ItemsStay DEF IInv, office, ids
<1>8. WordsInv'
  BY <1>1, <1>3 DEF IInv, WordsInv, office, ids
<1>9. WorkInv'
  BY <1>1, <1>3 DEF IInv, WorkInv, office, history, Past
<1>10. RestoredInv'
  BY <1>1 DEF IInv, RestoredInv, office, history, Past
<1> QED
  BY <1>5, <1>6, <1>7, <1>8, <1>9, <1>10 DEF IInv

\* What is under way goes on, with no database to write to.
LEMMA WorkersAreCutOff ==
  ASSUME IInv, RestoreDatabase
  PROVE  WorkInv' /\ Sent(work') \subseteq Sent(work)
<1>1. /\ UNCHANGED <<snapshot, office, ids, executed, missed, skipped>>
      /\ work' = [w \in Workers |-> CutOff(w)]
  BY DEF RestoreDatabase, overtaken
<1>2. ASSUME NEW w \in Workers
      PROVE  /\ WorkOK(w, CutOff(w), Rows', chat', db', Past')
             /\ SentBy(CutOff(w)) \subseteq SentBy(work[w])
  <2> DEFINE x == work[w]
             y == CutOff(w)
  <2>1. x = Rest => x.stage = "rest"
    BY DEF Rest
  <2>2. CASE w = "import"
    <3>1. ImportOK(x, chat, db)
      BY <2>2 DEF IInv, WorkInv, WorkOK
    <3>2. x.stage # "push"
      BY <3>1 DEF ImportOK, Rest
    <3>3. y = Rest
      BY <2>2, <3>2, CyclesAssumption DEF CutOff
    <3> QED
      BY <3>3, RestingIsOK
  <2>3. CASE w # "import"
    <3>1. w \in Cycles
      BY <2>3 DEF Workers
    <3>2. CASE x.stage = "push"
      <4>1. x = [stage |-> "push", open |-> x.open, batch |-> x.batch] /\ Queue(x.batch)
        BY <3>1, <3>2, CycleStages DEF IInv
      <4>2. y = [x EXCEPT !.open = FALSE]
        BY <2>1, <2>3, <3>2 DEF CutOff
      <4>3. \A closed : [x EXCEPT !.open = closed] =
                          [stage |-> "push", open |-> closed, batch |-> x.batch]
        <5> HIDE DEF x
        <5> QED
          BY <4>1
      <4>4. y = [stage |-> "push", open |-> FALSE, batch |-> x.batch]
        BY <4>2, <4>3
      <4>5. y = [stage |-> "push", open |-> y.open, batch |-> y.batch]
            /\ y.stage = "push" /\ y.batch = x.batch
        <5> HIDE DEF x, y
        <5> QED
          BY <4>4
      <4>6. SentBy(y) = SentBy(x)
        <5> HIDE DEF x, y
        <5> QED
          BY <3>2, <4>5 DEF SentBy
      <4>7. WorkOK(w, y, Rows', chat', db', Past')
        <5> HIDE DEF x, y
        <5> QED
          BY <2>3, <4>1, <4>5 DEF WorkOK, CycleOK
      <4> QED
        BY <4>6, <4>7
    <3>3. CASE x = Rest
      <4>1. y = Rest
        BY <2>1, <3>3 DEF CutOff
      <4> QED
        BY <4>1, RestingIsOK
    <3>4. CASE x.stage = "pull"
      <4>1. y = [stage |-> "report", ids |-> {}]
        BY <2>1, <2>3, <3>1, <3>4 DEF CutOff
      <4>2. {} \subseteq Past'.executed
        OBVIOUS
      <4> QED
        BY <3>1, <4>1, <4>2, ReportingIsOK
    <3>5. CASE x # Rest /\ x.stage \notin {"push", "pull"}
      <4>1. y = [stage |-> "report", ids |-> x.ids]
        BY <2>3, <3>1, <3>5 DEF CutOff
      <4>2. x.ids \subseteq Past'.executed
        <5>1. CycleOK(x, Rows, chat, db, Past)
          BY <3>1, CycleStages DEF IInv
        <5> HIDE DEF x
        <5>2. ~(x = [stage |-> "push", open |-> x.open, batch |-> x.batch])
              /\ x # [stage |-> "pull"]
          BY <3>5
        <5> QED
          BY <1>1, <3>5, <5>1, <5>2 DEF CycleOK, PulledOK, Past
      <4> QED
        BY <3>1, <4>1, <4>2, ReportingIsOK
    <3> QED
      BY <3>2, <3>3, <3>4, <3>5
  <2> QED
    BY <2>2, <2>3
<1>3. \A w \in Workers : work'[w] = CutOff(w)
  BY <1>1
<1>4. WorkInv'
  BY <1>1, <1>2, <1>3 DEF WorkInv
<1>5. Sent(work') \subseteq Sent(work)
  BY <1>2, <1>3 DEF Sent
<1> QED
  BY <1>4, <1>5

LEMMA RestoreDatabaseKeepsIInv ==
  ASSUME IInv, RestoreDatabase
  PROVE  IInv'
<1>1. /\ UNCHANGED <<snapshot, session, office, ids, executed, missed, skipped>>
      /\ snapshot # None /\ db' = snapshot.db
      /\ post' = 0 /\ submitting' = 0 /\ unqueued' = unqueued \cup {post, snapshot.post}
      /\ restored' = <<>>
  BY DEF RestoreDatabase, overtaken
<1>2. Adds
  BY <1>1, AddsNothing DEF IInv, office, ids
<1>3. WorkInv' /\ Sent(work') \subseteq Sent(work)
  BY WorkersAreCutOff
<1>4. ItemsInv'
  <2>1. Known' \subseteq Known
    BY <1>1, <1>3 DEF Known, Saved
  <2> QED
    BY <1>1, <1>2, <2>1, ItemsStay DEF IInv, office, ids
<1>5. WordsInv'
  BY <1>1, WordsAfterCut DEF IInv, office, ids
<1>6. DbInv'
  <2>1. DbOK(snapshot.db, unqueued \cup {snapshot.post}, Rows, chat, Past)
    BY <1>1 DEF IInv, SnapshotInv
  <2>2. \A id \in unqueued \cup {snapshot.post} : id \in unqueued' \cup {post'}
    BY <1>1
  <2>3. DbOK(snapshot.db, unqueued' \cup {post'}, Rows', chat', Past')
    BY <1>2, <2>1, <2>2, DbStays DEF Adds
  <2> QED
    BY <1>1, <2>3 DEF DbInv
<1>7. SnapshotInv'
  BY <1>1, <1>2, SnapshotStays DEF IInv
<1>8. RestoredInv'
  BY <1>1 DEF IInv, RestoredInv, office
<1> QED
  BY <1>3, <1>4, <1>5, <1>6, <1>7, <1>8 DEF IInv

LEMMA FreshIsOK ==
  ASSUME WordsInv, NEW excused
  PROVE  DbOK(Fresh, excused, Rows, chat, Past) /\ Told(Fresh.outbox) = {}
<1>1. /\ Fresh.versions = <<>> /\ Fresh.wall = {} /\ Fresh.outbox = <<>>
      /\ Fresh.chatCursor = 0 /\ Fresh.restoreCursor = 0 /\ Database(Fresh)
  BY DEF Fresh, Database
<1>2. DOMAIN <<>> = {} /\ DOMAIN <<>> = 1..0 /\ 0 \in Nat
  OBVIOUS
<1>3. Queue(<<>>) /\ Told(<<>>) = {}
  BY <1>2 DEF Queue, Told
<1>4. Bounded({})
  BY <1>2 DEF Bounded
<1>5. Len(chat) \in Nat
  BY DEF WordsInv
<1>6. Heard(chat, {}, 0, missed) /\ Executed(0, executed \cup skipped)
  BY <1>5 DEF Heard, Executed
<1> QED
  BY <1>1, <1>2, <1>3, <1>4, <1>6 DEF DbOK, WallOK, Past

LEMMA LoseVesselKeepsIInv ==
  ASSUME IInv, LoseVessel
  PROVE  IInv'
<1>1. /\ UNCHANGED <<office, ids, executed, unqueued, missed, skipped>>
      /\ db' = Fresh /\ snapshot' = None /\ post' = 0 /\ submitting' = 0 /\ restored' = <<>>
      /\ work' = [w \in Workers |-> Rest]
  BY DEF LoseVessel, cut, overtaken
<1>2. Adds
  BY <1>1, AddsNothing DEF IInv, office, ids
<1>3. WorkInv' /\ Sent(work') = {}
  BY <1>1, AllRest
<1>4. DbOK(Fresh, unqueued', Rows, chat, Past) /\ Told(Fresh.outbox) = {}
  BY FreshIsOK DEF IInv
<1>5. Rows' = Rows
  BY <1>1 DEF Rows, Row, ChatMessageToDomain, ids
<1>6. ItemsInv'
  <2>1. Known' \subseteq Known
    BY <1>1, <1>3, <1>4 DEF Known, Saved
  <2> QED
    BY <1>1, <1>2, <2>1, ItemsStay DEF IInv, office, ids
<1>7. WordsInv'
  BY <1>1, WordsAfterCut DEF IInv, office, ids
<1>8. DbInv'
  <2>1. DbOK(Fresh, unqueued' \cup {post'}, Rows, chat, Past)
    BY FreshIsOK DEF IInv
  <2> QED
    BY <1>1, <1>5, <2>1 DEF DbInv, office, Past
<1>9. SnapshotInv' /\ RestoredInv'
  BY <1>1 DEF IInv, SnapshotInv, RestoredInv, office
<1> QED
  BY <1>3, <1>6, <1>7, <1>8, <1>9 DEF IInv

-----------------------------------------------------------------------------
(* Push. *)

\* What lands is what the vessel wrote, and afterwards every message among the
\* items that were received is at the office.
Landed(batch, I) ==
  /\ chat' \in Seq(Rows) /\ Extends(chat, chat') /\ DOMAIN landed' \subseteq Nat
  /\ \A i \in I : Message(batch[i]) # 0 => Says(chat', Message(batch[i]))

LEMMA AllLand ==
  ASSUME WordsInv, ItemsInv, DOMAIN landed \subseteq Nat,
         NEW batch, Queue(batch), Told(batch) \subseteq Known,
         NEW I \in SUBSET (DOMAIN batch), LandAll(batch, I)
  PROVE  Landed(batch, I)
<1> DEFINE new == {i \in I : Lands(batch[i])}
           said == {i \in new : batch[i].body.kind = "chat"}
           numbers == {batch[i].body.no : i \in new \ said}
<1>1. PICK n \in Nat : DOMAIN batch = 1..n
  BY DEF Queue
<1>2. DOMAIN landed' = DOMAIN landed \cup numbers
  BY DEF LandAll
<1>3. PICK q \in InOrder(said) : chat' = chat \o [j \in DOMAIN q |->
        ChatMessageToDomain(batch[q[j]].body.message, "vessel")]
  BY DEF LandAll
<1>4. \A i \in DOMAIN batch : Item(batch[i])
  BY DEF Queue
<1>5. DOMAIN landed' \subseteq Nat
  <2>1. numbers \subseteq Nat
    BY <1>4 DEF Item
  <2> QED
    BY <1>2, <2>1
<1>6. \A i \in DOMAIN batch : <<batch[i].id, Message(batch[i])>> \in Known
  BY DEF Told
<1>7. /\ DOMAIN q = 1..Cardinality(said) /\ Cardinality(said) \in Nat
      /\ \A j \in DOMAIN q : q[j] \in said
      /\ \A i \in said : \E j \in DOMAIN q : q[j] = i
  <2>1. said \in SUBSET (1..n)
    BY <1>1
  <2> HIDE DEF said
  <2> QED
    BY <2>1, InOrderLists
<1> DEFINE m == Cardinality(said)
           more == [j \in 1..m |-> ChatMessageToDomain(batch[q[j]].body.message, "vessel")]
<1>8. ASSUME NEW i \in I, Message(batch[i]) # 0
      PROVE  /\ batch[i].body.kind = "chat" /\ Message(batch[i]) = batch[i].body.message
             /\ Message(batch[i]) \in DOMAIN authors /\ authors[Message(batch[i])] = "vessel"
             /\ batch[i].id \in receipts => Says(chat, Message(batch[i]))
  <2>1. batch[i].body.kind = "chat" /\ Message(batch[i]) = batch[i].body.message
    BY <1>8 DEF Message
  <2>2. PICK x : x = <<batch[i].id, Message(batch[i])>>
    OBVIOUS
  <2>3. ItemOK(x) /\ x[1] = batch[i].id /\ x[2] = Message(batch[i])
    BY <1>6, <2>2 DEF ItemsInv
  <2> QED
    BY <1>8, <2>1, <2>3 DEF ItemOK
<1>9. \A i \in said : Message(batch[i]) # 0 /\ Message(batch[i]) = batch[i].body.message
  BY <1>4 DEF Message, Item
<1>10. chat' = chat \o more
  BY <1>3, <1>7
<1>11. \A j \in 1..m : more[j] \in Rows /\ more[j].id = Message(batch[q[j]])
  <2>1. SUFFICES ASSUME NEW j \in 1..m
                 PROVE  more[j] \in Rows /\ more[j].id = Message(batch[q[j]])
    OBVIOUS
  <2>2. q[j] \in said /\ q[j] \in I
    BY <1>7
  <2> DEFINE k == Message(batch[q[j]])
  <2>3. k \in DOMAIN authors /\ authors[k] = "vessel"
    BY <1>8, <1>9, <2>2
  <2>4. more[j] = [id |-> k, by |-> "vessel"]
    BY <1>9, <2>2 DEF ChatMessageToDomain
  <2> HIDE DEF k, more
  <2>5. more[j] = Row(k)
    BY <2>3, <2>4 DEF Row, ChatMessageToDomain
  <2> QED
    BY <2>3, <2>4, <2>5 DEF Rows, k
<1>12. more \in Seq(Rows) /\ Len(more) = m
  <2>1. m \in Nat /\ more \in [1..m -> Rows]
    BY <1>7, <1>11
  <2> HIDE DEF m, more
  <2> QED
    BY <2>1, SeqDef
<1>13. chat \in Seq(Rows)
  BY DEF WordsInv
<1> HIDE DEF more, m
<1>14. chat' \in Seq(Rows) /\ Extends(chat, chat')
  BY <1>10, <1>12, <1>13, ChatAppended
<1>15. ASSUME NEW i \in I, Message(batch[i]) # 0
       PROVE  Says(chat', Message(batch[i]))
  <2>1. CASE i \in said
    <3>1. PICK j \in 1..m : q[j] = i
      BY <1>7, <2>1 DEF m
    <3>2. Len(chat) \in Nat /\ m \in Nat
      BY <1>7, <1>13 DEF m
    <3>3. /\ DOMAIN chat' = 1..(Len(chat) + m) /\ Len(chat) + j \in 1..(Len(chat) + m)
          /\ chat'[Len(chat) + j] = more[j]
      BY <1>10, <1>12, <1>13, <3>2
    <3> QED
      BY <1>11, <3>1, <3>3 DEF Says
  <2>2. CASE i \notin said
    <3>1. ~Lands(batch[i])
      BY <1>8, <1>15, <2>2
    <3>2. Says(chat, Message(batch[i]))
      BY <1>8, <1>15, <3>1 DEF Lands, AtOffice, Says
    <3> QED
      BY <1>14, <3>2, SaysStays
  <2> QED
    BY <2>1, <2>2
<1> QED
  BY <1>5, <1>14, <1>15 DEF Landed

LEMMA ReceivedAreAtOffice ==
  ASSUME ItemsInv,
         NEW batch, Told(batch) \subseteq Known, NEW I \in SUBSET (DOMAIN batch),
         Landed(batch, I), NEW ok \in SUBSET Ids(batch, I)
  PROVE  /\ ok \subseteq 1..items
         /\ \A x \in Known : x[1] \in ok /\ x[2] # 0 => Says(chat', x[2])
<1>1. ASSUME NEW id \in ok
      PROVE  id \in 1..items /\ \A x \in Known : x[1] = id /\ x[2] # 0 => Says(chat', x[2])
  <2>1. PICK i \in I : id = batch[i].id
    BY DEF Ids
  <2>2. PICK y : y = <<id, Message(batch[i])>>
    OBVIOUS
  <2>3. y \in Known /\ y[1] = id /\ y[2] = Message(batch[i])
    BY <2>1, <2>2 DEF Told
  <2>4. id \in 1..items
    BY <2>3 DEF ItemsInv, ItemOK
  <2>5. \A x \in Known : x[1] = id => x[2] = y[2]
    BY <2>3 DEF ItemsInv
  <2> QED
    BY <2>1, <2>3, <2>4, <2>5 DEF Landed
<1> QED
  BY <1>1

LEMMA ItemsReceived ==
  ASSUME ItemsInv, Adds, items' = items, Known' \subseteq Known,
         NEW ok \in SUBSET (1..items), receipts' = receipts \cup ok,
         \A x \in Known : x[1] \in ok /\ x[2] # 0 => Says(chat', x[2])
  PROVE  ItemsInv'
<1>1. \A x \in Known : ItemOK(x)'
  <2>1. SUFFICES ASSUME NEW x \in Known PROVE ItemOK(x)'
    OBVIOUS
  <2>2. ItemOK(x)
    BY DEF ItemsInv
  <2>3. x[2] # 0 /\ x[1] \in receipts' => Says(chat', x[2])
    BY <2>2, SaysStays DEF ItemOK, Adds
  <2> QED
    BY <2>2, <2>3 DEF ItemOK, Adds
<1>2. receipts' \subseteq 1..items' /\ items' \in Nat
  BY DEF ItemsInv
<1> QED
  BY <1>1, <1>2 DEF ItemsInv


\* What is acked leaves the outbox; it is at the office.
LEMMA AckedIsOK ==
  ASSUME NEW excused, WordsInv', NEW ok, AckOutboxItems(ok),
         DbOK(db, excused, Rows', chat', Past'),
         \A x \in Told(db.outbox) : x[1] \in ok /\ x[2] # 0 => Says(chat', x[2])
  PROVE  /\ DbOK(db', excused, Rows', chat', Past') /\ DbAdds
         /\ Told(db'.outbox) \subseteq Told(db.outbox)
<1> DEFINE box == db.outbox
           done == {i \in DOMAIN box : box[i].id \in ok}
           left == DOMAIN box \ done
           synced == {box[i].body.no : i \in {j \in done : box[j].body.kind = "version"}}
           now == [n \in DOMAIN db.versions |->
                     IF n \in synced /\ db.versions[n].state = "submitted"
                     THEN [data |-> db.versions[n].data, state |-> "synced"]
                     ELSE db.versions[n]]
<1>1. PICK q \in InOrder(left) :
        db' = [db EXCEPT !.outbox = [j \in DOMAIN q |-> box[q[j]]], !.versions = now]
  BY DEF AckOutboxItems
<1> DEFINE rest == [j \in DOMAIN q |-> box[q[j]]]
<1>2. Database(db) /\ Queue(box)
  BY DEF DbOK
<1>3. Queue(rest) /\ Told(rest) = {<<box[i].id, Message(box[i])>> : i \in left}
  <2>1. left \in SUBSET (DOMAIN box)
    OBVIOUS
  <2> HIDE DEF left, box
  <2> QED
    BY <1>2, <2>1, Picked
<1>4. DOMAIN now = DOMAIN db.versions
  OBVIOUS
<1>5. \A n \in DOMAIN now : /\ now[n].data = db.versions[n].data
                            /\ db.versions[n].state # "draft" => now[n].state # "draft"
  OBVIOUS
<1>6. \A x \in Told(box) : x \in Told(rest) \/ x[1] \in ok
  BY <1>3 DEF Told
<1>7. Told(rest) \subseteq Told(box)
  BY <1>3 DEF Told
<1> HIDE DEF now, rest
<1>8. /\ Database(db') /\ db'.wall = db.wall /\ db'.outbox = rest
      /\ db'.chatCursor = db.chatCursor /\ db'.restoreCursor = db.restoreCursor
      /\ db'.versions = now
  <2>1. db' = [db EXCEPT !.outbox = rest, !.versions = now]
    BY <1>1 DEF rest
  <2> QED
    BY <1>2, <2>1 DEF Database
<1> HIDE DEF box
<1>9. DbAdds
  <2>1. KeptIn(db, db')
    BY <1>4, <1>5, <1>8 DEF KeptIn, Kept
  <2> QED
    BY <1>8, <2>1 DEF DbAdds
<1>10. ASSUME NEW row \in db'.wall, row.by = "vessel"
       PROVE  \/ Says(chat', row.id) \/ row.id \in excused
              \/ \E x \in Told(db'.outbox) : x[2] = row.id
  <2>1. \/ Says(chat', row.id) \/ row.id \in excused
        \/ \E x \in Told(box) : x[2] = row.id
    BY <1>8, <1>10 DEF DbOK, WallOK, box
  <2>2. ASSUME NEW x \in Told(box), x[2] = row.id
        PROVE  Says(chat', row.id) \/ \E y \in Told(db'.outbox) : y[2] = row.id
    <3>1. CASE x \in Told(rest)
      BY <1>8, <2>2, <3>1
    <3>2. CASE x[1] \in ok
      <4>1. row.id # 0
        <5>1. row \in Rows' /\ authors' \in Seq({"vessel", "office"})
          BY <1>8, <1>10 DEF DbOK, WallOK, WordsInv
        <5>2. PICK id \in DOMAIN authors' : row = [id |-> id, by |-> authors'[id]]
          BY <5>1 DEF Rows, Row, ChatMessageToDomain
        <5> QED
          BY <5>1, <5>2
      <4> QED
        BY <2>2, <3>2, <4>1 DEF box
    <3> QED
      BY <1>6, <3>1, <3>2
  <2> QED
    BY <2>1, <2>2
<1>11. WallOK(db', excused, Rows', chat', Past')
  BY <1>8, <1>10 DEF DbOK, WallOK
<1>12. DbOK(db', excused, Rows', chat', Past')
  BY <1>3, <1>4, <1>8, <1>11 DEF DbOK
<1> QED
  BY <1>7, <1>8, <1>9, <1>12 DEF box

\* A push, however far it gets: I, the places whose items were received; ok, the
\* ids that have a receipt for it.
LEMMA PushKeepsIInv ==
  ASSUME IInv, NEW c \in Cycles, work[c].stage = "push",
         NEW I \in SUBSET (DOMAIN work[c].batch), LandAll(work[c].batch, I),
         NEW ok \in SUBSET Ids(work[c].batch, I), receipts' = receipts \cup ok,
         db' = db \/ AckOutboxItems(ok),
         NEW to \in {[stage |-> "pull"], [stage |-> "report", ids |-> {}]}, Go(c, to),
         UNCHANGED <<snapshot, post, submitting, commands, ids, history>>
  PROVE  IInv'
<1> DEFINE x == work[c]
           batch == x.batch
<1>1. c \in Workers /\ c # "import" /\ Queue(batch)
  BY CycleStages DEF IInv
<1>2. Told(batch) \subseteq Known
  BY <1>1 DEF Known, Sent, SentBy
<1>3. Landed(batch, I)
  BY <1>1, <1>2, AllLand DEF IInv, RestoredInv
<1>4. ok \subseteq 1..items /\ \A y \in Known : y[1] \in ok /\ y[2] # 0 => Says(chat', y[2])
  BY <1>2, <1>3, ReceivedAreAtOffice DEF IInv
<1>5. Rows' = Rows
  BY DEF Rows, Row, ChatMessageToDomain, ids
<1>6. Adds
  BY <1>3, <1>5 DEF Adds, Landed, ids, history, Past, Grown
<1>7. WordsInv'
  BY <1>3, <1>5 DEF IInv, WordsInv, Landed, ids
<1>8. DbOK(db, unqueued \cup {post}, Rows', chat', Past')
  <2>1. DbOK(db, unqueued \cup {post}, Rows, chat, Past)
    BY DEF IInv, DbInv
  <2> QED
    BY <1>6, <2>1, DbStays DEF Adds
<1>9. /\ DbOK(db', unqueued \cup {post}, Rows', chat', Past') /\ DbAdds
      /\ Told(db'.outbox) \subseteq Told(db.outbox)
  <2>1. CASE db' = db
    BY <1>8, <2>1, SameVersionsKept DEF DbAdds
  <2>2. CASE AckOutboxItems(ok)
    <3>1. \A y \in Told(db.outbox) : y[1] \in ok /\ y[2] # 0 => Says(chat', y[2])
      BY <1>4 DEF Known
    <3> QED
      BY <1>7, <1>8, <2>2, <3>1, AckedIsOK
  <2> QED
    BY <2>1, <2>2
<1>10. DbInv'
  BY <1>9 DEF DbInv, history, Past
<1>11. WorkOK(c, to, Rows', chat', db', Past') /\ SentBy(to) = {}
  <2>1. CASE to = [stage |-> "pull"]
    <3>1. to.stage = "pull"
      BY <2>1
    <3> QED
      BY <1>1, <2>1, <3>1, NothingSent DEF WorkOK, CycleOK
  <2>2. CASE to = [stage |-> "report", ids |-> {}]
    <3>1. {} \subseteq Past'.executed
      OBVIOUS
    <3> QED
      BY <2>2, <3>1, ReportingIsOK
  <2> QED
    BY <2>1, <2>2
<1>12. WorkInv'
  BY <1>1, <1>6, <1>9, <1>11, WorkerGoes DEF IInv
<1>13. ItemsInv'
  <2>1. Told(db'.outbox) \subseteq Known
    BY <1>9 DEF Known
  <2>2. Known' \subseteq Known \cup {}
    BY <1>1, <1>11, <2>1, KnownWhenGoing DEF IInv
  <2>3. items' = items /\ Known' \subseteq Known
    BY <2>2 DEF ids
  <2> QED
    BY <1>4, <1>6, <2>3, ItemsReceived DEF IInv
<1>14. SnapshotInv'
  BY <1>6, SnapshotStays DEF IInv, history, Past
<1>15. RestoredInv'
  BY <1>3, <1>9 DEF IInv, RestoredInv, Landed, DbAdds, KeptIn, history, Past
<1> QED
  BY <1>7, <1>10, <1>12, <1>13, <1>14, <1>15 DEF IInv

LEMMA PushOutboxKeepsIInv ==
  ASSUME IInv, NEW c \in Cycles, PushOutbox(c)
  PROVE  IInv'
<1> DEFINE batch == work[c].batch
           ok == AcceptedOf(batch)
           I == {i \in DOMAIN batch : batch[i].id \in ok}
           to == IF work[c].open THEN [stage |-> "pull"] ELSE [stage |-> "report", ids |-> {}]
<1>1. /\ work[c].stage = "push" /\ LandAll(batch, I) /\ receipts' = receipts \cup ok
      /\ db' = db \/ AckOutboxItems(ok)
      /\ Go(c, to)
      /\ UNCHANGED <<snapshot, post, submitting, commands, ids, history>>
  BY DEF PushOutbox, orders
<1>2. ok \subseteq Ids(batch, I) /\ I \subseteq DOMAIN batch
  BY DEF AcceptedOf, Ids
<1>3. to \in {[stage |-> "pull"], [stage |-> "report", ids |-> {}]}
  OBVIOUS
<1> HIDE DEF I, ok, to
<1> QED
  BY <1>1, <1>2, <1>3, PushKeepsIInv

LEMMA PushBreaksOffKeepsIInv ==
  ASSUME IInv, NEW c \in Cycles, PushBreaksOff(c)
  PROVE  IInv'
<1> DEFINE batch == work[c].batch
           to == [stage |-> "pull"]
<1>1. PICK n \in 0..Len(batch), half \in {0, 1} :
        /\ n + half <= Len(batch) /\ LandAll(batch, 1..(n + half))
        /\ receipts' = receipts \cup (AcceptedOf(batch) \cap Ids(batch, 1..n))
  BY DEF PushBreaksOff
<1>2. work[c].stage = "push" /\ Go(c, to) /\ db' = db
      /\ UNCHANGED <<snapshot, post, submitting, commands, ids, history>>
  BY DEF PushBreaksOff, vessel, orders
<1> DEFINE I == 1..(n + half)
           ok == AcceptedOf(batch) \cap Ids(batch, 1..n)
<1>3. DOMAIN batch = 1..Len(batch) /\ Len(batch) \in Nat
  <2> DEFINE S == {batch[i] : i \in DOMAIN batch}
  <2>1. batch \in Seq(S)
    BY <1>2, CycleStages DEF IInv, Queue
  <2> HIDE DEF S
  <2> QED
    BY <2>1
<1>4. I \subseteq DOMAIN batch /\ 1..n \subseteq I
  BY <1>1, <1>3
<1>5. ok \subseteq Ids(batch, I)
  BY <1>4 DEF Ids
<1>6. to \in {[stage |-> "pull"], [stage |-> "report", ids |-> {}]}
  OBVIOUS
<1> HIDE DEF I, to
<1> QED
  BY <1>1, <1>2, <1>4, <1>5, <1>6, PushKeepsIInv DEF I, to

-----------------------------------------------------------------------------
(* The theorems. *)

LEMMA InvInit ==
  ASSUME Init
  PROVE  IInv
<1>1. /\ snapshot = None /\ post = 0 /\ submitting = 0 /\ landed = <<0>>
      /\ work = [w \in Workers |-> Rest]
      /\ chat = <<>> /\ receipts = {} /\ commands = <<>>
      /\ items = 0 /\ authors = <<>>
      /\ executed = {} /\ restored = <<>> /\ unqueued = {}
  BY DEF Init
<1> DEFINE one == <<[data |-> 0, state |-> "synced"]>>
<1>2. /\ Database(db) /\ db.versions = one /\ db.wall = {} /\ db.outbox = <<>>
      /\ db.chatCursor = 0 /\ db.restoreCursor = 0
  <2> HIDE DEF one
  <2>1. PICK yes, first : yes = TRUE /\ first = 1
    OBVIOUS
  <2>2. db = [Fresh EXCEPT !.ready = yes, !.master = first, !.enrolled = yes, !.versions = one]
    BY <2>1 DEF Init, one
  <2>3. /\ Database(Fresh) /\ Fresh.wall = {} /\ Fresh.outbox = <<>>
        /\ Fresh.chatCursor = 0 /\ Fresh.restoreCursor = 0
    BY DEF Fresh, Database
  <2> QED
    BY <2>2, <2>3 DEF Database
<1>3. DOMAIN one = {1}
  OBVIOUS
<1> HIDE DEF one
<1>4. WordsInv
  BY <1>1 DEF WordsInv
<1>5. Told(Fresh.outbox) = {} /\ DbOK(Fresh, {0}, Rows, chat, Past)
  BY <1>4, FreshIsOK
<1>6. DbInv
  <2>1. Bounded({1})
    BY DEF Bounded
  <2>2. /\ Queue(<<>>) /\ Heard(chat, {}, 0, Past.missed)
        /\ Executed(0, Past.executed \cup Past.skipped)
    BY <1>5 DEF DbOK, WallOK, Fresh
  <2> QED
    BY <1>2, <1>3, <2>1, <2>2 DEF DbInv, DbOK, WallOK
<1>7. WorkInv /\ Sent(work) = {}
  <2>1. \A w \in Workers : work[w] = Rest /\ WorkOK(w, Rest, Rows, chat, db, Past)
    BY <1>1, RestingIsOK
  <2> QED
    BY <1>1, <2>1, RestingIsOK DEF WorkInv, Sent
<1>8. ItemsInv
  <2>1. Known = {}
    BY <1>1, <1>2, <1>5, <1>7 DEF Known, Saved, Fresh
  <2> QED
    BY <1>1, <2>1 DEF ItemsInv
<1>9. SnapshotInv
  BY <1>1 DEF SnapshotInv
<1>10. RestoredInv
  BY <1>1 DEF RestoredInv
<1> QED
  BY <1>4, <1>6, <1>7, <1>8, <1>9, <1>10 DEF IInv

LEMMA InvStep ==
  ASSUME IInv, [Next]_vars
  PROVE  IInv'
<1>1. CASE Next
  <2>1. CASE SetupMode \/ Enroll \/ SetupMaster \/ Login
    BY <2>1, SetupKeepsIInv
  <2>2. CASE StartCorrection \/ SubmitReport \/ EnqueueReportVersion
    BY <2>2, StartCorrectionKeepsIInv, SubmitReportKeepsIInv,
       EnqueueReportVersionKeepsIInv
  <2>3. CASE InsertChatMessage \/ EnqueueChatMessage \/ PostFromOffice
    BY <2>3, InsertChatMessageKeepsIInv, EnqueueChatMessageKeepsIInv,
       PostFromOfficeKeepsIInv
  <2>4. CASE QueueRestoreCommand \/ ImportRestoreBundle
    BY <2>4, QueueRestoreCommandKeepsIInv, ImportKeepsIInv
  <2>9. ASSUME NEW i, CommitMessage(i) \/ CommitRestoreCommand(i)
        PROVE  IInv'
    BY <2>9, CommitsKeepIInv DEF CommitMessage, CommitRestoreCommand, messages, orders
  <2>5. CASE ApplyRestoreBundle("import") \/ FinishRestore("import")
    BY <2>5, ApplyRestoreBundleKeepsIInv, FinishRestoreKeepsIInv DEF Workers
  <2>6. ASSUME NEW c \in Cycles, BeginCycle(c) \/ PushBreaksOff(c) \/ LoseCall(c)
        PROVE  IInv'
    BY <2>6, BeginCycleKeepsIInv, PushBreaksOffKeepsIInv, LoseCallKeepsIInv
  <2>7. ASSUME NEW c \in Cycles, CycleStep(c)
        PROVE  IInv'
    <3>1. CASE ApplyRestoreBundle(c) \/ FinishRestore(c)
      BY <3>1, ApplyRestoreBundleKeepsIInv, FinishRestoreKeepsIInv DEF Workers
    <3>2. CASE PushOutbox(c) \/ PullInbox(c) \/ FetchRestoreBundle(c)
      BY <3>2, PushOutboxKeepsIInv, PullInboxKeepsIInv, FetchKeepsIInv
    <3>3. CASE ApplyInboxPull(c) \/ ReportStatus(c)
      BY <3>3, ApplyInboxPullKeepsIInv, ReportStatusKeepsIInv
    <3> QED
      BY <2>7, <3>1, <3>2, <3>3 DEF CycleStep
  <2>8. CASE PowerCut \/ RunNightlySnapshot \/ RestoreDatabase \/ LoseVessel
    BY <2>8, PowerCutKeepsIInv, SnapshotKeepsIInv, RestoreDatabaseKeepsIInv,
       LoseVesselKeepsIInv
  <2> QED
    BY <1>1, <2>1, <2>2, <2>3, <2>4, <2>5, <2>6, <2>7, <2>8, <2>9 DEF Next
<1>2. CASE UNCHANGED vars
  <2>1. UNCHANGED <<vessel, work, office, ids, history>>
    BY <1>2 DEF vars
  <2>2. Rows' = Rows /\ Known' = Known
    BY <2>1 DEF Rows, Row, ChatMessageToDomain, Known, Sent, vessel, ids
  <2>3. WordsInv' /\ ItemsInv'
    BY <2>1, <2>2 DEF IInv, WordsInv, ItemsInv, ItemOK, vessel, office, ids
  <2>4. DbInv' /\ SnapshotInv' /\ WorkInv'
    BY <2>1, <2>2 DEF IInv, DbInv, SnapshotInv, WorkInv, vessel, office, history, Past
  <2>5. RestoredInv'
    BY <2>1 DEF IInv, RestoredInv, vessel, office, history, Past
  <2> QED
    BY <2>3, <2>4, <2>5 DEF IInv
<1> QED
  BY <1>1, <1>2

\* In every reachable state each item has one message, what was received is at
\* the office, every row is as its author wrote it, and a bundle that goes in
\* has what it had when it was built: through lost calls, power cuts, snapshots
\* put back (restoreFromSnapshot) and lost computers.
THEOREM Inductive == Spec => []IInv
<1>1. Init => IInv
  BY InvInit
<1>2. IInv /\ [Next]_vars => IInv'
  BY InvStep
<1> QED
  BY <1>1, <1>2, PTL DEF Spec

\* Whatever is lost or put back, both walls show who wrote a message; what the
\* vessel wrote is at the office or queued for it, unless its request
\* (handlePostChat) was cut before it was queued; and its chat cursor
\* (ApplyInboxPull) has passed a message that its wall does not show only if
\* that one had drawn its seq and was not committed when a pull read a later one.
THEOREM WallsAlwaysAgree == Spec => []WallsAgree
<1>1. IInv => WallsAgree
  <2>1. SUFFICES ASSUME IInv PROVE WallsAgree
    OBVIOUS
  <2>2. /\ chat \in Seq(Rows) /\ db.wall \subseteq Rows /\ Queue(db.outbox)
        /\ WallOK(db, Excused, Rows, chat, Past)
    BY <2>1 DEF IInv, WordsInv, DbInv, DbOK, WallOK, Excused
  <2>3. ToSet(chat) \subseteq Rows
    BY <2>2 DEF ToSet
  <2>4. \A row \in Rows : row = Row(row.id)
    BY DEF Rows, Row, ChatMessageToDomain
  <2>5. ASSUME NEW row \in db.wall, row.by = "vessel"
        PROVE  \/ AtOffice(row.id) \/ row.id \in Excused
               \/ \E item \in ToSet(db.outbox) :
                    item.body.kind = "chat" /\ item.body.message = row.id
    <3>1. \/ Says(chat, row.id) \/ row.id \in Excused
          \/ \E x \in Told(db.outbox) : x[2] = row.id
      BY <2>2, <2>5 DEF WallOK
    <3>2. ASSUME NEW x \in Told(db.outbox), x[2] = row.id
          PROVE  \E item \in ToSet(db.outbox) :
                   item.body.kind = "chat" /\ item.body.message = row.id
      <4>1. PICK i \in DOMAIN db.outbox :
              x = <<db.outbox[i].id, Message(db.outbox[i])>>
        BY <3>2 DEF Told
      <4>2. row.id # 0
        <5>1. row \in Rows /\ authors \in Seq({"vessel", "office"})
          BY <2>1, <2>2, <2>5 DEF IInv, WordsInv
        <5>2. PICK id \in DOMAIN authors : row = [id |-> id, by |-> authors[id]]
          BY <5>1 DEF Rows, Row, ChatMessageToDomain
        <5> QED
          BY <5>1, <5>2
      <4>3. Message(db.outbox[i]) = row.id
        BY <3>2, <4>1
      <4>4. db.outbox[i] \in ToSet(db.outbox)
        BY <4>1 DEF ToSet
      <4> QED
        BY <4>2, <4>3, <4>4 DEF Message
    <3> QED
      BY <3>1, <3>2 DEF AtOffice, Says
  <2>6. \A i \in 1..db.chatCursor :
          chat[i].by = "office" => chat[i] \in db.wall \/ i \in missed
    BY <2>2 DEF WallOK, Heard, Past
  <2> QED
    BY <2>2, <2>3, <2>4, <2>5, <2>6 DEF WallsAgree
<1> QED
  BY <1>1, Inductive, PTL

\* A restore bundle that went in (applyRestoreBundle) went in whole and stays,
\* until the vessel's database is another; a command shown as applied was
\* executed, and the restore cursor has passed one that was not only if it had
\* drawn its seq and was not committed when a pull read a later one.
THEOREM RestoresAreWhole == Spec => []RestoredIsWhole
<1>1. IInv => RestoredIsWhole
  BY DEF IInv, RestoredInv, Kept, DbInv, DbOK, Executed, Past, RestoredIsWhole
<1> QED
  BY <1>1, Inductive, PTL

=============================================================================
