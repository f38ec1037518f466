------------------------- MODULE OfficeLanding_proofs -------------------------
(***************************************************************************)
(* Proofs about OfficeLanding, for any set of items and rules and any      *)
(* number of calls and requests: that an acked item has landed, that a pull *)
(* misses nothing and that the notices are current, the last two while the *)
(* vessel pushes one batch at a time.                                      *)
(***************************************************************************)
EXTENDS OfficeLanding, TLAPS, WellFoundedInduction, SequenceTheorems,
        FiniteSetTheorems

\* A sequence, whatever its elements are.
Sequential(s) == s \in Seq(Range(s))

\* The audit event an item carries.
Sent(i) == [k |-> <<i.r, i.v>>, type |-> "vessel", id |-> i.no]

\* The items that are in the office's tables.
Landed ==
  {i \in Items : IF i.kind = "reportVersion" THEN <<i.r, i.v>> \in Keys
                 ELSE Sent(i) \in DOMAIN audit}

\* A statement that lands i.
Lands(s, i) ==
  \/ s.op = "land" /\ s.i = i
  \/ s.op = "event" /\ s.e = Sent(i) /\ i.kind # "reportVersion"

\* What a process has still to execute, given what has landed: a receipt
\* waits for its own item only, and no receipt is behind the next item.
ListOK(q, landed) ==
  /\ Sequential(q)
  /\ \A n \in 1..Len(q) :
       /\ q[n].op \in {"apply", "land", "receipt"} => q[n].i \in Items
       /\ q[n].op = "receipt" =>
            /\ q[n].i \in landed \/ Lands(q[1], q[n].i)
            /\ \A m \in 1..(n - 1) : q[m].op # "apply"

ListsOK(lists, landed) ==
  /\ lists = [p \in Procs |-> lists[p]]
  /\ \A p \in Procs : ListOK(lists[p], landed)

\* The items with these numbers have landed.
NumbersOK(ns, landed) == \A i \in Items : i.no \in ns => i \in landed

IInv ==
  /\ IsFiniteSet(Keys)
  /\ ListsOK(todo, Landed)
  /\ acks = [p \in Procs |-> acks[p]]
  /\ \A p \in Procs : NumbersOK(acks[p], Landed)
  /\ NumbersOK(receipts, Landed) /\ NumbersOK(acked, Landed)

-----------------------------------------------------------------------------
(* Lists of statements. *)

\* A set of numbers that is not empty has a least one.
LEMMA LeastNumber ==
  ASSUME NEW S \in SUBSET Nat, S # {}
  PROVE  Min(S) \in S
<1>1. IsWellFoundedOn(OpToRel(<, Nat), Nat)
  BY NatLessThanWellFounded
<1>2. PICK m \in S : \A k \in S : <<k, m>> \notin OpToRel(<, Nat)
  BY <1>1, WFMin, Zenon
<1>3. \A k \in S : ~(k < m)
  BY <1>2 DEF OpToRel
<1>4. \A k \in S : m =< k
  BY <1>3
<1> QED
  BY <1>4 DEF Min

\* A function on 1..n is a sequence.
LEMMA Listed ==
  ASSUME NEW n \in Nat, NEW s, s = [j \in 1..n |-> s[j]]
  PROVE  Sequential(s) /\ Len(s) = n /\ DOMAIN s = 1..n
<1>1. DOMAIN s = 1..n
  OBVIOUS
<1>2. s \in [1..n -> Range(s)]
  BY <1>1 DEF Range
<1>3. s \in Seq(Range(s))
  BY <1>2, SeqDef, Zenon
<1> QED
  BY <1>1, <1>2, <1>3 DEF Sequential

\* ... and every sequence is one.
LEMMA ElementsOf ==
  ASSUME NEW S, NEW s \in Seq(S)
  PROVE  Len(s) \in Nat /\ DOMAIN s = 1..Len(s) /\ s = [j \in 1..Len(s) |-> s[j]]
OBVIOUS

\* What a sequence is made of.
LEMMA Unlisted ==
  ASSUME NEW s, Sequential(s)
  PROVE  Len(s) \in Nat /\ DOMAIN s = 1..Len(s) /\ s = [j \in 1..Len(s) |-> s[j]]
BY DEF Sequential

\* One sequence after another.
LEMMA Joined ==
  ASSUME NEW s, NEW t, Sequential(s), Sequential(t)
  PROVE  /\ Sequential(s \o t) /\ Len(s \o t) = Len(s) + Len(t)
         /\ \A j \in 1..Len(s) : (s \o t)[j] = s[j]
         /\ \A j \in 1..Len(t) : (s \o t)[Len(s) + j] = t[j]
         /\ \A j \in (Len(s) + 1)..(Len(s) + Len(t)) : (s \o t)[j] = t[j - Len(s)]
<1> DEFINE R == Range(s) \cup Range(t)
<1>1. s \in Seq(R) /\ t \in Seq(R)
  <2>1. s \in [1..Len(s) -> R] /\ t \in [1..Len(t) -> R] /\ Len(s) \in Nat /\ Len(t) \in Nat
    BY DEF Sequential
  <2> QED
    BY <2>1, SeqDef, Zenon
<1>2. s \o t \in Seq(R) /\ Len(s \o t) = Len(s) + Len(t)
  BY <1>1
<1>3. /\ \A j \in 1..Len(s) : (s \o t)[j] = s[j]
      /\ \A j \in 1..Len(t) : (s \o t)[Len(s) + j] = t[j]
      /\ \A j \in (Len(s) + 1)..(Len(s) + Len(t)) : (s \o t)[j] = t[j - Len(s)]
  BY <1>1
<1>4. s \o t = [j \in 1..Len(s \o t) |-> (s \o t)[j]] /\ Len(s \o t) \in Nat
  BY <1>2, ElementsOf
<1> QED
  BY <1>2, <1>3, <1>4, Listed

\* A sequence without its first element.
LEMMA Rest ==
  ASSUME NEW s, Sequential(s), s # <<>>
  PROVE  /\ Sequential(Tail(s)) /\ Len(s) \in Nat \ {0} /\ Len(Tail(s)) = Len(s) - 1
         /\ Head(s) = s[1]
         /\ \A j \in 1..Len(Tail(s)) : Tail(s)[j] = s[j + 1]
<1>1. Len(s) \in Nat \ {0} /\ Head(s) = s[1] /\ Len(Tail(s)) = Len(s) - 1
      /\ Tail(s) \in Seq(Range(s))
      /\ \A j \in 1..Len(Tail(s)) : Tail(s)[j] = s[j + 1]
  BY DEF Sequential
<1>2. Tail(s) = [j \in 1..Len(Tail(s)) |-> Tail(s)[j]] /\ Len(Tail(s)) \in Nat
  BY <1>1, ElementsOf
<1> QED
  BY <1>1, <1>2, Listed

\* f is what follows in q of a statement with an op, the statement included.
FollowsFrom(f, q, op) ==
  \E m \in 1..Len(q) :
    /\ q[m].op = op
    /\ Len(f) = Len(q) - m + 1
    /\ \A j \in 1..Len(f) : f[j] = q[m + j - 1]

\* What is left from the first statement with an op.
LEMMA FromIs ==
  ASSUME NEW q, Sequential(q), NEW op
  PROVE  /\ Sequential(From(q, op))
         /\ From(q, op) = <<>> \/ FollowsFrom(From(q, op), q, op)
<1> DEFINE ks == {k \in DOMAIN q : q[k].op = op}
<1>0. Len(q) \in Nat /\ DOMAIN q = 1..Len(q) /\ q \in Seq(Range(q))
  BY Unlisted DEF Sequential
<1>1. CASE ks = {}
  <2>1. From(q, op) = <<>>
    BY <1>1 DEF From
  <2> QED
    BY <2>1 DEF Sequential
<1>2. CASE ks # {}
  <2> DEFINE m == Min(ks)
  <2>1. ks \in SUBSET Nat
    BY <1>0
  <2>2. m \in ks
    BY <1>2, <2>1, LeastNumber
  <2>3. m \in 1..Len(q) /\ q[m].op = op
    BY <1>0, <2>2
  <2>4. From(q, op) = SubSeq(q, m, Len(q))
    BY <1>2 DEF From
  <2> HIDE DEF m
  <2>5. SubSeq(q, m, Len(q)) = [j \in 1..(Len(q) - m + 1) |-> q[m + j - 1]]
    BY <1>0, <2>3
  <2>6. Len(q) - m + 1 \in Nat
    BY <1>0, <2>3
  <2>7. Sequential(From(q, op)) /\ Len(From(q, op)) = Len(q) - m + 1
    BY <2>4, <2>5, <2>6, Listed
  <2>8. \A j \in 1..Len(From(q, op)) : From(q, op)[j] = q[m + j - 1]
    BY <2>4, <2>5, <2>7
  <2> QED
    BY <2>3, <2>7, <2>8 DEF FollowsFrom
<1> QED
  BY <1>1, <1>2

\* A list without items or receipts is right, whatever has landed.
Plain(s) ==
  Sequential(s) /\ \A n \in 1..Len(s) : s[n].op \notin {"apply", "land", "receipt"}

\* The first statement is replaced by plain ones, and what it was to land has
\* landed or is landed by the first of them.
LEMMA ThenOK ==
  ASSUME NEW q, NEW s, NEW had, NEW has, ListOK(q, had), q # <<>>, had \subseteq has,
         Plain(s),
         \A i \in Items : Lands(Head(q), i) => i \in has \/ (s # <<>> /\ Lands(Head(s), i))
  PROVE  ListOK(s \o Tail(q), has)
<1> DEFINE t == Tail(q)
           u == s \o t
<1>1. /\ Sequential(t) /\ Len(q) \in Nat \ {0} /\ Len(t) = Len(q) - 1 /\ Head(q) = q[1]
      /\ \A j \in 1..Len(t) : t[j] = q[j + 1]
  BY Rest DEF ListOK
<1>2. /\ Sequential(u) /\ Len(u) = Len(s) + Len(t) /\ Len(s) \in Nat /\ Len(t) \in Nat
      /\ \A j \in 1..Len(s) : u[j] = s[j]
      /\ \A j \in 1..Len(t) : u[Len(s) + j] = t[j]
      /\ \A j \in (Len(s) + 1)..(Len(s) + Len(t)) : u[j] = t[j - Len(s)]
  BY <1>1, Joined, Unlisted DEF Plain
<1>4. \A i \in Items : i \in had \/ Lands(q[1], i) => i \in has \/ (s # <<>> /\ Lands(Head(s), i))
  BY <1>1
<1> HIDE DEF t, u
<1>3. ASSUME NEW n \in 1..Len(u)
      PROVE  /\ u[n].op \in {"apply", "land", "receipt"} => u[n].i \in Items
             /\ u[n].op = "receipt" =>
                  /\ u[n].i \in has \/ Lands(u[1], u[n].i)
                  /\ \A m \in 1..(n - 1) : u[m].op # "apply"
  <2>1. CASE n \in 1..Len(s)
    BY <1>2, <2>1 DEF Plain
  <2>2. CASE n \in (Len(s) + 1)..(Len(s) + Len(t))
    <3> DEFINE j == n - Len(s) + 1
    <3>1. j \in 1..Len(q) /\ j - 1 \in 1..Len(t) /\ j \in Nat
      BY <1>1, <1>2, <2>2
    <3>2. u[n] = q[j]
      <4>1. u[n] = t[n - Len(s)] /\ n - Len(s) \in 1..Len(t)
        BY <1>2, <2>2
      <4> QED
        BY <1>1, <4>1
    <3>3. q[j].op \in {"apply", "land", "receipt"} => q[j].i \in Items
      BY <3>1 DEF ListOK
    <3>4. ASSUME q[j].op = "receipt" PROVE q[j].i \in has \/ Lands(u[1], q[j].i)
      <4>1. q[j].i \in Items /\ (q[j].i \in had \/ Lands(q[1], q[j].i))
        BY <3>1, <3>3, <3>4 DEF ListOK
      <4>2. q[j].i \in has \/ (s # <<>> /\ Lands(Head(s), q[j].i))
        BY <1>4, <4>1
      <4>3. s # <<>> => u[1] = Head(s)
        <5>1. s # <<>> => Len(s) \in Nat \ {0} /\ Head(s) = s[1]
          BY Rest DEF Plain
        <5> QED
          BY <1>2, <5>1
      <4> QED
        BY <4>2, <4>3
    <3>5. ASSUME q[j].op = "receipt", NEW m \in 1..(n - 1) PROVE u[m].op # "apply"
      <4>1. CASE m \in 1..Len(s)
        BY <1>2, <4>1 DEF Plain
      <4>2. CASE m \notin 1..Len(s)
        <5>1. m \in (Len(s) + 1)..(Len(s) + Len(t)) /\ m - Len(s) \in 1..Len(t)
              /\ m - Len(s) + 1 \in 1..(j - 1)
          BY <1>2, <2>2, <4>2
        <5>2. u[m] = q[m - Len(s) + 1]
          BY <1>1, <1>2, <5>1
        <5> QED
          BY <3>1, <3>5, <5>1, <5>2 DEF ListOK
      <4> QED
        BY <4>1, <4>2
    <3> QED
      BY <3>2, <3>3, <3>4, <3>5
  <2> QED
    BY <1>2, <2>1, <2>2
<1> QED
  BY <1>2, <1>3 DEF ListOK, t, u

\* A tail of a list, all of whose receipts are for what has landed.
LEMMA FromOK ==
  ASSUME NEW q, NEW had, ListOK(q, had), q # <<>>, NEW op,
         \/ op = "apply"
         \/ \A i : ~Lands(Head(q), i)
  PROVE  ListOK(From(Tail(q), op), had)
<1> DEFINE t == Tail(q)
           f == From(t, op)
<1>1. /\ Sequential(t) /\ Len(q) \in Nat \ {0} /\ Len(t) = Len(q) - 1 /\ Head(q) = q[1]
      /\ \A j \in 1..Len(t) : t[j] = q[j + 1]
  BY Rest DEF ListOK
<1> HIDE DEF t
<1>2. Sequential(f) /\ (f = <<>> \/ FollowsFrom(f, t, op))
  BY <1>1, FromIs
<1> HIDE DEF f
<1>3. CASE f = <<>>
  BY <1>2, <1>3 DEF ListOK, f, t
<1>4. ASSUME NEW m \in 1..Len(t), t[m].op = op, Len(f) = Len(t) - m + 1,
             \A j \in 1..Len(f) : f[j] = t[m + j - 1]
      PROVE  ListOK(f, had)
  <2>1. \A j \in 1..Len(f) : j + m \in 1..Len(q) /\ f[j] = q[j + m]
    BY <1>1, <1>4
  <2>2. Len(f) \in Nat
    BY <1>2, Unlisted
  <2>3. ASSUME NEW j \in 1..Len(f), f[j].op = "receipt"
        PROVE  f[j].i \in had /\ \A n \in 1..(j - 1) : f[n].op # "apply"
    <3>1. q[j + m].op = "receipt" /\ j + m \in 1..Len(q)
      BY <2>1, <2>3
    <3>2. /\ q[j + m].i \in had \/ Lands(q[1], q[j + m].i)
          /\ \A n \in 1..(j + m - 1) : q[n].op # "apply"
      BY <3>1 DEF ListOK
    <3>3. op # "apply"
      <4>1. m + 1 \in 1..Len(q) /\ t[m] = q[m + 1]
        BY <1>1, <1>4
      <4>2. CASE j = 1
        BY <1>1, <1>4, <2>1, <2>3, <4>1, <4>2
      <4>3. CASE j # 1
        <5>1. m + 1 \in 1..(j + m - 1)
          BY <2>2, <2>3, <4>3
        <5> QED
          BY <1>4, <3>2, <4>1, <5>1
      <4> QED
        BY <4>2, <4>3
    <3>4. f[j].i \in had
      BY <1>1, <2>1, <3>2, <3>3
    <3>5. \A n \in 1..(j - 1) : f[n].op # "apply"
      <4>1. ASSUME NEW n \in 1..(j - 1) PROVE f[n].op # "apply"
        <5>1. n \in 1..Len(f) /\ n + m \in 1..(j + m - 1)
          BY <2>2, <2>3, <1>4
        <5> QED
          BY <2>1, <3>2, <5>1
      <4> QED
        BY <4>1
    <3> QED
      BY <3>4, <3>5
  <2>4. \A j \in 1..Len(f) : f[j].op \in {"apply", "land", "receipt"} => f[j].i \in Items
    BY <2>1 DEF ListOK
  <2> QED
    BY <1>2, <2>3, <2>4 DEF ListOK
<1> QED
  BY <1>2, <1>3, <1>4 DEF f, t, FollowsFrom

\* Lists without items or receipts.
LEMMA PlainNone == Plain(<<>>)
BY DEF Plain, Sequential

\* ... of one statement.
LEMMA PlainOne ==
  ASSUME NEW x, x.op \notin {"apply", "land", "receipt"} PROVE Plain(<<x>>)
<1>1. <<x>> \in Seq({x}) /\ Len(<<x>>) = 1 /\ <<x>>[1] = x
  OBVIOUS
<1>2. Sequential(<<x>>)
  BY <1>1, ElementsOf, Listed
<1> QED
  BY <1>1, <1>2 DEF Plain

\* ... of three.
LEMMA PlainThree ==
  ASSUME NEW x, NEW y, NEW z, x.op \notin {"apply", "land", "receipt"},
         y.op \notin {"apply", "land", "receipt"}, z.op \notin {"apply", "land", "receipt"}
  PROVE  Plain(<<x, y, z>>)
<1>1. /\ <<x, y, z>> \in Seq({x, y, z}) /\ Len(<<x, y, z>>) = 3
      /\ <<x, y, z>>[1] = x /\ <<x, y, z>>[2] = y /\ <<x, y, z>>[3] = z
  OBVIOUS
<1>2. Sequential(<<x, y, z>>)
  BY <1>1, ElementsOf, Listed
<1>3. \A n \in 1..3 : n = 1 \/ n = 2 \/ n = 3
  OBVIOUS
<1> QED
  BY <1>1, <1>2, <1>3 DEF Plain

\* A plain list is right.
LEMMA PlainOK == ASSUME NEW s, NEW has, Plain(s) PROVE ListOK(s, has)
BY DEF Plain, ListOK

\* One plain list after another.
LEMMA PlainAfterPlain ==
  ASSUME NEW s, NEW t, Plain(s), Plain(t) PROVE Plain(s \o t)
<1>1. /\ Sequential(s \o t) /\ Len(s \o t) = Len(s) + Len(t)
      /\ Len(s) \in Nat /\ Len(t) \in Nat
      /\ \A j \in 1..Len(s) : (s \o t)[j] = s[j]
      /\ \A j \in (Len(s) + 1)..(Len(s) + Len(t)) : (s \o t)[j] = t[j - Len(s)]
  BY Joined, Unlisted DEF Plain
<1>2. ASSUME NEW n \in 1..Len(s \o t)
      PROVE  (s \o t)[n].op \notin {"apply", "land", "receipt"}
  <2>1. CASE n \in 1..Len(s)
    BY <1>1, <2>1 DEF Plain
  <2>2. CASE n \notin 1..Len(s)
    <3>1. n \in (Len(s) + 1)..(Len(s) + Len(t)) /\ n - Len(s) \in 1..Len(t)
      BY <1>1, <2>2
    <3> QED
      BY <1>1, <3>1 DEF Plain
  <2> QED
    BY <2>1, <2>2
<1> QED
  BY <1>1, <1>2 DEF Plain

\* A finite set has a finite list, whatever is made of its elements.
LEMMA ListOfSet ==
  ASSUME NEW S, IsFiniteSet(S), NEW q \in SetToSeqs(S)
  PROVE  \E n \in Nat : DOMAIN q = 1..n /\ \A j \in 1..n : q[j] \in S
<1>1. Cardinality(S) \in Nat
  BY FS_CardinalityType
<1>2. q \in [1..Cardinality(S) -> S]
  BY DEF SetToSeqs
<1> QED
  BY <1>1, <1>2

\* The item at the head is replaced by its landing and its receipt.
LEMMA ApplyOK ==
  ASSUME NEW q, NEW has, ListOK(q, has), q # <<>>, Head(q).op = "apply",
         NEW x, NEW y, x.op = "land", y.op = "receipt", x.i = Head(q).i, y.i = Head(q).i
  PROVE  ListOK(<<x, y>> \o Tail(q), has)
<1> DEFINE t == Tail(q)
           s == <<x, y>>
           u == s \o t
<1>1. /\ Sequential(t) /\ Len(q) \in Nat \ {0} /\ Len(t) = Len(q) - 1 /\ Head(q) = q[1]
      /\ \A j \in 1..Len(t) : t[j] = q[j + 1]
  BY Rest DEF ListOK
<1>2. s \in Seq({x, y}) /\ Len(s) = 2 /\ s[1] = x /\ s[2] = y
  OBVIOUS
<1>3. Sequential(s)
  BY <1>2, ElementsOf, Listed
<1>4. /\ Sequential(u) /\ Len(u) = 2 + Len(t)
      /\ u[1] = x /\ u[2] = y
      /\ \A j \in 3..Len(u) : u[j] = t[j - 2]
  BY <1>1, <1>2, <1>3, Joined
<1> HIDE DEF t, s, u
<1>5. Head(q).i \in Items /\ 1 \in 1..Len(q)
  BY <1>1 DEF ListOK
<1>6. \A j \in 3..Len(u) : u[j] = q[j - 1] /\ j - 1 \in 2..Len(q)
  BY <1>1, <1>4
<1>7. \A j \in 3..Len(u) : u[j].op # "receipt"
  <2>1. \A j \in 2..Len(q) : j \in 1..Len(q) /\ 1 \in 1..(j - 1)
    BY <1>1
  <2>2. \A j \in 2..Len(q) : q[j].op # "receipt"
    BY <1>1, <2>1 DEF ListOK
  <2> QED
    BY <1>6, <2>2
<1>8. \A j \in 3..Len(u) : u[j].op \in {"apply", "land", "receipt"} => u[j].i \in Items
  <2>1. \A j \in 2..Len(q) : j \in 1..Len(q)
    BY <1>1
  <2>2. \A j \in 2..Len(q) : q[j].op \in {"apply", "land", "receipt"} => q[j].i \in Items
    BY <2>1 DEF ListOK
  <2> QED
    BY <1>6, <2>2
<1>9. \A j \in 1..Len(u) : j = 1 \/ j = 2 \/ j \in 3..Len(u)
  BY <1>1, <1>4
<1>10. Lands(u[1], y.i)
  BY <1>4 DEF Lands
<1>11. \A m \in 1..(2 - 1) : u[m].op # "apply"
  BY <1>4
<1>12. \A j \in 1..Len(u) : u[j].op \in {"apply", "land", "receipt"} => u[j].i \in Items
  BY <1>4, <1>5, <1>8, <1>9
<1>13. ASSUME NEW j \in 1..Len(u), u[j].op = "receipt" PROVE j = 2
  BY <1>4, <1>7, <1>9, <1>13
<1> QED
  BY <1>4, <1>10, <1>11, <1>12, <1>13 DEF ListOK, u, s, t

-----------------------------------------------------------------------------
(* What has landed stays. *)

\* A list stays right as more lands.
LEMMA ListGrows ==
  ASSUME NEW q, NEW had, NEW has, had \subseteq has, ListOK(q, had)
  PROVE  ListOK(q, has)
BY DEF ListOK

\* Numbers of landed items stay such.
LEMMA NumbersGrow ==
  ASSUME NEW ns, NEW had, NEW has, had \subseteq has, NumbersOK(ns, had)
  PROVE  NumbersOK(ns, has)
BY DEF NumbersOK

\* One list changes, the others stay.
LEMMA OneList ==
  ASSUME NEW lists, NEW had, NEW has, had \subseteq has, ListsOK(lists, had),
         NEW p \in Procs, NEW q, ListOK(q, has)
  PROVE  ListsOK([lists EXCEPT ![p] = q], has)
<1>1. \A x \in Procs : ListOK(lists[x], has)
  BY ListGrows DEF ListsOK
<1> QED
  BY <1>1 DEF ListsOK

\* A step that neither lands nor records anything.
LEMMA NothingLands ==
  ASSUME IInv, UNCHANGED <<versions, audit, receipts, acks, acked>>, ListsOK(todo', Landed)
  PROVE  IInv'
<1>1. Landed' = Landed /\ Keys' = Keys
  BY DEF Landed, Keys
<1> QED
  BY <1>1 DEF IInv

-----------------------------------------------------------------------------
(* The steps. *)

\* The tables of an empty office hold nothing, and nobody executes anything.
LEMMA InvInit == Init => IInv
<1> SUFFICES ASSUME Init PROVE IInv
  OBVIOUS
<1>1. IsFiniteSet(Keys)
  <2>1. Keys = {}
    BY DEF Init, Keys
  <2> QED
    BY <2>1, FS_EmptySet
<1>2. ListsOK(todo, Landed)
  <2>1. ListOK(<<>>, Landed)
    BY PlainNone, PlainOK
  <2> QED
    BY <2>1 DEF ListsOK, Init
<1> QED
  BY <1>1, <1>2 DEF Init, IInv, NumbersOK

\* The head is replaced by plain statements and lands nothing.
LEMMA PlainThen ==
  ASSUME IInv, NEW p \in Procs, todo[p] # <<>>, NEW s, Plain(s), Then(p, s),
         \A i \in Items : Lands(Head(todo[p]), i) =>
           i \in Landed \/ (s # <<>> /\ Lands(Head(s), i))
  PROVE  ListsOK(todo', Landed)
<1>1. ListOK(s \o Tail(todo[p]), Landed)
  BY ThenOK DEF IInv, ListsOK
<1>2. todo' = [todo EXCEPT ![p] = s \o Tail(todo[p])]
  BY DEF Then, IInv, ListsOK
<1> QED
  BY <1>1, <1>2, OneList DEF IInv

\* A statement that is neither a landing nor an event lands nothing.
LEMMA LandsNothing ==
  ASSUME NEW s, s.op \notin {"land", "event"} PROVE \A i : ~Lands(s, i)
BY DEF Lands

\* A received item is acked, another is to be landed and receipted.
LEMMA ApplyStep ==
  ASSUME IInv, NEW p \in Procs, ApplyOutboxItem(p), UNCHANGED vessel PROVE IInv'
<1> DEFINE s == Head(todo[p])
<1>1. todo[p] # <<>> /\ s.op = "apply" /\ UNCHANGED tables
  BY DEF ApplyOutboxItem, Stmts
<1>2. ListOK(todo[p], Landed)
  BY DEF IInv, ListsOK
<1>3. s.i \in Items
  <2>1. Len(todo[p]) \in Nat \ {0} /\ s = todo[p][1]
    BY <1>1, <1>2, Rest DEF ListOK
  <2> QED
    BY <1>1, <1>2, <2>1 DEF ListOK
<1>4. Landed' = Landed /\ Keys' = Keys /\ receipts' = receipts /\ acked' = acked
  BY <1>1 DEF Landed, Keys, tables, vessel
<1>5. CASE s.i.no \in receipts
  <2>1. Then(p, <<>>) /\ acks' = [acks EXCEPT ![p] = @ \cup {s.i.no}]
    BY <1>5 DEF ApplyOutboxItem
  <2>2. ListsOK(todo', Landed)
    BY <1>1, <2>1, PlainThen, PlainNone, LandsNothing
  <2>3. NumbersOK(acks[p] \cup {s.i.no}, Landed)
    BY <1>5 DEF IInv, NumbersOK
  <2> QED
    BY <1>4, <2>1, <2>2, <2>3 DEF IInv
<1>6. CASE s.i.no \notin receipts
  <2> DEFINE x == [op |-> "land", i |-> s.i, state |-> s.state]
             y == [op |-> "receipt", i |-> s.i]
  <2>1. Then(p, <<x, y>>) /\ UNCHANGED acks
    BY <1>6 DEF ApplyOutboxItem
  <2>2. ListOK(<<x, y>> \o Tail(todo[p]), Landed)
    BY <1>1, <1>2, ApplyOK
  <2>3. todo' = [todo EXCEPT ![p] = <<x, y>> \o Tail(todo[p])]
    BY <2>1 DEF Then, IInv, ListsOK
  <2>4. ListsOK(todo', Landed)
    BY <2>2, <2>3, OneList DEF IInv
  <2> QED
    BY <1>4, <2>1, <2>4 DEF IInv
<1> QED
  BY <1>5, <1>6

\* The version is in the table before the cascade begins.
LEMMA UpsertStep ==
  ASSUME IInv, NEW p \in Procs, UpsertReportVersion(p), UNCHANGED vessel PROVE IInv'
<1> DEFINE s == Head(todo[p])
           k == <<s.i.r, s.i.v>>
           c == [op |-> "cascade"]
<1>1. /\ todo[p] # <<>> /\ s.op = "land" /\ s.i.kind = "reportVersion"
      /\ Keys' = Keys \cup {k} /\ Then(p, <<c>>)
      /\ UNCHANGED <<audit, receipts, acks, acked>>
  BY DEF UpsertReportVersion, Stmts, Keys, vessel
<1>2. Landed \subseteq Landed'
  BY <1>1 DEF Landed
<1>3. \A i \in Items : Lands(s, i) => i \in Landed'
  BY <1>1 DEF Landed, Lands
<1>4. Plain(<<c>>)
  BY PlainOne
<1>5. ListOK(<<c>> \o Tail(todo[p]), Landed')
  BY <1>1, <1>2, <1>3, <1>4, ThenOK DEF IInv, ListsOK
<1>6. todo' = [todo EXCEPT ![p] = <<c>> \o Tail(todo[p])]
  BY <1>1 DEF Then, IInv, ListsOK
<1>7. ListsOK(todo', Landed')
  BY <1>2, <1>5, <1>6, OneList DEF IInv
<1>8. IsFiniteSet(Keys')
  BY <1>1, FS_AddElement DEF IInv
<1> QED
  BY <1>1, <1>2, <1>7, <1>8, NumbersGrow DEF IInv

\* An event is inserted: the vessel's own lands its item.
LEMMA EventStep ==
  ASSUME IInv, NEW p \in Procs, AppendReportAuditEvent(p), UNCHANGED vessel PROVE IInv'
<1> DEFINE s == Head(todo[p])
<1>1. /\ todo[p] # <<>> /\ s.op = "event"
      /\ audit' = audit (+) SetToBag({s.e}) /\ Then(p, <<>>)
      /\ UNCHANGED <<versions, receipts, acks, acked>>
  BY DEF AppendReportAuditEvent, Stmts, vessel
<1>0. DOMAIN audit' = DOMAIN audit \cup {s.e}
  BY <1>1 DEF (+), SetToBag
<1>2. Landed \subseteq Landed'
  BY <1>0, <1>1 DEF Landed, Keys
<1>3. \A i \in Items : Lands(s, i) => i \in Landed'
  BY <1>0, <1>1 DEF Landed, Lands
<1>5. ListOK(<<>> \o Tail(todo[p]), Landed')
  BY <1>1, <1>2, <1>3, PlainNone, ThenOK DEF IInv, ListsOK
<1>6. todo' = [todo EXCEPT ![p] = <<>> \o Tail(todo[p])]
  BY <1>1 DEF Then, IInv, ListsOK
<1>7. ListsOK(todo', Landed')
  BY <1>2, <1>5, <1>6, OneList DEF IInv
<1>8. Keys' = Keys
  BY <1>1 DEF Keys
<1> QED
  BY <1>1, <1>2, <1>7, <1>8, NumbersGrow DEF IInv

\* The receipt of an item that has landed.
LEMMA ReceiptStep ==
  ASSUME IInv, NEW p \in Procs, RecordOutboxReceipt(p), UNCHANGED vessel PROVE IInv'
<1> DEFINE s == Head(todo[p])
           no == s.i.no
<1>1. /\ todo[p] # <<>> /\ s.op = "receipt" /\ Then(p, <<>>)
      /\ receipts' = receipts \cup {no} /\ acks' = [acks EXCEPT ![p] = @ \cup {no}]
      /\ UNCHANGED <<versions, audit, acked>>
  BY DEF RecordOutboxReceipt, Stmts, vessel
<1>2. ListOK(todo[p], Landed)
  BY DEF IInv, ListsOK
<1>3. s.i \in Landed
  <2>1. Len(todo[p]) \in Nat \ {0} /\ s = todo[p][1]
    BY <1>1, <1>2, Rest DEF ListOK
  <2>2. s.i \in Landed \/ Lands(s, s.i)
    BY <1>1, <1>2, <2>1 DEF ListOK
  <2> QED
    BY <1>1, <2>2 DEF Lands
<1>4. Landed' = Landed /\ Keys' = Keys
  BY <1>1 DEF Landed, Keys
<1>5. ListsOK(todo', Landed)
  BY <1>1, PlainThen, PlainNone, LandsNothing
<1>6. NumbersOK({no}, Landed)
  BY <1>3, ItemsAssumption DEF NumbersOK, Landed
<1>7. NumbersOK(receipts \cup {no}, Landed) /\ NumbersOK(acks[p] \cup {no}, Landed)
  BY <1>6 DEF IInv, NumbersOK
<1> QED
  BY <1>1, <1>4, <1>5, <1>7 DEF IInv

\* The statements that land nothing and record nothing.
LEMMA PlainStep ==
  ASSUME IInv, NEW p \in Procs, UNCHANGED vessel,
         \/ LandAuditEvent(p) \/ RunCascade(p) \/ FlagVersion(p) \/ InsertChatMessage(p)
         \/ UpdateReportVersionState(p) \/ DrawSeq(p) \/ CommitInsert(p)
  PROVE  IInv'
<1> DEFINE s == Head(todo[p])
<1>1. CASE LandAuditEvent(p)
  <2> DEFINE e == event(<<s.i.r, s.i.v>>, "vessel", s.i.no)
  <2>1. /\ todo[p] # <<>> /\ s.op = "land" /\ s.i.kind = "reportAuditEvent" /\ Then(p, <<e>>)
        /\ UNCHANGED <<versions, audit, receipts, acks, acked>>
    BY <1>1 DEF LandAuditEvent, Stmts, tables, vessel
  <2>2. e.op = "event" /\ e.e = Sent(s.i)
    BY DEF event, Sent
  <2>3. Plain(<<e>>)
    BY <2>2, PlainOne
  <2>4. \A i \in Items : Lands(s, i) => Lands(e, i)
    BY <2>1, <2>2 DEF Lands
  <2>5. <<e>> # <<>> /\ Head(<<e>>) = e
    OBVIOUS
  <2> HIDE DEF e
  <2> QED
    BY <2>1, <2>3, <2>4, <2>5, PlainThen, NothingLands
<1>2. CASE RunCascade(p)
  <2>1. /\ todo[p] # <<>> /\ s.op = "cascade"
        /\ UNCHANGED <<versions, audit, receipts, acks, acked>>
    BY <1>2 DEF RunCascade, Stmts, tables, vessel
  <2> DEFINE flagged == {[k |-> k, state |-> versions[k].state, rules |-> Broken(k)] :
                           k \in {m \in Chain : Broken(m) # {}}}
  <2>2. IsFiniteSet(flagged)
    <3> DEFINE S == {m \in Chain : Broken(m) # {}}
               c == [k \in S |-> [k |-> k, state |-> versions[k].state, rules |-> Broken(k)]]
    <3>1. IsFiniteSet(S)
      <4>1. S \subseteq Keys
        BY DEF Chain
      <4> QED
        BY <4>1, FS_Subset DEF IInv
    <3>2. c = [k \in S |-> c[k]] /\ flagged = {c[k] : k \in S}
      OBVIOUS
    <3> HIDE DEF c, flagged, S
    <3>3. c \in Surjection(S, flagged)
      BY <3>2 DEF Surjection
    <3> QED
      BY <3>1, <3>3, FS_Surjection
  <2>3. PICK q \in SetToSeqs(flagged) : Then(p, [n \in DOMAIN q |-> [op |-> "flag", c |-> q[n]]])
    BY <1>2 DEF RunCascade, Ascending
  <2> HIDE DEF flagged
  <2> DEFINE f == [n \in DOMAIN q |-> [op |-> "flag", c |-> q[n]]]
  <2>4. PICK n \in Nat : DOMAIN q = 1..n
    BY <2>2, ListOfSet
  <2>5. Plain(f)
    <3>1. f = [j \in 1..n |-> f[j]]
      BY <2>4
    <3>2. Sequential(f) /\ Len(f) = n
      BY <3>1, Listed
    <3> QED
      BY <2>4, <3>2 DEF Plain
  <2>6. Then(p, f)
    BY <2>3
  <2> HIDE DEF f
  <2> QED
    BY <2>1, <2>5, <2>6, PlainThen, LandsNothing, NothingLands
<1>3. CASE FlagVersion(p)
  <2> DEFINE c == s.c
             x == setState(c.k, "invalidated")
             y == event(c.k, "invalidated", c.rules)
             z == insert("notice", [r |-> c.k[1], v |-> c.k[2], rules |-> c.rules])
  <2>1. /\ todo[p] # <<>> /\ s.op = "flag"
        /\ UNCHANGED <<versions, audit, receipts, acks, acked>>
        /\ Then(p, <<>>) \/ Then(p, <<x, y, z>>)
    BY <1>3 DEF FlagVersion, Stmts, tables, vessel
  <2>2. x.op = "setState" /\ y.op = "event" /\ z.op = "insert"
    BY DEF setState, event, insert
  <2> HIDE DEF x, y, z
  <2>3. Plain(<<x, y, z>>)
    BY <2>2, PlainThree
  <2> QED
    BY <2>1, <2>3, PlainNone, PlainThen, LandsNothing, NothingLands
<1>4. CASE InsertChatMessage(p)
  <2>1. /\ todo[p] # <<>> /\ s.op = "chat" /\ Then(p, <<>>)
        /\ UNCHANGED <<versions, audit, receipts, acks, acked>>
    BY <1>4 DEF InsertChatMessage, Stmts, vessel
  <2> QED
    BY <2>1, PlainNone, PlainThen, LandsNothing, NothingLands
<1>5. CASE UpdateReportVersionState(p)
  <2>1. /\ todo[p] # <<>> /\ s.op = "setState" /\ Then(p, <<>>)
        /\ DOMAIN versions' = DOMAIN versions
        /\ UNCHANGED <<audit, receipts, acks, acked>>
    BY <1>5 DEF UpdateReportVersionState, Stmts, vessel
  <2>2. ListsOK(todo', Landed)
    BY <2>1, PlainNone, PlainThen, LandsNothing
  <2>3. Landed' = Landed /\ Keys' = Keys
    BY <2>1 DEF Landed, Keys
  <2> QED
    BY <2>1, <2>2, <2>3 DEF IInv
<1>6. CASE DrawSeq(p)
  <2> DEFINE x == [op |-> "commit", q |-> s.q, seq |-> nextSeq[s.q], row |-> s.row]
  <2>1. /\ todo[p] # <<>> /\ s.op = "insert" /\ Then(p, <<x>>)
        /\ UNCHANGED <<versions, audit, receipts, acks, acked>>
    BY <1>6 DEF DrawSeq, Stmts, vessel
  <2>2. x.op = "commit"
    OBVIOUS
  <2> HIDE DEF x
  <2>3. Plain(<<x>>)
    BY <2>2, PlainOne
  <2> QED
    BY <2>1, <2>3, PlainThen, LandsNothing, NothingLands
<1>7. CASE CommitInsert(p)
  <2>1. /\ todo[p] # <<>> /\ s.op = "commit" /\ Then(p, <<>>)
        /\ UNCHANGED <<versions, audit, receipts, acks, acked>>
    BY <1>7 DEF CommitInsert, Stmts, vessel
  <2> QED
    BY <2>1, PlainNone, PlainThen, LandsNothing, NothingLands
<1> QED
  BY <1>1, <1>2, <1>3, <1>4, <1>5, <1>6, <1>7

\* The vessel has seen the acks of a call, each of an item that has landed.
LEMMA ReplyStep ==
  ASSUME IInv, NEW p \in Calls, Reply(p) PROVE IInv'
<1>1. /\ todo[p] # <<>> /\ Head(todo[p]).op = "reply" /\ Then(p, <<>>)
      /\ acked' = acked \cup acks[p] /\ p \in Procs
      /\ UNCHANGED <<versions, audit, receipts, acks>>
  BY DEF Reply, Stmts, tables, Procs
<1>2. ListsOK(todo', Landed)
  BY <1>1, PlainNone, PlainThen, LandsNothing
<1>3. Landed' = Landed /\ Keys' = Keys
  BY <1>1 DEF Landed, Keys
<1>4. NumbersOK(acked \cup acks[p], Landed)
  BY <1>1 DEF IInv, NumbersOK
<1> QED
  BY <1>1, <1>2, <1>3, <1>4 DEF IInv

\* A call begins with items and their states, and no receipt.
LEMMA PushStep ==
  ASSUME IInv, NEW p \in Calls, NEW batch \in SUBSET Items, NEW st,
         PushOutbox(p, batch, st)
  PROVE  IInv'
<1> DEFINE key(i) == [op |-> "apply", i |-> i, state |-> st[i]]
           reply == [op |-> "reply"]
<1>1. /\ acks' = [acks EXCEPT ![p] = {}] /\ p \in Procs
      /\ UNCHANGED <<versions, audit, receipts, acked>>
  BY DEF PushOutbox, tables, vessel, Procs
<1>2. PICK q \in SetToSeqs(batch) :
        todo' = [todo EXCEPT ![p] = [n \in DOMAIN q |-> key(q[n])] \o <<reply>>]
  BY DEF PushOutbox, Ascending
<1>3. IsFiniteSet(batch)
  BY ItemsAssumption, FS_Subset
<1>4. PICK n \in Nat : DOMAIN q = 1..n /\ \A j \in 1..n : q[j] \in batch
  BY <1>3, ListOfSet
<1> DEFINE f == [j \in DOMAIN q |-> key(q[j])]
<1>5. /\ f = [j \in 1..n |-> f[j]]
      /\ \A j \in 1..n : f[j].op = "apply" /\ f[j].i \in Items
  BY <1>4
<1>6. Sequential(f) /\ Len(f) = n
  BY <1>5, Listed
<1>7. Plain(<<reply>>) /\ Len(<<reply>>) = 1 /\ <<reply>>[1] = reply
  BY PlainOne
<1>8. todo' = [todo EXCEPT ![p] = f \o <<reply>>]
  BY <1>2
<1> HIDE DEF f
<1>9. /\ Sequential(f \o <<reply>>) /\ Len(f \o <<reply>>) = n + 1
      /\ \A j \in 1..n : (f \o <<reply>>)[j] = f[j]
      /\ (f \o <<reply>>)[n + 1] = reply
  BY <1>6, <1>7, Joined DEF Plain
<1>10. \A j \in 1..(n + 1) : j \in 1..n \/ j = n + 1
  OBVIOUS
<1>11. ListOK(f \o <<reply>>, Landed)
  BY <1>5, <1>9, <1>10 DEF ListOK
<1>12. ListsOK(todo', Landed)
  BY <1>1, <1>8, <1>11, OneList DEF IInv
<1>13. Landed' = Landed /\ Keys' = Keys
  BY <1>1 DEF Landed, Keys
<1> QED
  BY <1>1, <1>12, <1>13 DEF IInv, NumbersOK

\* A remark set is made of plain statements.
LEMMA RemarkStep ==
  ASSUME IInv, NEW p \in Reviewers, NEW r, NEW fields \in SUBSET Fields,
         CreateRemarkSet(p, r, fields)
  PROVE  IInv'
<1> DEFINE k == <<r, Max({m[2] : m \in {n \in Keys : n[1] = r}})>>
           row(f) == insert("remark", [set |-> sets + 1, field |-> f, r |-> r, v |-> k[2]])
           x == setState(k, "remarked")
           y == event(k, "remarked", sets + 1)
           z == [op |-> "chat", set |-> sets + 1]
           rest == IF InChain(versions[k].state) THEN <<x, y, z>> ELSE <<>>
<1>1. p \in Procs /\ UNCHANGED <<versions, audit, receipts, acks, acked>>
  BY DEF CreateRemarkSet, tables, vessel, Procs
<1>2. PICK q \in SetToSeqs(fields) :
        todo' = [todo EXCEPT ![p] = [n \in DOMAIN q |-> row(q[n])] \o rest]
  BY DEF CreateRemarkSet
<1>3. IsFiniteSet(fields)
  BY ItemsAssumption, FS_Subset
<1>4. PICK n \in Nat : DOMAIN q = 1..n
  BY <1>3, ListOfSet
<1> DEFINE f == [j \in DOMAIN q |-> row(q[j])]
<1>5. Plain(f)
  <2>1. f = [j \in 1..n |-> f[j]] /\ \A j \in 1..n : f[j].op = "insert"
    BY <1>4 DEF insert
  <2>2. Sequential(f) /\ Len(f) = n
    BY <2>1, Listed
  <2> QED
    BY <2>1, <2>2 DEF Plain
<1>6. Plain(rest)
  <2>1. x.op = "setState" /\ y.op = "event" /\ z.op = "chat"
    BY DEF setState, event
  <2> HIDE DEF x, y, z
  <2> QED
    BY <2>1, PlainThree, PlainNone
<1>7. todo' = [todo EXCEPT ![p] = f \o rest]
  BY <1>2
<1> HIDE DEF f, rest
<1>8. ListOK(f \o rest, Landed)
  BY <1>5, <1>6, PlainAfterPlain, PlainOK
<1>9. ListsOK(todo', Landed)
  BY <1>1, <1>7, <1>8, OneList DEF IInv
<1> QED
  BY <1>1, <1>9, NothingLands

\* A failed statement, or a call that is cut, leaves a tail of the list.
LEMMA FailureStep ==
  ASSUME IInv, NEW p \in Procs, StatementFails(p) \/ CallCut(p) PROVE IInv'
<1> DEFINE s == Head(todo[p])
           rest == Tail(todo[p])
<1>1. todo[p] # <<>> /\ UNCHANGED <<versions, audit, receipts, acks, acked>>
  BY DEF StatementFails, CallCut, tables, vessel
<1>2. ListOK(todo[p], Landed)
  BY DEF IInv, ListsOK
<1>3. ListOK(<<>>, Landed)
  BY PlainNone, PlainOK
<1>4. ListOK(<<[op |-> "reply"]>>, Landed)
  BY PlainOne, PlainOK
<1>5. ListOK(From(rest, "apply"), Landed)
  BY <1>1, <1>2, FromOK
<1>6. ASSUME InCascade(s) PROVE ListOK(From(rest, "receipt"), Landed)
  <2>1. \A i : ~Lands(s, i)
    BY <1>6 DEF InCascade, CascadeOps, Lands, Sent
  <2> QED
    BY <1>1, <1>2, <2>1, FromOK
<1>7. PICK q : todo' = [todo EXCEPT ![p] = q] /\ ListOK(q, Landed)
  BY <1>3, <1>4, <1>5, <1>6 DEF StatementFails, CallCut
<1>8. ListsOK(todo', Landed)
  BY <1>7, OneList DEF IInv
<1> QED
  BY <1>1, <1>8, NothingLands

\* One step of any kind.
LEMMA InvStep == IInv /\ [Next]_vars => IInv'
<1> SUFFICES ASSUME IInv, [Next]_vars PROVE IInv'
  OBVIOUS
<1>1. ASSUME NEW p \in Procs, Execute(p) PROVE IInv'
  BY <1>1, ApplyStep, UpsertStep, EventStep, ReceiptStep, PlainStep DEF Execute
<1>2. ASSUME NEW p \in Calls, NEW n \in {i.no : i \in Items},
             NEW st \in [UpTo(n) -> PushStates], PushOutbox(p, UpTo(n), st)
      PROVE  IInv'
  <2>1. UpTo(n) \in SUBSET Items
    BY DEF UpTo
  <2> QED
    BY <1>2, <2>1, PushStep
<1>3. ASSUME NEW p \in Reviewers, NEW r \in {i.r : i \in Items},
             NEW fs \in SUBSET Fields \ {{}}, CreateRemarkSet(p, r, fs)
      PROVE  IInv'
  BY <1>3, RemarkStep
<1>4. CASE PullInbox
  <2>1. UNCHANGED <<versions, audit, receipts, acks, acked, todo>>
    BY <1>4 DEF PullInbox, tables
  <2> QED
    BY <2>1, NothingLands DEF IInv
<1>5. CASE UNCHANGED vars
  <2>1. UNCHANGED <<versions, audit, receipts, acks, acked, todo>>
    BY <1>5 DEF vars, tables, vessel
  <2> QED
    BY <2>1, NothingLands DEF IInv
<1> QED
  BY <1>1, <1>2, <1>3, <1>4, <1>5, FailureStep, ReplyStep DEF Next

\* In every reachable state each list of statements has its receipts behind
\* what they are for, and every number that was recorded is of a landed item.
THEOREM Inductive == Spec => []IInv
<1> QED
  BY InvInit, InvStep, PTL DEF Spec

\* PushOutbox: what the vessel drops from its outbox because it was acked is
\* in the office's tables, however calls overlap, fail or are cut.
THEOREM AckedItemsHaveLanded == Spec => []AckedHasLanded
<1>1. ASSUME IInv, NEW i \in Items, i.no \in acked, i.kind # "reportVersion"
      PROVE  \E e \in BagToSet(audit) : e.type = "vessel" /\ e.id = i.no
  <2>1. Sent(i) \in BagToSet(audit)
    BY <1>1 DEF IInv, NumbersOK, Landed, BagToSet
  <2> QED
    BY <2>1 DEF Sent
<1>2. ASSUME IInv, NEW i \in Items, i.no \in acked, i.kind = "reportVersion"
      PROVE  <<i.r, i.v>> \in Keys
  BY <1>2 DEF IInv, NumbersOK, Landed
<1>3. IInv => AckedHasLanded
  BY <1>1, <1>2 DEF AckedHasLanded
<1> QED
  BY <1>3, Inductive, PTL

-----------------------------------------------------------------------------
(* What a list has in it, and in which order. *)

\* The statements of a list.
Elems(q) == {q[n] : n \in 1..Len(q)}

\* The stream a process inserts into: calls write notices, requests remarks.
StreamOf(p) == IF p \in Calls THEN "notice" ELSE "remark"

\* What a process may have to execute: only a call applies and lands items.
StmtOK(p, s) ==
  /\ s.op \in {"insert", "commit"} => s.q = StreamOf(p)
  /\ s.op \in {"apply", "land"} => s.i \in Items /\ s.state \in PushStates
  /\ s.op = "setState" => s.state \in State /\ InChain(s.state)
  /\ p \notin Calls => s.op \in {"insert", "commit", "setState", "event", "chat"}

\* A number is drawn by the statement under way only, and what a cascade is
\* to write comes before the next item.
OrderOK(q) ==
  \A n \in 1..Len(q) :
    /\ n > 1 => q[n].op # "commit"
    /\ q[n].op \in {"flag", "insert", "commit"} =>
         \A m \in 1..(n - 1) : q[m].op \notin {"apply", "land"}

ListShape(p, q) == OrderOK(q) /\ \A s \in Elems(q) : StmtOK(p, s)

ShapeInv == \A p \in Procs : ListShape(p, todo[p])

\* Every version of the office is one the vessel had in its chain.
RowsInv ==
  /\ versions = [k \in Keys |-> versions[k]]
  /\ \A k \in Keys : /\ k = <<k[1], k[2]>>
                     /\ versions[k] = [data |-> versions[k].data,
                                       state |-> versions[k].state]
                     /\ InChain(versions[k].state)

\* At most one process is between drawing a number of q and its commit.
OneInserter(q) ==
  \A p1, p2 \in Procs :
    Stmts(p1, "commit") /\ Head(todo[p1]).q = q
      /\ Stmts(p2, "commit") /\ Head(todo[p2]).q = q => p1 = p2

\* A drawn number is beyond every row and every cursor.
StreamInv(q) ==
  /\ nextSeq = [x \in Streams |-> nextSeq[x]] /\ nextSeq[q] \in Nat
  /\ cursors = [x \in Streams |-> cursors[x]] /\ cursors[q] \in Nat
  /\ pulled = [x \in Streams |-> pulled[x]]
  /\ cursors[q] < nextSeq[q]
  /\ \A row \in Table(q) : row.seq \in Nat /\ row.seq < nextSeq[q]
  /\ \A p \in Procs : \A s \in Elems(todo[p]) :
       s.op = "commit" /\ s.q = q =>
         /\ s.seq \in Nat /\ s.seq < nextSeq[q] /\ cursors[q] < s.seq
         /\ \A row \in Table(q) : row.seq < s.seq
  /\ \A row \in Table(q) : row.seq <= cursors[q] => row.seq \in pulled[q]

\* At most one of these processes has anything to execute.
Serial(S) == \A p1, p2 \in S : todo[p1] # <<>> /\ todo[p2] # <<>> => p1 = p2

\* What a call is to write is about the rules the version breaks now.
FlagsOK ==
  \A p \in Calls : \A s \in Elems(todo[p]) :
    /\ s.op = "flag" => s.c.k \in Keys /\ s.c.rules = Broken(s.c.k)
    /\ s.op \in {"insert", "commit"} => s.row.rules = Broken(<<s.row.r, s.row.v>>)

\* A call has still to look at k, or to write its notice.
Due(s, k) ==
  \/ s.op = "cascade"
  \/ s.op = "flag" /\ s.c.k = k
  \/ s.op \in {"insert", "commit"} /\ s.row.r = k[1] /\ s.row.v = k[2]

NoticeInv ==
  /\ failures \in Nat
  /\ failures = 0 =>
       /\ FlagsOK
       /\ \A k \in Chain : Broken(k) # {} =>
            \/ LatestRules(k) = Broken(k)
            \/ \E p \in Calls : \E s \in Elems(todo[p]) : Due(s, k)

\* A list of at most three statements.
LEMMA Short ==
  ASSUME NEW x, NEW y, NEW z
  PROVE  /\ Sequential(<<>>) /\ Len(<<>>) = 0 /\ Elems(<<>>) = {}
         /\ Sequential(<<x>>) /\ Len(<<x>>) = 1 /\ Elems(<<x>>) = {x}
         /\ Sequential(<<x, y>>) /\ Len(<<x, y>>) = 2 /\ Elems(<<x, y>>) = {x, y}
         /\ Sequential(<<x, y, z>>) /\ Len(<<x, y, z>>) = 3
         /\ Elems(<<x, y, z>>) = {x, y, z}
<1>1. Sequential(<<>>) /\ Len(<<>>) = 0 /\ Elems(<<>>) = {}
  BY DEF Sequential, Elems
<1>2. /\ <<x>> \in Seq({x}) /\ Len(<<x>>) = 1 /\ <<x>>[1] = x
      /\ <<x, y>> \in Seq({x, y}) /\ Len(<<x, y>>) = 2
      /\ <<x, y>>[1] = x /\ <<x, y>>[2] = y
      /\ <<x, y, z>> \in Seq({x, y, z}) /\ Len(<<x, y, z>>) = 3
      /\ <<x, y, z>>[1] = x /\ <<x, y, z>>[2] = y /\ <<x, y, z>>[3] = z
  OBVIOUS
<1>3. Sequential(<<x>>) /\ Sequential(<<x, y>>) /\ Sequential(<<x, y, z>>)
  BY <1>2, ElementsOf, Listed
<1>4. 1..1 = {1} /\ 1..2 = {1, 2} /\ 1..3 = {1, 2, 3}
  OBVIOUS
<1>5. Elems(<<x>>) = {x}
  BY <1>2, <1>4 DEF Elems
<1>6. Elems(<<x, y>>) = {x, y}
  BY <1>2, <1>4 DEF Elems
<1>7. Elems(<<x, y, z>>) = {x, y, z}
  BY <1>2, <1>4 DEF Elems
<1> QED
  BY <1>1, <1>2, <1>3, <1>5, <1>6, <1>7

\* ... of exactly three.
LEMMA ShortThree ==
  ASSUME NEW x, NEW y, NEW z
  PROVE  Sequential(<<x, y, z>>) /\ Elems(<<x, y, z>>) = {x, y, z}
<1>1. /\ <<x, y, z>> \in Seq({x, y, z}) /\ Len(<<x, y, z>>) = 3
      /\ <<x, y, z>>[1] = x /\ <<x, y, z>>[2] = y /\ <<x, y, z>>[3] = z
  OBVIOUS
<1>2. Sequential(<<x, y, z>>)
  BY <1>1, ElementsOf, Listed
<1>3. 1..3 = {1, 2, 3}
  OBVIOUS
<1>4. Elems(<<x, y, z>>) = {x, y, z}
  BY <1>1, <1>3 DEF Elems
<1> QED
  BY <1>2, <1>4

\* A list is its head and the rest.
LEMMA HeadAndRest ==
  ASSUME NEW q, Sequential(q), q # <<>>
  PROVE  Elems(q) = {Head(q)} \cup Elems(Tail(q))
<1>1. /\ Len(q) \in Nat \ {0} /\ Len(Tail(q)) = Len(q) - 1 /\ Head(q) = q[1]
      /\ \A j \in 1..Len(Tail(q)) : Tail(q)[j] = q[j + 1]
  BY Rest
<1>2. \A j \in 1..Len(q) : j = 1 \/ (j - 1 \in 1..Len(Tail(q)) /\ q[j] = Tail(q)[j - 1])
  BY <1>1
<1>3. \A j \in 1..Len(Tail(q)) : j + 1 \in 1..Len(q)
  BY <1>1
<1>4. 1 \in 1..Len(q)
  BY <1>1
<1>5. Elems(q) \subseteq {Head(q)} \cup Elems(Tail(q))
  BY <1>1, <1>2 DEF Elems
<1>6. {Head(q)} \cup Elems(Tail(q)) \subseteq Elems(q)
  BY <1>1, <1>3, <1>4 DEF Elems
<1> QED
  BY <1>5, <1>6

\* What is in two lists is in the one after the other.
LEMMA ElemsJoined ==
  ASSUME NEW s, NEW t, Sequential(s), Sequential(t)
  PROVE  Elems(s \o t) = Elems(s) \cup Elems(t)
<1>1. /\ Sequential(s \o t) /\ Len(s \o t) = Len(s) + Len(t)
      /\ Len(s) \in Nat /\ Len(t) \in Nat
      /\ \A j \in 1..Len(s) : (s \o t)[j] = s[j]
      /\ \A j \in 1..Len(t) : (s \o t)[Len(s) + j] = t[j]
      /\ \A j \in (Len(s) + 1)..(Len(s) + Len(t)) : (s \o t)[j] = t[j - Len(s)]
  BY Joined, Unlisted
<1> DEFINE u == s \o t
<1> HIDE DEF u
<1>2. \A j \in 1..Len(u) :
        \/ j \in 1..Len(s) /\ u[j] = s[j]
        \/ j - Len(s) \in 1..Len(t) /\ u[j] = t[j - Len(s)]
  BY <1>1 DEF u
<1>3. \A j \in 1..Len(s) : j \in 1..Len(u) /\ u[j] = s[j]
  BY <1>1 DEF u
<1>4. \A j \in 1..Len(t) : Len(s) + j \in 1..Len(u) /\ u[Len(s) + j] = t[j]
  BY <1>1 DEF u
<1>5. Elems(u) \subseteq Elems(s) \cup Elems(t)
  BY <1>2 DEF Elems
<1>6. Elems(s) \cup Elems(t) \subseteq Elems(u)
  BY <1>3, <1>4 DEF Elems
<1> QED
  BY <1>5, <1>6 DEF u

\* The first statement is replaced by others.
LEMMA OrderThen ==
  ASSUME NEW q, Sequential(q), q # <<>>, OrderOK(q), NEW s, Sequential(s), OrderOK(s),
         Head(q).op = "apply" \/ \A x \in Elems(s) : x.op \notin {"apply", "land"}
  PROVE  OrderOK(s \o Tail(q))
<1> DEFINE t == Tail(q)
           u == s \o t
<1>1. /\ Sequential(t) /\ Len(q) \in Nat \ {0} /\ Len(t) = Len(q) - 1 /\ Head(q) = q[1]
      /\ \A j \in 1..Len(t) : t[j] = q[j + 1]
  BY Rest
<1>2. /\ Len(u) = Len(s) + Len(t) /\ Len(s) \in Nat /\ Len(t) \in Nat
      /\ \A j \in 1..Len(s) : u[j] = s[j]
      /\ \A j \in (Len(s) + 1)..(Len(s) + Len(t)) : u[j] = t[j - Len(s)]
  BY <1>1, Joined, Unlisted
<1> HIDE DEF t, u
<1>3. \A j \in (Len(s) + 1)..Len(u) :
        /\ j - Len(s) + 1 \in 2..Len(q) /\ j - Len(s) + 1 \in 1..Len(q)
        /\ u[j] = q[j - Len(s) + 1]
  <2>1. \A j \in (Len(s) + 1)..Len(u) : j - Len(s) \in 1..Len(t) /\ u[j] = t[j - Len(s)]
    BY <1>2
  <2> QED
    BY <1>1, <1>2, <2>1
<1>4. ASSUME NEW n \in 1..Len(u)
      PROVE  /\ n > 1 => u[n].op # "commit"
             /\ u[n].op \in {"flag", "insert", "commit"} =>
                  \A m \in 1..(n - 1) : u[m].op \notin {"apply", "land"}
  <2>1. CASE n \in 1..Len(s)
    <3>1. \A m \in 1..(n - 1) : m \in 1..Len(s)
      BY <1>2, <2>1
    <3> QED
      BY <1>2, <2>1, <3>1 DEF OrderOK
  <2>2. CASE n \in (Len(s) + 1)..Len(u)
    <3> DEFINE j == n - Len(s) + 1
    <3>1. j \in 2..Len(q) /\ j \in 1..Len(q) /\ u[n] = q[j] /\ j > 1
      BY <1>1, <1>2, <1>3, <2>2
    <3>2. u[n].op # "commit"
      BY <3>1 DEF OrderOK
    <3>3. ASSUME u[n].op \in {"flag", "insert", "commit"}, NEW m \in 1..(n - 1)
          PROVE  u[m].op \notin {"apply", "land"}
      <4>1. \A i \in 1..(j - 1) : q[i].op \notin {"apply", "land"}
        BY <3>1, <3>3 DEF OrderOK
      <4>2. CASE m \in 1..Len(s)
        <5>1. 1 \in 1..(j - 1)
          BY <3>1
        <5>2. Head(q).op # "apply"
          BY <1>1, <4>1, <5>1
        <5> QED
          BY <1>2, <4>2, <5>2 DEF Elems
      <4>3. CASE m \notin 1..Len(s)
        <5>1. m \in (Len(s) + 1)..Len(u) /\ m - Len(s) + 1 \in 1..(j - 1)
          BY <1>2, <2>2, <4>3
        <5> QED
          BY <1>3, <4>1, <5>1
      <4> QED
        BY <4>2, <4>3
    <3> QED
      BY <3>2, <3>3
  <2> QED
    BY <1>2, <2>1, <2>2
<1> QED
  BY <1>4 DEF OrderOK, u, t

\* What is left of a list.
LEMMA OrderFrom ==
  ASSUME NEW q, Sequential(q), q # <<>>, OrderOK(q), NEW op
  PROVE  /\ OrderOK(From(Tail(q), op))
         /\ Elems(From(Tail(q), op)) \subseteq Elems(q)
<1> DEFINE t == Tail(q)
           f == From(t, op)
<1>1. /\ Sequential(t) /\ Len(q) \in Nat \ {0} /\ Len(t) = Len(q) - 1
      /\ \A j \in 1..Len(t) : t[j] = q[j + 1]
  BY Rest
<1> HIDE DEF t
<1>2. Sequential(f) /\ (f = <<>> \/ FollowsFrom(f, t, op))
  BY <1>1, FromIs
<1>3. Len(f) \in Nat
  BY <1>2, Unlisted
<1> HIDE DEF f
<1>4. CASE f = <<>>
  <2>1. Len(f) = 0 /\ Elems(f) = {}
    BY <1>4, Short
  <2>2. \A n \in 1..0 : FALSE
    OBVIOUS
  <2>3. OrderOK(f)
    BY <2>1, <2>2 DEF OrderOK
  <2> QED
    BY <2>1, <2>3 DEF f, t
<1>5. ASSUME NEW m \in 1..Len(t), Len(f) = Len(t) - m + 1,
             \A j \in 1..Len(f) : f[j] = t[m + j - 1]
      PROVE  OrderOK(f) /\ Elems(f) \subseteq Elems(q)
  <2>1. \A j \in 1..Len(f) : j + m \in 1..Len(q) /\ j + m > 1 /\ f[j] = q[j + m]
    BY <1>1, <1>5
  <2>2. \A j \in 1..Len(f) : \A i \in 1..(j - 1) :
          i \in 1..Len(f) /\ i + m \in 1..(j + m - 1)
    BY <1>3, <1>5
  <2>3. ASSUME NEW j \in 1..Len(f)
        PROVE  /\ f[j].op # "commit"
               /\ f[j].op \in {"flag", "insert", "commit"} =>
                    \A i \in 1..(j - 1) : f[i].op \notin {"apply", "land"}
    <3>1. j + m \in 1..Len(q) /\ j + m > 1 /\ f[j] = q[j + m]
      BY <2>1
    <3>2. f[j].op # "commit"
      BY <3>1 DEF OrderOK
    <3>3. ASSUME f[j].op \in {"flag", "insert", "commit"}, NEW i \in 1..(j - 1)
          PROVE  f[i].op \notin {"apply", "land"}
      <4>1. \A n \in 1..(j + m - 1) : q[n].op \notin {"apply", "land"}
        BY <3>1, <3>3 DEF OrderOK
      <4> QED
        BY <2>1, <2>2, <4>1
    <3> QED
      BY <3>2, <3>3
  <2>4. OrderOK(f)
    BY <2>3 DEF OrderOK
  <2> QED
    BY <2>1, <2>4 DEF Elems
<1> QED
  BY <1>2, <1>4, <1>5 DEF f, t, FollowsFrom

\* A list of at most three statements is in order, unless a number was drawn
\* for a later one or one behind an item is of a cascade.
LEMMA ShortOrder ==
  ASSUME NEW x, NEW y, NEW z
  PROVE  /\ OrderOK(<<>>) /\ OrderOK(<<x>>)
         /\ y.op \notin {"flag", "insert", "commit"} => OrderOK(<<x, y>>)
         /\ /\ y.op \notin {"flag", "insert", "commit"} /\ z.op # "commit"
            /\ x.op \notin {"apply", "land"} /\ y.op \notin {"apply", "land"}
            => OrderOK(<<x, y, z>>)
<1>1. /\ Len(<<>>) = 0 /\ Len(<<x>>) = 1 /\ Len(<<x, y>>) = 2 /\ Len(<<x, y, z>>) = 3
      /\ <<x, y>>[2] = y
      /\ <<x, y, z>>[1] = x /\ <<x, y, z>>[2] = y /\ <<x, y, z>>[3] = z
  BY Short
<1>2. /\ 1..0 = {} /\ 1..1 = {1} /\ 1..2 = {1, 2} /\ 1..3 = {1, 2, 3}
      /\ 1..(1 - 1) = {} /\ 1..(2 - 1) = {1} /\ 1..(3 - 1) = {1, 2}
  OBVIOUS
<1>3. OrderOK(<<>>)
  BY <1>1, <1>2 DEF OrderOK
<1>4. OrderOK(<<x>>)
  BY <1>1, <1>2 DEF OrderOK
<1>5. ASSUME y.op \notin {"flag", "insert", "commit"} PROVE OrderOK(<<x, y>>)
  BY <1>1, <1>2, <1>5 DEF OrderOK
<1>6. ASSUME y.op \notin {"flag", "insert", "commit"}, z.op # "commit",
             x.op \notin {"apply", "land"}, y.op \notin {"apply", "land"}
      PROVE  OrderOK(<<x, y, z>>)
  BY <1>1, <1>2, <1>6 DEF OrderOK
<1> QED
  BY <1>3, <1>4, <1>5, <1>6

\* The number drawn for a statement: it is the first of its list.
LEMMA DrawnFirst ==
  ASSUME NEW q, Sequential(q), OrderOK(q)
  PROVE  /\ \A s \in Elems(q) : s.op = "commit" => q # <<>> /\ s = Head(q)
         /\ q # <<>> => \A s \in Elems(Tail(q)) : s.op # "commit"
<1>1. ASSUME q # <<>>
      PROVE  /\ \A s \in Elems(q) : s.op = "commit" => s = Head(q)
             /\ \A s \in Elems(Tail(q)) : s.op # "commit"
  <2>1. /\ Len(q) \in Nat \ {0} /\ Len(Tail(q)) = Len(q) - 1 /\ Head(q) = q[1]
        /\ \A j \in 1..Len(Tail(q)) : Tail(q)[j] = q[j + 1]
    BY <1>1, Rest
  <2>2. \A j \in 1..Len(q) : j = 1 \/ j > 1
    BY <2>1
  <2>3. \A j \in 1..Len(Tail(q)) : j + 1 \in 1..Len(q) /\ j + 1 > 1
    BY <2>1
  <2>4. \A s \in Elems(q) : s.op = "commit" => s = Head(q)
    BY <2>1, <2>2 DEF OrderOK, Elems
  <2>5. \A j \in 1..Len(Tail(q)) : Tail(q)[j].op # "commit"
    BY <2>1, <2>3 DEF OrderOK
  <2> QED
    BY <2>4, <2>5 DEF Elems
<1>2. q = <<>> => Elems(q) = {}
  BY Short
<1> QED
  BY <1>1, <1>2

\* Nothing of a cascade is behind an item.
LEMMA ItemFirst ==
  ASSUME NEW q, Sequential(q), OrderOK(q), q # <<>>, Head(q).op \in {"apply", "land"}
  PROVE  \A s \in Elems(q) : s.op \notin {"flag", "insert", "commit"}
<1>1. Len(q) \in Nat \ {0} /\ Head(q) = q[1]
  BY Rest
<1>2. \A j \in 1..Len(q) : j = 1 \/ 1 \in 1..(j - 1)
  BY <1>1
<1>3. \A j \in 1..Len(q) : q[j].op \notin {"flag", "insert", "commit"}
  BY <1>1, <1>2 DEF OrderOK
<1> QED
  BY <1>3 DEF Elems

\* What a process has to execute after its first statement was replaced by
\* those of S.
Replaced(p, S) ==
  /\ \A x \in Procs \ {p} : todo'[x] = todo[x]
  /\ \E T : /\ Elems(todo[p]) = {Head(todo[p])} \cup T
            /\ Elems(todo'[p]) = S \cup T

\* The first statement is replaced by those of a list of the same shape.
LEMMA ThenShape ==
  ASSUME IInv, ShapeInv, NEW p \in Procs, todo[p] # <<>>, NEW s, Then(p, s),
         Sequential(s), ListShape(p, s),
         Head(todo[p]).op = "apply" \/ \A x \in Elems(s) : x.op \notin {"apply", "land"}
  PROVE  ShapeInv' /\ Replaced(p, Elems(s))
<1> DEFINE q == todo[p]
<1>1. todo = [x \in Procs |-> todo[x]] /\ Sequential(q) /\ OrderOK(q)
  BY DEF IInv, ListsOK, ListOK, ShapeInv, ListShape
<1>2. todo' = [x \in Procs |-> IF x = p THEN s \o Tail(q) ELSE todo[x]]
  BY <1>1 DEF Then
<1>3. Elems(q) = {Head(q)} \cup Elems(Tail(q))
  BY <1>1, HeadAndRest
<1>4. Elems(s \o Tail(q)) = Elems(s) \cup Elems(Tail(q))
  BY <1>1, Rest, ElemsJoined
<1>5. OrderOK(s \o Tail(q))
  BY <1>1, OrderThen DEF ListShape
<1>6. \A x \in Elems(s) \cup Elems(Tail(q)) : StmtOK(p, x)
  BY <1>3 DEF ShapeInv, ListShape
<1>7. ListShape(p, s \o Tail(q))
  BY <1>4, <1>5, <1>6 DEF ListShape
<1>8. \A x \in Procs : ListShape(x, todo'[x])
  BY <1>2, <1>7 DEF ShapeInv
<1>9. ShapeInv'
  BY <1>8 DEF ShapeInv
<1>10. todo'[p] = s \o Tail(q) /\ \A x \in Procs \ {p} : todo'[x] = todo[x]
  BY <1>2
<1>11. Elems(todo'[p]) = Elems(s) \cup Elems(Tail(q))
  BY <1>4, <1>10
<1> QED
  BY <1>3, <1>9, <1>10, <1>11 DEF Replaced

\* A statement is executed and nothing takes its place.
LEMMA Executed ==
  ASSUME IInv, ShapeInv, NEW p \in Procs, todo[p] # <<>>, Then(p, <<>>)
  PROVE  ShapeInv' /\ Replaced(p, {})
<1>1. Sequential(<<>>) /\ Elems(<<>>) = {} /\ OrderOK(<<>>)
  BY Short, ShortOrder
<1>2. ListShape(p, <<>>)
  BY <1>1 DEF ListShape
<1> QED
  BY <1>1, <1>2, ThenShape

\* ... or another one does.
LEMMA Replacement ==
  ASSUME IInv, ShapeInv, NEW p \in Procs, todo[p] # <<>>, NEW x, Then(p, <<x>>),
         StmtOK(p, x), x.op \notin {"apply", "land"}
  PROVE  ShapeInv' /\ Replaced(p, {x})
<1>1. Sequential(<<x>>) /\ Elems(<<x>>) = {x} /\ OrderOK(<<x>>)
  BY Short, ShortOrder
<1>2. ListShape(p, <<x>>)
  BY <1>1 DEF ListShape
<1> QED
  BY <1>1, <1>2, ThenShape

\* The statement at the head of a list.
LEMMA HeadShape ==
  ASSUME IInv, ShapeInv, NEW p \in Procs, todo[p] # <<>>
  PROVE  Head(todo[p]) \in Elems(todo[p]) /\ StmtOK(p, Head(todo[p]))
<1>1. Elems(todo[p]) = {Head(todo[p])} \cup Elems(Tail(todo[p]))
  BY HeadAndRest DEF IInv, ListsOK, ListOK
<1> QED
  BY <1>1 DEF ShapeInv, ListShape

-----------------------------------------------------------------------------
(* Every list keeps its shape. *)

\* The commit of a number is the only step that adds a statement about one,
\* and every step but those of a cascade keeps what calls have due.
Quiet(S) == \A x \in S : x.op \notin {"cascade", "flag", "insert", "commit"}

\* An item is received again, or is to be landed and receipted.
LEMMA ApplyShape ==
  ASSUME IInv, ShapeInv, NEW p \in Procs, ApplyOutboxItem(p)
  PROVE  /\ ShapeInv' /\ Head(todo[p]).op = "apply"
         /\ \E S : Quiet(S) /\ Replaced(p, S)
<1> DEFINE s == Head(todo[p])
           x == [op |-> "land", i |-> s.i, state |-> s.state]
           y == [op |-> "receipt", i |-> s.i]
<1>1. todo[p] # <<>> /\ s.op = "apply" /\ (Then(p, <<>>) \/ Then(p, <<x, y>>))
  BY DEF ApplyOutboxItem, Stmts
<1>2. StmtOK(p, s)
  BY <1>1, HeadShape
<1>3. CASE Then(p, <<>>)
  <2>1. ShapeInv' /\ Replaced(p, {})
    BY <1>1, <1>3, Executed
  <2> QED
    BY <1>1, <2>1 DEF Quiet
<1>4. CASE Then(p, <<x, y>>)
  <2>1. /\ x.op = "land" /\ y.op = "receipt" /\ x.i = s.i /\ x.state = s.state
    OBVIOUS
  <2>2. StmtOK(p, x) /\ StmtOK(p, y)
    BY <1>1, <1>2, <2>1 DEF StmtOK
  <2> HIDE DEF x, y
  <2>3. Sequential(<<x, y>>) /\ Elems(<<x, y>>) = {x, y}
    BY Short
  <2>4. OrderOK(<<x, y>>)
    BY <2>1, ShortOrder
  <2>5. ListShape(p, <<x, y>>)
    BY <2>2, <2>3, <2>4 DEF ListShape
  <2>6. ShapeInv' /\ Replaced(p, {x, y})
    BY <1>1, <1>4, <2>3, <2>5, ThenShape
  <2> QED
    BY <1>1, <2>1, <2>6 DEF Quiet
<1> QED
  BY <1>1, <1>3, <1>4

\* The version is in the table and a cascade is due.
LEMMA UpsertShape ==
  ASSUME IInv, ShapeInv, NEW p \in Procs, UpsertReportVersion(p)
  PROVE  /\ ShapeInv' /\ Head(todo[p]).op = "land" /\ p \in Calls
         /\ Replaced(p, {[op |-> "cascade"]})
<1> DEFINE s == Head(todo[p])
           c == [op |-> "cascade"]
<1>1. todo[p] # <<>> /\ s.op = "land" /\ Then(p, <<c>>)
  BY DEF UpsertReportVersion, Stmts
<1>2. StmtOK(p, s)
  BY <1>1, HeadShape
<1>3. p \in Calls
  BY <1>1, <1>2 DEF StmtOK
<1>4. c.op = "cascade"
  OBVIOUS
<1> HIDE DEF c
<1>5. StmtOK(p, c)
  BY <1>3, <1>4 DEF StmtOK
<1>6. ShapeInv' /\ Replaced(p, {c})
  BY <1>1, <1>4, <1>5, Replacement
<1> QED
  BY <1>1, <1>3, <1>6 DEF c

\* Statements that are no part of a cascade and lead to none.
LEMMA QuietShape ==
  ASSUME IInv, ShapeInv, NEW p \in Procs,
         \/ LandAuditEvent(p) \/ RecordOutboxReceipt(p) \/ InsertChatMessage(p)
         \/ UpdateReportVersionState(p) \/ AppendReportAuditEvent(p) \/ Reply(p)
  PROVE  /\ ShapeInv' /\ Quiet({Head(todo[p])})
         /\ \E S : Quiet(S) /\ Replaced(p, S)
<1> DEFINE s == Head(todo[p])
<1>1. CASE LandAuditEvent(p)
  <2> DEFINE e == event(<<s.i.r, s.i.v>>, "vessel", s.i.no)
  <2>1. todo[p] # <<>> /\ s.op = "land" /\ Then(p, <<e>>)
    BY <1>1 DEF LandAuditEvent, Stmts
  <2>2. e.op = "event"
    BY DEF event
  <2> HIDE DEF e
  <2>3. StmtOK(p, e)
    BY <2>2 DEF StmtOK
  <2>4. ShapeInv' /\ Replaced(p, {e})
    BY <2>1, <2>2, <2>3, Replacement
  <2> QED
    BY <2>1, <2>2, <2>4 DEF Quiet
<1>2. CASE \/ RecordOutboxReceipt(p) \/ InsertChatMessage(p)
           \/ UpdateReportVersionState(p) \/ AppendReportAuditEvent(p) \/ Reply(p)
  <2>1. /\ todo[p] # <<>> /\ Then(p, <<>>)
        /\ s.op \in {"receipt", "chat", "setState", "event", "reply"}
    BY <1>2 DEF RecordOutboxReceipt, InsertChatMessage, UpdateReportVersionState,
                AppendReportAuditEvent, Reply, Stmts
  <2>2. ShapeInv' /\ Replaced(p, {})
    BY <2>1, Executed
  <2> QED
    BY <2>1, <2>2 DEF Quiet
<1> QED
  BY <1>1, <1>2

\* Every version that breaks a rule is to be looked at.
LEMMA CascadeShape ==
  ASSUME IInv, ShapeInv, NEW p \in Procs, RunCascade(p)
  PROVE  /\ ShapeInv' /\ Head(todo[p]).op = "cascade" /\ p \in Calls
         /\ Replaced(p, {[op |-> "flag",
                          c |-> [k |-> k, state |-> versions[k].state, rules |-> Broken(k)]] :
                           k \in {m \in Chain : Broken(m) # {}}})
<1> DEFINE s == Head(todo[p])
           S == {m \in Chain : Broken(m) # {}}
           c == [k \in S |-> [k |-> k, state |-> versions[k].state, rules |-> Broken(k)]]
           flagged == {[k |-> k, state |-> versions[k].state, rules |-> Broken(k)] : k \in S}
<1>1. todo[p] # <<>> /\ s.op = "cascade"
  BY DEF RunCascade, Stmts
<1>2. PICK q \in SetToSeqs(flagged) : Then(p, [n \in DOMAIN q |-> [op |-> "flag", c |-> q[n]]])
  BY DEF RunCascade, Ascending
<1>3. p \in Calls
  <2>1. StmtOK(p, s)
    BY <1>1, HeadShape
  <2> QED
    BY <1>1, <2>1 DEF StmtOK
<1>4. IsFiniteSet(flagged)
  <2>1. IsFiniteSet(S)
    <3>1. S \subseteq Keys
      BY DEF Chain
    <3> QED
      BY <3>1, FS_Subset DEF IInv
  <2>2. c = [k \in S |-> c[k]] /\ flagged = {c[k] : k \in S}
    OBVIOUS
  <2> HIDE DEF c, flagged, S
  <2>3. c \in Surjection(S, flagged)
    BY <2>2 DEF Surjection
  <2> QED
    BY <2>1, <2>3, FS_Surjection
<1> HIDE DEF flagged
<1>5. Cardinality(flagged) \in Nat
  BY <1>4, FS_CardinalityType
<1> DEFINE n == Cardinality(flagged)
<1>6. q \in [1..n -> flagged] /\ \A i, j \in 1..n : i # j => q[i] # q[j]
  BY DEF SetToSeqs
<1>7. \A c1 \in flagged : \E j \in 1..n : q[j] = c1
  <2>1. q \in Injection(1..n, flagged)
    <3>1. \A i, j \in 1..n : q[i] = q[j] => i = j
      BY <1>6
    <3>2. IsInjective(q)
      BY <1>6, <3>1 DEF IsInjective
    <3> QED
      BY <1>6, <3>2 DEF Injection
  <2>2. IsFiniteSet(1..n) /\ Cardinality(1..n) = n
    BY <1>5, FS_Interval
  <2>3. q \in Surjection(1..n, flagged)
    BY <1>4, <2>1, <2>2, FS_Injection
  <2> QED
    BY <2>3 DEF Surjection
<1> DEFINE f == [j \in DOMAIN q |-> [op |-> "flag", c |-> q[j]]]
<1>8. /\ f = [j \in 1..n |-> f[j]]
      /\ \A j \in 1..n : f[j] = [op |-> "flag", c |-> q[j]]
  BY <1>6
<1>9. Then(p, f)
  BY <1>2
<1> HIDE DEF f, n
<1>10. Sequential(f) /\ Len(f) = n
  BY <1>5, <1>8, Listed DEF n
<1>11. Elems(f) = {[op |-> "flag", c |-> c1] : c1 \in flagged}
  <2>1. \A j \in 1..n : q[j] \in flagged
    BY <1>6
  <2>2. Elems(f) \subseteq {[op |-> "flag", c |-> c1] : c1 \in flagged}
    BY <1>8, <1>10, <2>1 DEF Elems
  <2>3. {[op |-> "flag", c |-> c1] : c1 \in flagged} \subseteq Elems(f)
    <3>1. ASSUME NEW c1 \in flagged PROVE [op |-> "flag", c |-> c1] \in Elems(f)
      <4>1. PICK j \in 1..n : q[j] = c1
        BY <1>7
      <4>2. f[j] = [op |-> "flag", c |-> c1]
        BY <1>8, <4>1
      <4> QED
        BY <1>10, <4>1, <4>2 DEF Elems
    <3> QED
      BY <3>1
  <2> QED
    BY <2>2, <2>3
<1>12. \A x \in Elems(f) : x.op = "flag"
  BY <1>11
<1>13. OrderOK(f)
  <2>1. \A j \in 1..n : f[j].op = "flag"
    BY <1>8
  <2>2. \A j \in 1..n : \A m \in 1..(j - 1) : m \in 1..n
    BY <1>5 DEF n
  <2> QED
    BY <1>10, <2>1, <2>2 DEF OrderOK
<1>14. ListShape(p, f)
  BY <1>3, <1>12, <1>13 DEF ListShape, StmtOK
<1>15. ShapeInv' /\ Replaced(p, Elems(f))
  BY <1>1, <1>9, <1>10, <1>12, <1>14, ThenShape
<1>16. {[op |-> "flag", c |-> c1] : c1 \in flagged}
         = {[op |-> "flag",
             c |-> [k |-> k, state |-> versions[k].state, rules |-> Broken(k)]] : k \in S}
  BY DEF flagged
<1> QED
  BY <1>1, <1>3, <1>11, <1>15, <1>16

\* A version whose latest notice says the same is left alone, another one is
\* set, with its event, and its notice is to be inserted.
LEMMA FlagShape ==
  ASSUME IInv, ShapeInv, NEW p \in Procs, FlagVersion(p)
  PROVE  LET c == Head(todo[p]).c IN
         /\ ShapeInv' /\ Head(todo[p]).op = "flag" /\ p \in Calls
         /\ \/ LatestRules(c.k) = c.rules /\ Replaced(p, {})
            \/ \E x, y, z :
                 /\ x.op = "setState" /\ y.op = "event" /\ z.op = "insert"
                 /\ z.row = [r |-> c.k[1], v |-> c.k[2], rules |-> c.rules]
                 /\ Replaced(p, {x, y, z})
<1> DEFINE s == Head(todo[p])
           c == s.c
           x == setState(c.k, "invalidated")
           y == event(c.k, "invalidated", c.rules)
           z == insert("notice", [r |-> c.k[1], v |-> c.k[2], rules |-> c.rules])
<1>1. /\ todo[p] # <<>> /\ s.op = "flag"
      /\ (LatestRules(c.k) = c.rules /\ Then(p, <<>>)) \/ Then(p, <<x, y, z>>)
  BY DEF FlagVersion, Stmts
<1>2. p \in Calls
  <2>1. StmtOK(p, s)
    BY <1>1, HeadShape
  <2> QED
    BY <1>1, <2>1 DEF StmtOK
<1>3. CASE LatestRules(c.k) = c.rules /\ Then(p, <<>>)
  <2>1. ShapeInv' /\ Replaced(p, {})
    BY <1>1, <1>3, Executed
  <2> QED
    BY <1>1, <1>2, <1>3, <2>1
<1>4. CASE Then(p, <<x, y, z>>)
  <2>1. /\ x.op = "setState" /\ x.state = "invalidated" /\ y.op = "event"
        /\ z.op = "insert" /\ z.q = "notice"
        /\ z.row = [r |-> c.k[1], v |-> c.k[2], rules |-> c.rules]
    BY DEF setState, event, insert
  <2> HIDE DEF x, y, z
  <2>2. StmtOK(p, x) /\ StmtOK(p, y) /\ StmtOK(p, z)
    BY <1>2, <2>1 DEF StmtOK, StreamOf, State, InChain, Editable
  <2>3. Sequential(<<x, y, z>>) /\ Elems(<<x, y, z>>) = {x, y, z}
    BY ShortThree, Zenon
  <2>4. OrderOK(<<x, y, z>>)
    BY <2>1, ShortOrder
  <2>5. ListShape(p, <<x, y, z>>)
    BY <2>2, <2>3, <2>4 DEF ListShape
  <2>6. ShapeInv' /\ Replaced(p, {x, y, z})
    BY <1>1, <1>4, <2>1, <2>3, <2>5, ThenShape
  <2> QED
    BY <1>1, <1>2, <2>1, <2>6
<1> QED
  BY <1>1, <1>3, <1>4

\* The commit of a row follows the number drawn for it.
LEMMA DrawShape ==
  ASSUME IInv, ShapeInv, NEW p \in Procs, DrawSeq(p)
  PROVE  LET s == Head(todo[p]) IN
         /\ ShapeInv' /\ s.op = "insert" /\ s.q = StreamOf(p)
         /\ Replaced(p, {[op |-> "commit", q |-> s.q, seq |-> nextSeq[s.q], row |-> s.row]})
<1> DEFINE s == Head(todo[p])
           x == [op |-> "commit", q |-> s.q, seq |-> nextSeq[s.q], row |-> s.row]
<1>1. todo[p] # <<>> /\ s.op = "insert" /\ Then(p, <<x>>)
  BY DEF DrawSeq, Stmts
<1>2. StmtOK(p, s)
  BY <1>1, HeadShape
<1>3. s.q = StreamOf(p)
  BY <1>1, <1>2 DEF StmtOK
<1>4. x.op = "commit" /\ x.q = s.q
  OBVIOUS
<1> HIDE DEF x
<1>5. StmtOK(p, x)
  BY <1>3, <1>4 DEF StmtOK
<1>6. ShapeInv' /\ Replaced(p, {x})
  BY <1>1, <1>4, <1>5, Replacement
<1> QED
  BY <1>1, <1>3, <1>6 DEF x

\* A row is committed and its process goes on.
LEMMA CommitShape ==
  ASSUME IInv, ShapeInv, NEW p \in Procs, CommitInsert(p)
  PROVE  /\ ShapeInv' /\ todo[p] # <<>> /\ Head(todo[p]).op = "commit"
         /\ Head(todo[p]).q = StreamOf(p) /\ Replaced(p, {})
<1>1. todo[p] # <<>> /\ Head(todo[p]).op = "commit" /\ Then(p, <<>>)
  BY DEF CommitInsert, Stmts
<1>2. StmtOK(p, Head(todo[p]))
  BY <1>1, HeadShape
<1> QED
  BY <1>1, <1>2, Executed DEF StmtOK

\* A list that takes the place of what a process had to execute.
LEMMA NewList ==
  ASSUME IInv, ShapeInv, NEW p \in Procs, NEW q, todo' = [todo EXCEPT ![p] = q],
         ListShape(p, q)
  PROVE  ShapeInv' /\ todo'[p] = q /\ \A x \in Procs \ {p} : todo'[x] = todo[x]
<1>1. todo' = [x \in Procs |-> IF x = p THEN q ELSE todo[x]]
  BY DEF IInv, ListsOK
<1> QED
  BY <1>1 DEF ShapeInv

\* A call is to apply its items.
LEMMA PushShape ==
  ASSUME IInv, ShapeInv, NEW p \in Calls, NEW batch \in SUBSET Items,
         NEW st \in [batch -> PushStates], PushOutbox(p, batch, st)
  PROVE  /\ ShapeInv' /\ todo[p] = <<>> /\ Quiet(Elems(todo'[p]))
         /\ \A x \in Procs \ {p} : todo'[x] = todo[x]
<1> DEFINE key(i) == [op |-> "apply", i |-> i, state |-> st[i]]
           reply == [op |-> "reply"]
<1>1. p \in Procs /\ todo[p] = <<>>
  BY DEF PushOutbox, Procs
<1>2. PICK q \in SetToSeqs(batch) :
        todo' = [todo EXCEPT ![p] = [n \in DOMAIN q |-> key(q[n])] \o <<reply>>]
  BY DEF PushOutbox, Ascending
<1>3. IsFiniteSet(batch)
  BY ItemsAssumption, FS_Subset
<1>4. PICK n \in Nat : DOMAIN q = 1..n /\ \A j \in 1..n : q[j] \in batch
  BY <1>3, ListOfSet
<1> DEFINE f == [j \in DOMAIN q |-> key(q[j])]
<1>5. /\ f = [j \in 1..n |-> f[j]]
      /\ \A j \in 1..n : f[j].op = "apply" /\ f[j].i \in Items /\ f[j].state \in PushStates
  BY <1>4
<1>6. Sequential(f) /\ Len(f) = n
  BY <1>5, Listed
<1>7. reply.op = "reply"
  OBVIOUS
<1>8. todo' = [todo EXCEPT ![p] = f \o <<reply>>]
  BY <1>2
<1> HIDE DEF f, reply
<1>9. Sequential(<<reply>>) /\ Len(<<reply>>) = 1 /\ Elems(<<reply>>) = {reply}
  BY Short
<1> DEFINE u == f \o <<reply>>
<1>10. /\ Sequential(u) /\ Len(u) = n + 1 /\ Elems(u) = Elems(f) \cup {reply}
  BY <1>6, <1>9, Joined, ElemsJoined
<1>11. todo' = [todo EXCEPT ![p] = u]
  BY <1>8
<1> HIDE DEF u
<1>12. \A s \in Elems(u) : \/ s.op = "apply" /\ s.i \in Items /\ s.state \in PushStates
                           \/ s.op = "reply"
  BY <1>5, <1>6, <1>7, <1>10 DEF Elems
<1>13. OrderOK(u)
  <2>1. \A j \in 1..Len(u) : u[j].op \in {"apply", "reply"}
    BY <1>12 DEF Elems
  <2> QED
    BY <2>1 DEF OrderOK
<1>14. ListShape(p, u)
  BY <1>12, <1>13 DEF ListShape, StmtOK
<1>15. ShapeInv' /\ todo'[p] = u /\ \A x \in Procs \ {p} : todo'[x] = todo[x]
  BY <1>1, <1>11, <1>14, NewList
<1>16. Quiet(Elems(u))
  BY <1>12 DEF Quiet
<1> QED
  BY <1>1, <1>15, <1>16

\* A request is to insert its remarks, and then to set the state.
LEMMA RemarkShape ==
  ASSUME IInv, ShapeInv, NEW p \in Reviewers, NEW r, NEW fields \in SUBSET Fields,
         CreateRemarkSet(p, r, fields)
  PROVE  /\ ShapeInv' /\ todo[p] = <<>> /\ \A s \in Elems(todo'[p]) : s.op # "commit"
         /\ \A x \in Procs \ {p} : todo'[x] = todo[x]
<1> DEFINE k == <<r, Max({m[2] : m \in {n \in Keys : n[1] = r}})>>
           row(f) == insert("remark", [set |-> sets + 1, field |-> f, r |-> r, v |-> k[2]])
           x == setState(k, "remarked")
           y == event(k, "remarked", sets + 1)
           z == [op |-> "chat", set |-> sets + 1]
           rest == IF InChain(versions[k].state) THEN <<x, y, z>> ELSE <<>>
<1>1. p \in Procs /\ p \notin Calls /\ todo[p] = <<>>
  BY ProcsAssumption DEF CreateRemarkSet, Procs
<1>2. PICK q \in SetToSeqs(fields) :
        todo' = [todo EXCEPT ![p] = [n \in DOMAIN q |-> row(q[n])] \o rest]
  BY DEF CreateRemarkSet
<1>3. IsFiniteSet(fields)
  BY ItemsAssumption, FS_Subset
<1>4. PICK n \in Nat : DOMAIN q = 1..n
  BY <1>3, ListOfSet
<1> DEFINE f == [j \in DOMAIN q |-> row(q[j])]
<1>5. /\ f = [j \in 1..n |-> f[j]]
      /\ \A j \in 1..n : f[j].op = "insert" /\ f[j].q = "remark"
  BY <1>4 DEF insert
<1>6. Sequential(f) /\ Len(f) = n
  BY <1>5, Listed
<1>7. todo' = [todo EXCEPT ![p] = f \o rest]
  BY <1>2
<1>8. /\ x.op = "setState" /\ x.state = "remarked" /\ y.op = "event" /\ z.op = "chat"
  BY DEF setState, event
<1>9. rest = <<x, y, z>> \/ rest = <<>>
  OBVIOUS
<1> HIDE DEF f, rest, x, y, z
<1>10. Sequential(rest) /\ Elems(rest) \subseteq {x, y, z}
  <2>1. Sequential(<<x, y, z>>) /\ Elems(<<x, y, z>>) = {x, y, z}
    BY ShortThree, Zenon
  <2>2. Sequential(<<>>) /\ Elems(<<>>) = {}
    BY Short
  <2> QED
    BY <1>9, <2>1, <2>2
<1> DEFINE u == f \o rest
<1>11. Sequential(u) /\ Elems(u) = Elems(f) \cup Elems(rest)
  BY <1>6, <1>10, Joined, ElemsJoined
<1>12. todo' = [todo EXCEPT ![p] = u]
  BY <1>7
<1> HIDE DEF u
<1>13. \A s \in Elems(f) : s.op = "insert" /\ s.q = "remark"
  BY <1>5, <1>6 DEF Elems
<1>14. \A s \in Elems(u) : \/ s.op = "insert" /\ s.q = "remark"
                           \/ s.op = "setState" /\ s.state = "remarked"
                           \/ s.op \in {"event", "chat"}
  BY <1>8, <1>10, <1>11, <1>13
<1>15. OrderOK(u)
  <2>1. \A j \in 1..Len(u) : u[j].op \in {"insert", "setState", "event", "chat"}
    BY <1>14 DEF Elems
  <2>2. Len(u) \in Nat
    BY <1>11, Unlisted
  <2>3. \A j \in 1..Len(u) : \A m \in 1..(j - 1) : m \in 1..Len(u)
    BY <2>2
  <2> QED
    BY <2>1, <2>3 DEF OrderOK
<1>16. \A s \in Elems(u) : StmtOK(p, s)
  BY <1>1, <1>14 DEF StmtOK, StreamOf, State, InChain, Editable
<1>17. ShapeInv' /\ todo'[p] = u /\ \A w \in Procs \ {p} : todo'[w] = todo[w]
  BY <1>1, <1>12, <1>15, <1>16, NewList DEF ListShape
<1>18. \A s \in Elems(u) : s.op # "commit"
  BY <1>14
<1> QED
  BY <1>1, <1>17, <1>18

\* A failed statement, or a call that is cut, adds at most the reply.
LEMMA FailureShape ==
  ASSUME IInv, ShapeInv, NEW p \in Procs, StatementFails(p) \/ CallCut(p)
  PROVE  /\ ShapeInv'
         /\ \A s \in Elems(todo'[p]) : s \in Elems(todo[p]) \/ s.op = "reply"
         /\ \A x \in Procs \ {p} : todo'[x] = todo[x]
<1> DEFINE q == todo[p]
           reply == [op |-> "reply"]
<1>1. q # <<>> /\ Sequential(q) /\ ListShape(p, q)
  BY DEF StatementFails, CallCut, IInv, ListsOK, ListOK, ShapeInv
<1>2. reply.op = "reply"
  OBVIOUS
<1>3. /\ \/ todo' = [todo EXCEPT ![p] = <<>>]
         \/ p \in Calls /\ todo' = [todo EXCEPT ![p] = <<reply>>]
         \/ \E op : todo' = [todo EXCEPT ![p] = From(Tail(q), op)]
  BY DEF StatementFails, CallCut, Procs
<1> HIDE DEF reply
<1>4. CASE todo' = [todo EXCEPT ![p] = <<>>]
  <2>1. Elems(<<>>) = {} /\ OrderOK(<<>>)
    BY Short, ShortOrder
  <2>2. ListShape(p, <<>>)
    BY <2>1 DEF ListShape
  <2>3. ShapeInv' /\ todo'[p] = <<>> /\ \A x \in Procs \ {p} : todo'[x] = todo[x]
    BY <1>4, <2>2, NewList
  <2> QED
    BY <2>1, <2>3
<1>5. CASE p \in Calls /\ todo' = [todo EXCEPT ![p] = <<reply>>]
  <2>1. Elems(<<reply>>) = {reply} /\ OrderOK(<<reply>>)
    BY Short, ShortOrder
  <2>2. ListShape(p, <<reply>>)
    BY <1>2, <1>5, <2>1 DEF ListShape, StmtOK
  <2>3. ShapeInv' /\ todo'[p] = <<reply>> /\ \A x \in Procs \ {p} : todo'[x] = todo[x]
    BY <1>5, <2>2, NewList
  <2> QED
    BY <1>2, <2>1, <2>3
<1>6. ASSUME NEW op, todo' = [todo EXCEPT ![p] = From(Tail(q), op)]
      PROVE  /\ ShapeInv'
             /\ Elems(todo'[p]) \subseteq Elems(q)
             /\ \A x \in Procs \ {p} : todo'[x] = todo[x]
  <2> DEFINE f == From(Tail(q), op)
  <2>1. OrderOK(f) /\ Elems(f) \subseteq Elems(q)
    BY <1>1, OrderFrom DEF ListShape
  <2>2. ListShape(p, f)
    BY <1>1, <2>1 DEF ListShape
  <2>3. ShapeInv' /\ todo'[p] = f /\ \A x \in Procs \ {p} : todo'[x] = todo[x]
    BY <1>6, <2>2, NewList
  <2> QED
    BY <2>1, <2>3
<1> QED
  BY <1>3, <1>4, <1>5, <1>6

-----------------------------------------------------------------------------
(* The rows, the shapes and the streams. *)

\* The statements a step leaves are old ones or add no number drawn for q.
NothingDrawn(q) ==
  \A x \in Procs : \A s \in Elems(todo'[x]) :
    s.op = "commit" /\ s.q = q => s \in Elems(todo[x])

\* A first statement that gave way to others draws nothing.
LEMMA NoneDrawn ==
  ASSUME NEW p \in Procs, NEW S, Replaced(p, S), NEW q,
         \A s \in S : s.op = "commit" => s.q # q
  PROVE  NothingDrawn(q)
<1>1. PICK T : Elems(todo[p]) = {Head(todo[p])} \cup T /\ Elems(todo'[p]) = S \cup T
  BY DEF Replaced
<1>2. \A s \in Elems(todo'[p]) : s.op = "commit" /\ s.q = q => s \in Elems(todo[p])
  BY <1>1
<1>3. \A x \in Procs \ {p} : todo'[x] = todo[x]
  BY DEF Replaced
<1> QED
  BY <1>2, <1>3 DEF NothingDrawn

\* The tables and cursors stay, and no number is drawn.
LEMMA StreamKept ==
  ASSUME NEW q \in Streams, StreamInv(q), NothingDrawn(q),
         UNCHANGED <<nextSeq, cursors, pulled, Table(q)>>
  PROVE  StreamInv(q)'
BY DEF StreamInv, NothingDrawn

\* The greatest of some numbers, if there is a bound.
LEMMA GreatestNumber ==
  ASSUME NEW S \in SUBSET Nat, S # {}, NEW b \in Nat, \A x \in S : x <= b
  PROVE  Max(S) \in S /\ \A x \in S : x <= Max(S)
<1> DEFINE T == {n \in Nat : b - n \in S}
           m == Min(T)
<1>1. T # {}
  <2>1. PICK x \in S : TRUE
    OBVIOUS
  <2>2. b - x \in Nat /\ b - (b - x) = x
    BY <2>1
  <2> QED
    BY <2>1, <2>2
<1>2. T \in SUBSET Nat
  OBVIOUS
<1>3. m \in T
  BY <1>1, <1>2, LeastNumber
<1>4. \A n \in T : m <= n
  <2>1. IsWellFoundedOn(OpToRel(<, Nat), Nat)
    BY NatLessThanWellFounded
  <2>2. PICK l \in T : \A k \in T : <<k, l>> \notin OpToRel(<, Nat)
    BY <1>1, <1>2, <2>1, WFMin, Zenon
  <2>3. \A k \in T : l =< k
    <3>1. \A k \in T : ~(k < l)
      BY <1>2, <2>2 DEF OpToRel
    <3> QED
      BY <1>2, <3>1
  <2> HIDE DEF T, m
  <2>4. Min(T) \in T /\ \A k \in T : Min(T) =< k
    BY <2>3 DEF Min
  <2> QED
    BY <2>4 DEF m
<1> HIDE DEF m
<1>5. b - m \in S /\ \A x \in S : x <= b - m
  <2>1. m \in Nat /\ b - m \in S
    BY <1>3
  <2>2. ASSUME NEW x \in S PROVE x <= b - m
    <3>1. b - x \in Nat /\ b - (b - x) = x
      OBVIOUS
    <3>2. m <= b - x
      BY <1>4, <3>1
    <3> QED
      BY <2>1, <3>2
  <2> QED
    BY <2>1, <2>2
<1>6. \E g \in S : \A x \in S : g >= x
  BY <1>5
<1>7. Max(S) \in S /\ \A x \in S : Max(S) >= x
  BY <1>6 DEF Max
<1> QED
  BY <1>7

\* A number is drawn: it is the greatest so far.
LEMMA DrawStream ==
  ASSUME IInv, ShapeInv, NEW q \in Streams, StreamInv(q), NEW p \in Procs, DrawSeq(p),
         UNCHANGED vessel
  PROVE  StreamInv(q)'
<1> DEFINE s == Head(todo[p])
           x == [op |-> "commit", q |-> s.q, seq |-> nextSeq[s.q], row |-> s.row]
<1>1. /\ s.q = StreamOf(p) /\ Replaced(p, {x})
      /\ nextSeq' = [nextSeq EXCEPT ![s.q] = @ + 1]
      /\ UNCHANGED <<cursors, pulled, notices, remarks>>
  BY DrawShape DEF DrawSeq, vessel
<1>2. s.q \in Streams /\ Table(q)' = Table(q)
  BY <1>1 DEF StreamOf, Streams, Table
<1>3. CASE s.q # q
  <2>1. \A y \in {x} : y.op = "commit" => y.q # q
    BY <1>3
  <2>2. NothingDrawn(q)
    BY <1>1, <2>1, NoneDrawn
  <2>3. nextSeq'[q] = nextSeq[q] /\ nextSeq' = [y \in Streams |-> nextSeq'[y]]
    BY <1>1, <1>2, <1>3 DEF StreamInv
  <2> QED
    BY <1>1, <1>2, <2>2, <2>3 DEF StreamInv, NothingDrawn
<1>4. CASE s.q = q
  <2>1. /\ nextSeq'[q] = nextSeq[q] + 1 /\ nextSeq' = [y \in Streams |-> nextSeq'[y]]
        /\ nextSeq[q] \in Nat /\ cursors[q] \in Nat
    BY <1>1, <1>4 DEF StreamInv
  <2>2. /\ x.seq \in Nat /\ x.seq < nextSeq'[q] /\ cursors[q] < x.seq
        /\ \A row \in Table(q) : row.seq < x.seq
    BY <1>4, <2>1 DEF StreamInv
  <2> HIDE DEF x
  <2>3. ASSUME NEW y \in Procs, NEW t \in Elems(todo'[y]), t.op = "commit", t.q = q
        PROVE  t = x \/ t \in Elems(todo[y])
    BY <1>1, <2>3 DEF Replaced
  <2>4. ASSUME NEW y \in Procs, NEW t \in Elems(todo[y]), t.op = "commit", t.q = q
        PROVE  /\ t.seq \in Nat /\ t.seq < nextSeq'[q] /\ cursors[q] < t.seq
               /\ \A row \in Table(q) : row.seq < t.seq
    BY <2>1, <2>4 DEF StreamInv
  <2>5. \A row \in Table(q) : row.seq \in Nat /\ row.seq < nextSeq'[q]
    BY <2>1 DEF StreamInv
  <2>6. cursors[q] < nextSeq'[q]
    BY <2>1 DEF StreamInv
  <2>7. \A y \in Procs : \A t \in Elems(todo'[y]) :
          t.op = "commit" /\ t.q = q =>
            /\ t.seq \in Nat /\ t.seq < nextSeq'[q] /\ cursors[q] < t.seq
            /\ \A row \in Table(q) : row.seq < t.seq
    BY <2>2, <2>3, <2>4
  <2> QED
    BY <1>1, <1>2, <2>1, <2>5, <2>6, <2>7 DEF StreamInv
<1> QED
  BY <1>3, <1>4

\* A row is committed: no other number of its stream waits for its commit.
LEMMA CommitStream ==
  ASSUME IInv, ShapeInv, NEW q \in Streams, OneInserter(q), StreamInv(q),
         NEW p \in Procs, CommitInsert(p), UNCHANGED vessel
  PROVE  StreamInv(q)'
<1> DEFINE s == Head(todo[p])
<1>1. /\ todo[p] # <<>> /\ s.op = "commit" /\ Replaced(p, {})
      /\ UNCHANGED <<nextSeq, cursors, pulled>>
  BY CommitShape DEF CommitInsert, vessel
<1>2. NothingDrawn(q)
  BY <1>1, NoneDrawn
<1>3. CASE s.q # q
  <2>1. Table(q)' = Table(q)
    BY <1>1, <1>3, CommitShape DEF CommitInsert, Table, Streams, StreamOf
  <2> QED
    BY <1>1, <1>2, <2>1, StreamKept
<1>4. CASE s.q = q
  <2>1. PICK new : new.seq = s.seq /\ Table(q)' = Table(q) \cup {new}
    BY <1>1, <1>4 DEF CommitInsert, Table, Streams
  <2>2. s \in Elems(todo[p])
    BY <1>1, HeadShape
  <2>3. /\ s.seq \in Nat /\ s.seq < nextSeq[q] /\ cursors[q] < s.seq
        /\ \A row \in Table(q) : row.seq < s.seq
    BY <1>1, <1>4, <2>2 DEF StreamInv
  <2>4. ASSUME NEW x \in Procs, NEW t \in Elems(todo'[x]), t.op = "commit", t.q = q
        PROVE  FALSE
    <3>1. t \in Elems(todo[x])
      BY <1>2, <2>4 DEF NothingDrawn
    <3>2. todo[x] # <<>> /\ t = Head(todo[x])
      BY <2>4, <3>1, DrawnFirst DEF IInv, ListsOK, ListOK, ShapeInv, ListShape
    <3>3. x = p
      BY <1>1, <1>4, <2>4, <3>2 DEF OneInserter, Stmts
    <3>4. Then(p, <<>>)
      BY DEF CommitInsert
    <3>5. Elems(todo'[p]) = Elems(Tail(todo[p]))
      <4>1. Sequential(todo[p]) /\ todo = [y \in Procs |-> todo[y]]
        BY DEF IInv, ListsOK, ListOK
      <4>2. todo'[p] = <<>> \o Tail(todo[p])
        BY <3>4, <4>1 DEF Then
      <4>3. Sequential(Tail(todo[p])) /\ Sequential(<<>>) /\ Elems(<<>>) = {}
        BY <1>1, <4>1, Rest, Short
      <4>4. Elems(<<>> \o Tail(todo[p])) = Elems(<<>>) \cup Elems(Tail(todo[p]))
        BY <4>3, ElemsJoined
      <4> QED
        BY <4>2, <4>3, <4>4
    <3> QED
      BY <1>1, <2>4, <3>3, <3>5, DrawnFirst DEF IInv, ListsOK, ListOK, ShapeInv, ListShape
  <2>5. \A row \in Table(q)' : row.seq \in Nat /\ row.seq < nextSeq[q]
    BY <2>1, <2>3 DEF StreamInv
  <2>6. \A row \in Table(q)' : row.seq <= cursors[q] => row.seq \in pulled[q]
    <3>1. ~(s.seq <= cursors[q])
      BY <2>3 DEF StreamInv
    <3> QED
      BY <2>1, <3>1 DEF StreamInv
  <2> QED
    BY <1>1, <2>4, <2>5, <2>6 DEF StreamInv
<1> QED
  BY <1>3, <1>4

\* The vessel is sent the rows beyond its cursor.
LEMMA PullStream ==
  ASSUME NEW q \in Streams, StreamInv(q), PullInbox PROVE StreamInv(q)'
<1> DEFINE B == Beyond(q) \cup {cursors[q]}
<1>1. /\ pulled' = [x \in Streams |-> pulled[x] \cup Beyond(x)]
      /\ cursors' = [x \in Streams |-> Max(Beyond(x) \cup {cursors[x]})]
      /\ UNCHANGED <<nextSeq, notices, remarks, todo>>
  BY DEF PullInbox, tables
<1>2. cursors'[q] = Max(B) /\ pulled'[q] = pulled[q] \cup Beyond(q) /\ Table(q)' = Table(q)
  BY <1>1 DEF Table
<1>3. Beyond(q) \in SUBSET Nat /\ \A x \in Beyond(q) : x < nextSeq[q]
  BY DEF Beyond, StreamInv
<1>4. cursors[q] \in Nat /\ cursors[q] < nextSeq[q] /\ nextSeq[q] \in Nat
  BY DEF StreamInv
<1>5. B \in SUBSET Nat /\ B # {} /\ \A x \in B : x <= nextSeq[q]
  BY <1>3, <1>4
<1>6. Max(B) \in B /\ \A x \in B : x <= Max(B)
  BY <1>4, <1>5, GreatestNumber
<1>7. Max(B) \in Nat /\ Max(B) < nextSeq[q] /\ cursors[q] <= Max(B)
  BY <1>3, <1>4, <1>6
<1> HIDE DEF B
<1>8. ASSUME NEW row \in Table(q), row.seq <= Max(B) PROVE row.seq \in pulled'[q]
  BY <1>2, <1>4, <1>8 DEF StreamInv, Beyond
<1>9. ASSUME NEW x \in Procs, NEW s \in Elems(todo[x]), s.op = "commit", s.q = q
      PROVE  Max(B) < s.seq
  <2>1. cursors[q] < s.seq /\ \A row \in Table(q) : row.seq < s.seq
    BY <1>9 DEF StreamInv
  <2>2. \A y \in Beyond(q) : y < s.seq
    BY <2>1 DEF Beyond
  <2> QED
    BY <1>6, <2>1, <2>2 DEF B
<1>10. pulled' = [x \in Streams |-> pulled'[x]] /\ cursors' = [x \in Streams |-> cursors'[x]]
  BY <1>1
<1> QED
  BY <1>1, <1>2, <1>7, <1>8, <1>9, <1>10 DEF StreamInv

\* One step, while one process at a time inserts into q.
LEMMA StreamStep ==
  ASSUME NEW q \in Streams
  PROVE  IInv /\ ShapeInv /\ StreamInv(q) /\ OneInserter(q) /\ [Next]_vars
           => ShapeInv' /\ StreamInv(q)'
<1> SUFFICES ASSUME IInv, ShapeInv, StreamInv(q), OneInserter(q), [Next]_vars
             PROVE  ShapeInv' /\ StreamInv(q)'
  OBVIOUS
<1>1. ASSUME NEW p \in Procs, Execute(p) PROVE ShapeInv' /\ StreamInv(q)'
  <2>0. UNCHANGED vessel
    BY <1>1 DEF Execute
  <2>1. CASE ApplyOutboxItem(p)
    <3>1. PICK S : Quiet(S) /\ Replaced(p, S)
      BY <2>1, ApplyShape
    <3>2. NothingDrawn(q)
      BY <3>1, NoneDrawn DEF Quiet
    <3>3. UNCHANGED <<nextSeq, cursors, pulled, Table(q)>>
      BY <2>0, <2>1 DEF ApplyOutboxItem, tables, vessel, Table
    <3> QED
      BY <2>1, <3>2, <3>3, ApplyShape, StreamKept
  <2>2. CASE UpsertReportVersion(p)
    <3>1. ShapeInv' /\ Replaced(p, {[op |-> "cascade"]})
      BY <2>2, UpsertShape
    <3>2. NothingDrawn(q)
      BY <3>1, NoneDrawn
    <3>3. UNCHANGED <<nextSeq, cursors, pulled, Table(q)>>
      BY <2>0, <2>2 DEF UpsertReportVersion, vessel, Table
    <3> QED
      BY <3>1, <3>2, <3>3, StreamKept
  <2>3. CASE \/ LandAuditEvent(p) \/ RecordOutboxReceipt(p) \/ InsertChatMessage(p)
             \/ UpdateReportVersionState(p) \/ AppendReportAuditEvent(p)
    <3>1. PICK S : Quiet(S) /\ Replaced(p, S)
      BY <2>3, QuietShape
    <3>2. NothingDrawn(q)
      BY <3>1, NoneDrawn DEF Quiet
    <3>3. UNCHANGED <<nextSeq, cursors, pulled, Table(q)>>
      BY <2>0, <2>3 DEF LandAuditEvent, RecordOutboxReceipt, InsertChatMessage,
           UpdateReportVersionState, AppendReportAuditEvent, tables, vessel, Table
    <3> QED
      BY <2>3, <3>2, <3>3, QuietShape, StreamKept
  <2>4. CASE RunCascade(p)
    <3> DEFINE F == {[op |-> "flag", c |-> [k |-> k, state |-> versions[k].state,
                                            rules |-> Broken(k)]] :
                       k \in {m \in Chain : Broken(m) # {}}}
    <3>1. ShapeInv' /\ Replaced(p, F)
      BY <2>4, CascadeShape
    <3>2. \A x \in F : x.op = "flag"
      OBVIOUS
    <3> HIDE DEF F
    <3>3. NothingDrawn(q)
      BY <3>1, <3>2, NoneDrawn
    <3>4. UNCHANGED <<nextSeq, cursors, pulled, Table(q)>>
      BY <2>0, <2>4 DEF RunCascade, tables, vessel, Table
    <3> QED
      BY <3>1, <3>3, <3>4, StreamKept
  <2>5. CASE FlagVersion(p)
    <3>1. PICK S : Replaced(p, S) /\ \A x \in S : x.op # "commit"
      <4>1. CASE Replaced(p, {})
        BY <4>1
      <4>2. ASSUME NEW x, NEW y, NEW z, x.op = "setState", y.op = "event",
                   z.op = "insert", Replaced(p, {x, y, z})
            PROVE  \E S : Replaced(p, S) /\ \A w \in S : w.op # "commit"
        BY <4>2
      <4> QED
        BY <2>5, <4>1, <4>2, FlagShape
    <3>2. NothingDrawn(q)
      BY <3>1, NoneDrawn
    <3>3. UNCHANGED <<nextSeq, cursors, pulled, Table(q)>>
      BY <2>0, <2>5 DEF FlagVersion, tables, vessel, Table
    <3> QED
      BY <2>5, <3>2, <3>3, FlagShape, StreamKept
  <2>6. CASE DrawSeq(p)
    BY <2>0, <2>6, DrawShape, DrawStream
  <2>7. CASE CommitInsert(p)
    BY <2>0, <2>7, CommitShape, CommitStream
  <2> QED
    BY <1>1, <2>1, <2>2, <2>3, <2>4, <2>5, <2>6, <2>7 DEF Execute
<1>2. ASSUME NEW p \in Calls, NEW n \in {i.no : i \in Items},
             NEW st \in [UpTo(n) -> PushStates], PushOutbox(p, UpTo(n), st)
      PROVE  ShapeInv' /\ StreamInv(q)'
  <2>1. UpTo(n) \in SUBSET Items
    BY DEF UpTo
  <2>2. /\ ShapeInv' /\ Quiet(Elems(todo'[p])) /\ \A x \in Procs \ {p} : todo'[x] = todo[x]
    BY <1>2, <2>1, PushShape
  <2>3. NothingDrawn(q)
    BY <2>2 DEF NothingDrawn, Quiet
  <2>4. UNCHANGED <<nextSeq, cursors, pulled, Table(q)>>
    BY <1>2 DEF PushOutbox, tables, vessel, Table
  <2> QED
    BY <2>2, <2>3, <2>4, StreamKept
<1>3. ASSUME NEW p \in Reviewers, NEW r \in {i.r : i \in Items},
             NEW fs \in SUBSET Fields \ {{}}, CreateRemarkSet(p, r, fs)
      PROVE  ShapeInv' /\ StreamInv(q)'
  <2>1. /\ ShapeInv' /\ \A s \in Elems(todo'[p]) : s.op # "commit"
        /\ \A x \in Procs \ {p} : todo'[x] = todo[x]
    BY <1>3, RemarkShape
  <2>2. NothingDrawn(q)
    BY <2>1 DEF NothingDrawn
  <2>3. UNCHANGED <<nextSeq, cursors, pulled, Table(q)>>
    BY <1>3 DEF CreateRemarkSet, tables, vessel, Table
  <2> QED
    BY <2>1, <2>2, <2>3, StreamKept
<1>4. ASSUME NEW p \in Procs, StatementFails(p) \/ CallCut(p)
      PROVE  ShapeInv' /\ StreamInv(q)'
  <2>1. /\ ShapeInv'
        /\ \A s \in Elems(todo'[p]) : s \in Elems(todo[p]) \/ s.op = "reply"
        /\ \A x \in Procs \ {p} : todo'[x] = todo[x]
    BY <1>4, FailureShape
  <2>2. NothingDrawn(q)
    BY <2>1 DEF NothingDrawn
  <2>3. UNCHANGED <<nextSeq, cursors, pulled, Table(q)>>
    BY <1>4 DEF StatementFails, CallCut, tables, vessel, Table
  <2> QED
    BY <2>1, <2>2, <2>3, StreamKept
<1>5. ASSUME NEW p \in Calls, Reply(p) PROVE ShapeInv' /\ StreamInv(q)'
  <2>0. p \in Procs
    BY DEF Procs
  <2>1. PICK S : Quiet(S) /\ Replaced(p, S)
    BY <1>5, <2>0, QuietShape
  <2>2. NothingDrawn(q)
    BY <2>0, <2>1, NoneDrawn DEF Quiet
  <2>3. UNCHANGED <<nextSeq, cursors, pulled, Table(q)>>
    BY <1>5 DEF Reply, tables, Table
  <2> QED
    BY <1>5, <2>0, <2>2, <2>3, QuietShape, StreamKept
<1>6. CASE PullInbox
  <2>1. todo' = todo
    BY <1>6 DEF PullInbox
  <2>2. ShapeInv'
    BY <2>1 DEF ShapeInv
  <2> QED
    BY <1>6, <2>2, PullStream
<1>7. CASE UNCHANGED vars
  <2>1. todo' = todo /\ UNCHANGED <<nextSeq, cursors, pulled, Table(q)>>
    BY <1>7 DEF vars, tables, vessel, Table
  <2>2. ShapeInv' /\ NothingDrawn(q)
    BY <2>1 DEF ShapeInv, NothingDrawn
  <2> QED
    BY <2>1, <2>2, StreamKept
<1> QED
  BY <1>1, <1>2, <1>3, <1>4, <1>5, <1>6, <1>7 DEF Next

\* Nobody executes anything, and no number is drawn.
LEMMA StreamInit == ASSUME NEW q \in Streams PROVE Init => ShapeInv /\ StreamInv(q)
<1> SUFFICES ASSUME Init PROVE ShapeInv /\ StreamInv(q)
  OBVIOUS
<1>1. \A p \in Procs : todo[p] = <<>>
  BY DEF Init
<1>2. Elems(<<>>) = {} /\ OrderOK(<<>>)
  BY Short, ShortOrder
<1>3. ShapeInv
  BY <1>1, <1>2 DEF ShapeInv, ListShape
<1>4. Table(q) = {} /\ nextSeq[q] = 1 /\ cursors[q] = 0
  BY DEF Init, Table
<1>5. StreamInv(q)
  BY <1>1, <1>2, <1>4 DEF Init, StreamInv
<1> QED
  BY <1>3, <1>5

\* What a process inserts into tells calls from requests.
LEMMA SerialInserters ==
  /\ IInv /\ ShapeInv /\ Serial(Calls) => OneInserter("notice")
  /\ IInv /\ ShapeInv /\ Serial(Reviewers) => OneInserter("remark")
<1>1. ASSUME IInv, ShapeInv, NEW p \in Procs, Stmts(p, "commit")
      PROVE  Head(todo[p]).q = StreamOf(p) /\ todo[p] # <<>>
  BY <1>1, HeadShape DEF Stmts, StmtOK
<1>2. ASSUME IInv, ShapeInv, Serial(Calls) PROVE OneInserter("notice")
  BY <1>1, <1>2 DEF OneInserter, Serial, StreamOf
<1>3. ASSUME IInv, ShapeInv, Serial(Reviewers) PROVE OneInserter("remark")
  BY <1>1, <1>3 DEF OneInserter, Serial, StreamOf, Procs
<1> QED
  BY <1>2, <1>3

\* While one call pushes at a time, the notices are pulled in the order of
\* their numbers, and so are the remarks while one request sets remarks.
LEMMA StreamsInOrder ==
  /\ Spec /\ []Serial(Calls) => [](ShapeInv /\ StreamInv("notice"))
  /\ Spec /\ []Serial(Reviewers) => [](ShapeInv /\ StreamInv("remark"))
<1>0. "notice" \in Streams /\ "remark" \in Streams
  BY DEF Streams
<1>1. /\ Init => ShapeInv /\ StreamInv("notice")
      /\ Init => ShapeInv /\ StreamInv("remark")
  BY <1>0, StreamInit
<1>2. /\ IInv /\ Serial(Calls) /\ ShapeInv /\ StreamInv("notice") /\ [Next]_vars
           => (ShapeInv /\ StreamInv("notice"))'
      /\ IInv /\ Serial(Reviewers) /\ ShapeInv /\ StreamInv("remark") /\ [Next]_vars
           => (ShapeInv /\ StreamInv("remark"))'
  BY <1>0, StreamStep, SerialInserters
<1> QED
  BY <1>1, <1>2, Inductive, PTL DEF Spec

\* PullInbox: what lies behind the vessel's cursor has been sent to it,
\* whatever fails, as long as the vessel pushes one batch at a time and one
\* reviewer at a time sets remarks on its reports.
THEOREM PullsMissNothing ==
  Spec /\ []Serial(Calls) /\ []Serial(Reviewers) => []PullMissesNothing
<1>1. StreamInv("notice") /\ StreamInv("remark") => PullMissesNothing
  BY DEF StreamInv, PullMissesNothing, Streams
<1> QED
  BY <1>1, StreamsInOrder, PTL

-----------------------------------------------------------------------------
(* The notices. *)

\* A step that changes no version but its state.
LEMMA SameChain ==
  ASSUME RowsInv, Keys' = Keys,
         \A k \in Keys : versions'[k].data = versions[k].data /\ InChain(versions'[k].state)
  PROVE  Chain' = Chain /\ \A k : Broken(k)' = Broken(k)
<1> DEFINE latest(S, r) == CHOOSE m \in S : m[1] = r
           R == {m[1] : m \in Chain}
<1>1. Chain' = Chain
  <2>1. \A k \in Keys : InChain(versions[k].state)
    BY DEF RowsInv
  <2>2. Chain = {k \in Keys : \A m \in Keys : m[1] = k[1] => m[2] <= k[2]}
    BY <2>1 DEF Chain
  <2>3. Chain' = {k \in Keys' : \A m \in Keys' : m[1] = k[1] => m[2] <= k[2]}
    BY DEF Chain
  <2> QED
    BY <2>2, <2>3
<1>2. \A r \in R : latest(Chain, r) \in Chain
  OBVIOUS
<1>3. \A r : latest(Chain', r) = latest(Chain, r)
  BY <1>1
<1> HIDE DEF latest
<1>4. \A r \in R : versions'[latest(Chain', r)].data = versions[latest(Chain, r)].data
  <2>1. Chain \subseteq Keys
    BY DEF Chain
  <2> QED
    BY <1>2, <1>3, <2>1
<1>5. [r \in {m[1] : m \in Chain'} |-> versions'[latest(Chain', r)].data]
        = [r \in R |-> versions[latest(Chain, r)].data]
  BY <1>1, <1>4
<1>6. ASSUME NEW k PROVE Broken(k)' = Broken(k)
  <2>1. Broken(k) = BrokenRules([r \in R |-> versions[latest(Chain, r)].data], k[1])
    BY DEF Broken, latest
  <2>2. Broken(k)' = BrokenRules([r \in {m[1] : m \in Chain'} |->
                                    versions'[latest(Chain', r)].data], k[1])
    BY DEF Broken, latest
  <2> QED
    BY <1>5, <2>1, <2>2
<1> QED
  BY <1>1, <1>6

\* A call drops nothing of a cascade, and adds nothing to one.
LEMMA NoticeKept ==
  ASSUME NoticeInv, failures' = failures, notices' = notices, Keys' = Keys,
         Chain' = Chain, \A k : Broken(k)' = Broken(k),
         \A x \in Calls :
           /\ \A s \in Elems(todo'[x]) :
                s.op \in {"flag", "insert", "commit"} => s \in Elems(todo[x])
           /\ \A s \in Elems(todo[x]) :
                s.op \in {"cascade", "flag", "insert", "commit"} => s \in Elems(todo'[x])
  PROVE  NoticeInv'
<1>1. failures' \in Nat
  BY DEF NoticeInv
<1>2. ASSUME failures = 0 PROVE FlagsOK'
  <2>1. FlagsOK
    BY <1>2 DEF NoticeInv
  <2>2. ASSUME NEW x \in Calls, NEW s \in Elems(todo'[x])
        PROVE  /\ s.op = "flag" => s.c.k \in Keys' /\ s.c.rules = Broken(s.c.k)'
               /\ s.op \in {"insert", "commit"} =>
                    s.row.rules = Broken(<<s.row.r, s.row.v>>)'
    <3>1. CASE s.op = "flag"
      BY <2>1, <2>2, <3>1 DEF FlagsOK
    <3>2. CASE s.op \in {"insert", "commit"}
      BY <2>1, <2>2, <3>2 DEF FlagsOK
    <3> QED
      BY <3>1, <3>2
  <2> QED
    BY <2>2 DEF FlagsOK
<1>3. ASSUME failures = 0, NEW k \in Chain', Broken(k)' # {}
      PROVE  \/ LatestRules(k)' = Broken(k)'
             \/ \E p \in Calls : \E s \in Elems(todo'[p]) : Due(s, k)
  <2>1. LatestRules(k)' = LatestRules(k)
    BY DEF LatestRules
  <2>2. k \in Chain /\ Broken(k) # {} /\ Broken(k)' = Broken(k)
    BY <1>3
  <2>3. CASE LatestRules(k) = Broken(k)
    BY <2>1, <2>2, <2>3
  <2>4. ASSUME NEW p \in Calls, NEW s \in Elems(todo[p]), Due(s, k)
        PROVE  s \in Elems(todo'[p])
    BY <2>4 DEF Due
  <2> QED
    BY <1>3, <2>2, <2>3, <2>4 DEF NoticeInv
<1> QED
  BY <1>1, <1>2, <1>3 DEF NoticeInv

\* The first statement of a list is no part of a cascade, nor are those that
\* take its place.
LEMMA QuietKeeps ==
  ASSUME NEW p \in Procs, NEW S, Replaced(p, S), Quiet(S), Quiet({Head(todo[p])})
  PROVE  \A x \in Procs :
           /\ \A s \in Elems(todo'[x]) :
                s.op \in {"flag", "insert", "commit"} => s \in Elems(todo[x])
           /\ \A s \in Elems(todo[x]) :
                s.op \in {"cascade", "flag", "insert", "commit"} => s \in Elems(todo'[x])
<1>1. PICK T : Elems(todo[p]) = {Head(todo[p])} \cup T /\ Elems(todo'[p]) = S \cup T
  BY DEF Replaced
<1>2. \A x \in Procs \ {p} : todo'[x] = todo[x]
  BY DEF Replaced
<1> QED
  BY <1>1, <1>2 DEF Quiet

\* A version lands: what its call finds is due, and no other call is under way.
LEMMA UpsertNotices ==
  ASSUME IInv, ShapeInv, NoticeInv, Serial(Calls), NEW p \in Procs,
         UpsertReportVersion(p), failures' = failures
  PROVE  NoticeInv'
<1> DEFINE c == [op |-> "cascade"]
<1>1. /\ Head(todo[p]).op = "land" /\ p \in Calls /\ Replaced(p, {c}) /\ todo[p] # <<>>
  BY UpsertShape DEF UpsertReportVersion, Stmts
<1>2. c.op = "cascade"
  OBVIOUS
<1> HIDE DEF c
<1>3. PICK T : Elems(todo[p]) = {Head(todo[p])} \cup T /\ Elems(todo'[p]) = {c} \cup T
  BY <1>1 DEF Replaced
<1>4. \A s \in Elems(todo[p]) : s.op \notin {"flag", "insert", "commit"}
  BY <1>1, ItemFirst DEF IInv, ListsOK, ListOK, ShapeInv, ListShape
<1>5. \A s \in Elems(todo'[p]) : s.op \notin {"flag", "insert", "commit"}
  BY <1>2, <1>3, <1>4
<1>6. ASSUME NEW x \in Calls, x # p PROVE Elems(todo'[x]) = {}
  <2>1. todo[x] = <<>> /\ todo'[x] = todo[x]
    BY <1>1, <1>6 DEF Serial, Replaced, Procs
  <2> QED
    BY <2>1, Short
<1>7. FlagsOK'
  <2>1. ASSUME NEW x \in Calls, NEW s \in Elems(todo'[x])
        PROVE  s.op \notin {"flag", "insert", "commit"}
    BY <1>5, <1>6, <2>1
  <2> QED
    BY <2>1 DEF FlagsOK
<1>8. \A k : Due(c, k)
  BY <1>2 DEF Due
<1>9. c \in Elems(todo'[p])
  BY <1>3
<1> QED
  BY <1>1, <1>7, <1>8, <1>9 DEF NoticeInv

\* A step of a call that leaves the versions, the notices and what is due
\* about other versions: what it adds is right, and what it drops is not due.
LEMMA CallNotices ==
  ASSUME NoticeInv, UNCHANGED <<versions, notices, failures>>,
         NEW p \in Procs, p \in Calls, NEW S, Replaced(p, S),
         failures = 0 => \A s \in S :
           /\ s.op = "flag" => s.c.k \in Keys /\ s.c.rules = Broken(s.c.k)
           /\ s.op \in {"insert", "commit"} =>
                s.row.rules = Broken(<<s.row.r, s.row.v>>),
         failures = 0 => \A k \in Chain : Broken(k) # {} /\ Due(Head(todo[p]), k) =>
           LatestRules(k) = Broken(k) \/ \E s \in S : Due(s, k)
  PROVE  NoticeInv'
<1>1. PICK T : Elems(todo[p]) = {Head(todo[p])} \cup T /\ Elems(todo'[p]) = S \cup T
  BY DEF Replaced
<1>2. \A x \in Calls \ {p} : todo'[x] = todo[x]
  BY DEF Replaced, Procs
<1>3. Keys' = Keys /\ Chain' = Chain
  BY DEF Keys, Chain
<1>4. \A k : Broken(k)' = Broken(k)
  BY <1>3 DEF Broken
<1>5. \A k : LatestRules(k)' = LatestRules(k)
  BY DEF LatestRules
<1>6. ASSUME failures = 0 PROVE FlagsOK'
  <2>1. FlagsOK
    BY <1>6 DEF NoticeInv
  <2>2. ASSUME NEW x \in Calls, NEW s \in Elems(todo'[x])
        PROVE  /\ s.op = "flag" => s.c.k \in Keys /\ s.c.rules = Broken(s.c.k)
               /\ s.op \in {"insert", "commit"} =>
                    s.row.rules = Broken(<<s.row.r, s.row.v>>)
    <3>1. CASE s \in Elems(todo[x])
      BY <2>1, <3>1 DEF FlagsOK
    <3>2. CASE s \notin Elems(todo[x])
      <4>1. s \in S
        BY <1>1, <1>2, <2>2, <3>2
      <4> QED
        BY <1>6, <4>1
    <3> QED
      BY <3>1, <3>2
  <2>3. ASSUME NEW x \in Calls, NEW s \in Elems(todo'[x])
        PROVE  /\ s.op = "flag" => s.c.k \in Keys' /\ s.c.rules = Broken(s.c.k)'
               /\ s.op \in {"insert", "commit"} =>
                    s.row.rules = Broken(<<s.row.r, s.row.v>>)'
    <3>1. CASE s.op = "flag"
      BY <1>3, <1>4, <2>2, <2>3, <3>1
    <3>2. CASE s.op \in {"insert", "commit"}
      BY <1>4, <2>2, <2>3, <3>2
    <3> QED
      BY <3>1, <3>2
  <2> QED
    BY <2>3 DEF FlagsOK
<1>7. ASSUME failures = 0, NEW k \in Chain, Broken(k) # {}
      PROVE  \/ LatestRules(k) = Broken(k)
             \/ \E x \in Calls : \E s \in Elems(todo'[x]) : Due(s, k)
  <2>1. CASE LatestRules(k) = Broken(k)
    BY <2>1
  <2>2. ASSUME NEW x \in Calls, NEW s \in Elems(todo[x]), Due(s, k)
        PROVE  \/ LatestRules(k) = Broken(k)
               \/ \E y \in Calls : \E t \in Elems(todo'[y]) : Due(t, k)
    <3>1. CASE s \in Elems(todo'[x])
      BY <2>2, <3>1
    <3>2. CASE s \notin Elems(todo'[x])
      <4>1. x = p /\ s = Head(todo[p])
        BY <1>1, <1>2, <2>2, <3>2
      <4>2. LatestRules(k) = Broken(k) \/ \E t \in S : Due(t, k)
        BY <1>7, <2>2, <4>1
      <4> QED
        BY <1>1, <4>2
    <3> QED
      BY <3>1, <3>2
  <2> QED
    BY <1>7, <2>1, <2>2 DEF NoticeInv
<1>8. failures = 0 => \A k \in Chain' : Broken(k)' # {} =>
        \/ LatestRules(k)' = Broken(k)'
        \/ \E x \in Calls : \E s \in Elems(todo'[x]) : Due(s, k)
  BY <1>3, <1>4, <1>5, <1>7
<1> QED
  BY <1>6, <1>8 DEF NoticeInv

\* A cascade evaluates the chain: what it found due is due version by version.
LEMMA CascadeNotices ==
  ASSUME IInv, ShapeInv, NoticeInv, NEW p \in Procs, RunCascade(p), failures' = failures
  PROVE  NoticeInv'
<1> DEFINE flag(k) == [op |-> "flag", c |-> [k |-> k, state |-> versions[k].state,
                                             rules |-> Broken(k)]]
           F == {flag(k) : k \in {m \in Chain : Broken(m) # {}}}
<1>1. p \in Calls /\ Replaced(p, F) /\ UNCHANGED <<versions, notices, failures>>
  BY CascadeShape DEF RunCascade, tables
<1>2. \A s \in F : /\ s.op = "flag" /\ s.c.k \in Keys /\ s.c.rules = Broken(s.c.k)
  BY DEF Chain
<1>3. \A k \in Chain : Broken(k) # {} => \E s \in F : s.op = "flag" /\ s.c.k = k
  <2>1. ASSUME NEW k \in Chain, Broken(k) # {}
        PROVE  flag(k) \in F /\ flag(k).op = "flag" /\ flag(k).c.k = k
    BY <2>1
  <2> QED
    BY <2>1
<1> HIDE DEF F
<1>4. \A k \in Chain : Broken(k) # {} => \E s \in F : Due(s, k)
  BY <1>3 DEF Due
<1>5. \A s \in F : s.op \notin {"insert", "commit"}
  BY <1>2
<1> QED
  BY <1>1, <1>2, <1>4, <1>5, CallNotices

\* A version is looked at: its latest notice is right or a right one is due.
LEMMA FlagNotices ==
  ASSUME IInv, ShapeInv, RowsInv, NoticeInv, NEW p \in Procs, FlagVersion(p),
         failures' = failures
  PROVE  NoticeInv'
<1> DEFINE h == Head(todo[p])
           c == h.c
<1>1. /\ h.op = "flag" /\ p \in Calls /\ h \in Elems(todo[p])
      /\ UNCHANGED <<versions, notices, failures>>
  BY FlagShape, HeadShape DEF FlagVersion, tables, Stmts
<1>2. failures = 0 => c.k \in Keys /\ c.k = <<c.k[1], c.k[2]>> /\ c.rules = Broken(c.k)
  BY <1>1 DEF NoticeInv, FlagsOK, RowsInv
<1>3. \A k : Due(h, k) => k = c.k
  BY <1>1 DEF Due
<1>4. CASE LatestRules(c.k) = c.rules /\ Replaced(p, {})
  <2>1. failures = 0 => \A k \in Chain : Broken(k) # {} /\ Due(h, k) =>
          LatestRules(k) = Broken(k)
    BY <1>2, <1>3, <1>4
  <2> QED
    BY <1>1, <1>4, <2>1, CallNotices
<1>5. ASSUME NEW x, NEW y, NEW z, x.op = "setState", y.op = "event", z.op = "insert",
             z.row = [r |-> c.k[1], v |-> c.k[2], rules |-> c.rules],
             Replaced(p, {x, y, z})
      PROVE  NoticeInv'
  <2>1. z.row.r = c.k[1] /\ z.row.v = c.k[2] /\ z.row.rules = c.rules
    BY <1>5
  <2>2. failures = 0 => z.row.rules = Broken(<<z.row.r, z.row.v>>)
    <3>1. failures = 0 => <<z.row.r, z.row.v>> = c.k
      BY <1>2, <2>1
    <3> QED
      BY <1>2, <2>1, <3>1
  <2>3. failures = 0 => \A k \in Chain : Broken(k) # {} /\ Due(h, k) => Due(z, k)
    BY <1>3, <1>5, <2>1 DEF Due
  <2>4. failures = 0 => \A s \in {x, y, z} :
          /\ s.op = "flag" => s.c.k \in Keys /\ s.c.rules = Broken(s.c.k)
          /\ s.op \in {"insert", "commit"} => s.row.rules = Broken(<<s.row.r, s.row.v>>)
    BY <1>5, <2>2
  <2> QED
    BY <1>1, <1>5, <2>3, <2>4, CallNotices
<1> QED
  BY <1>4, <1>5, FlagShape

\* A number is drawn for a notice: the notice is still due.
LEMMA DrawNotices ==
  ASSUME IInv, ShapeInv, NoticeInv, NEW p \in Procs, p \in Calls, DrawSeq(p),
         failures' = failures
  PROVE  NoticeInv'
<1> DEFINE h == Head(todo[p])
           x == [op |-> "commit", q |-> h.q, seq |-> nextSeq[h.q], row |-> h.row]
<1>1. /\ h.op = "insert" /\ h \in Elems(todo[p]) /\ Replaced(p, {x})
      /\ UNCHANGED <<versions, notices, failures>>
  BY DrawShape, HeadShape DEF DrawSeq, Stmts
<1>2. x.op = "commit" /\ x.row = h.row
  OBVIOUS
<1> HIDE DEF x
<1>3. failures = 0 => h.row.rules = Broken(<<h.row.r, h.row.v>>)
  BY <1>1 DEF NoticeInv, FlagsOK
<1>4. \A k : Due(h, k) => Due(x, k)
  BY <1>1, <1>2 DEF Due
<1>5. failures = 0 => \A s \in {x} :
        /\ s.op = "flag" => s.c.k \in Keys /\ s.c.rules = Broken(s.c.k)
        /\ s.op \in {"insert", "commit"} => s.row.rules = Broken(<<s.row.r, s.row.v>>)
  BY <1>2, <1>3
<1> QED
  BY <1>1, <1>4, <1>5, CallNotices

\* A notice is committed: it is the latest of its version, and right.
LEMMA CommitNotices ==
  ASSUME IInv, ShapeInv, RowsInv, StreamInv("notice"), NoticeInv,
         NEW p \in Procs, p \in Calls, CommitInsert(p), failures' = failures
  PROVE  NoticeInv'
<1> DEFINE h == Head(todo[p])
           new == [seq |-> h.seq, r |-> h.row.r, v |-> h.row.v, rules |-> h.row.rules]
<1>1. /\ h.op = "commit" /\ h.q = "notice" /\ h \in Elems(todo[p]) /\ Replaced(p, {})
      /\ notices' = notices \cup {new} /\ UNCHANGED <<versions, failures>>
  BY CommitShape, HeadShape DEF CommitInsert, StreamOf
<1>2. /\ h.seq \in Nat
      /\ \A row \in notices : row.seq \in Nat /\ row.seq < h.seq
  BY <1>1 DEF StreamInv, Table
<1>3. failures = 0 => h.row.rules = Broken(<<h.row.r, h.row.v>>)
  BY <1>1 DEF NoticeInv, FlagsOK
<1>4. new.seq = h.seq /\ new.r = h.row.r /\ new.v = h.row.v /\ new.rules = h.row.rules
  OBVIOUS
<1> HIDE DEF new
<1>5. Keys' = Keys /\ Chain' = Chain
  BY <1>1 DEF Keys, Chain
<1>6. \A k : Broken(k)' = Broken(k)
  BY <1>1, <1>5 DEF Broken
<1>7. PICK T : Elems(todo[p]) = {h} \cup T /\ Elems(todo'[p]) = T
  BY <1>1 DEF Replaced
<1>8. \A x \in Calls \ {p} : todo'[x] = todo[x]
  BY <1>1 DEF Replaced, Procs
<1>9. \A x \in Calls : Elems(todo'[x]) \subseteq Elems(todo[x])
  BY <1>7, <1>8
<1>10. ASSUME failures = 0 PROVE FlagsOK'
  <2>1. FlagsOK
    BY <1>10 DEF NoticeInv
  <2>2. ASSUME NEW x \in Calls, NEW s \in Elems(todo'[x])
        PROVE  /\ s.op = "flag" => s.c.k \in Keys' /\ s.c.rules = Broken(s.c.k)'
               /\ s.op \in {"insert", "commit"} =>
                    s.row.rules = Broken(<<s.row.r, s.row.v>>)'
    <3>1. s \in Elems(todo[x])
      BY <1>9, <2>2
    <3>2. CASE s.op = "flag"
      BY <1>5, <1>6, <2>1, <3>1, <3>2 DEF FlagsOK
    <3>3. CASE s.op \in {"insert", "commit"}
      BY <1>6, <2>1, <3>1, <3>3 DEF FlagsOK
    <3> QED
      BY <3>2, <3>3
  <2> QED
    BY <2>2 DEF FlagsOK
<1>11. ASSUME NEW k, k[1] = h.row.r, k[2] = h.row.v
       PROVE  LatestRules(k)' = h.row.rules
  <2> DEFINE ns == {n \in notices' : n.r = k[1] /\ n.v = k[2]}
  <2>1. new \in ns /\ \A n \in ns : n.seq \in Nat /\ (n = new \/ n.seq < new.seq)
    BY <1>1, <1>2, <1>4, <1>11
  <2>2. LatestRules(k)' = IF ns = {} THEN {}
                          ELSE (CHOOSE n \in ns : \A m \in ns : m.seq <= n.seq).rules
    BY DEF LatestRules
  <2> HIDE DEF ns
  <2>3. \A n \in ns : (\A m \in ns : m.seq <= n.seq) <=> n = new
    BY <2>1
  <2>4. (CHOOSE n \in ns : \A m \in ns : m.seq <= n.seq) = new
    BY <2>1, <2>3
  <2> QED
    BY <1>4, <2>1, <2>2, <2>4
<1>12. ASSUME NEW k, ~(k[1] = h.row.r /\ k[2] = h.row.v)
       PROVE  LatestRules(k)' = LatestRules(k)
  <2>1. {n \in notices' : n.r = k[1] /\ n.v = k[2]} = {n \in notices : n.r = k[1] /\ n.v = k[2]}
    BY <1>1, <1>4, <1>12
  <2> DEFINE latest(ns) ==
        IF ns = {} THEN {} ELSE (CHOOSE n \in ns : \A m \in ns : m.seq <= n.seq).rules
  <2>2. LatestRules(k) = latest({n \in notices : n.r = k[1] /\ n.v = k[2]})
    BY DEF LatestRules
  <2>3. LatestRules(k)' = latest({n \in notices' : n.r = k[1] /\ n.v = k[2]})
    BY DEF LatestRules
  <2> HIDE DEF latest
  <2> QED
    BY <2>1, <2>2, <2>3
<1>13. ASSUME failures = 0, NEW k \in Chain, Broken(k) # {}
       PROVE  \/ LatestRules(k)' = Broken(k)
              \/ \E x \in Calls : \E s \in Elems(todo'[x]) : Due(s, k)
  <2>1. CASE k[1] = h.row.r /\ k[2] = h.row.v
    <3>1. k = <<h.row.r, h.row.v>>
      BY <2>1 DEF RowsInv, Chain
    <3> QED
      BY <1>3, <1>11, <1>13, <2>1, <3>1
  <2>2. CASE ~(k[1] = h.row.r /\ k[2] = h.row.v)
    <3>1. CASE LatestRules(k) = Broken(k)
      BY <1>12, <2>2, <3>1
    <3>2. ASSUME NEW x \in Calls, NEW s \in Elems(todo[x]), Due(s, k)
          PROVE  \E y \in Calls : \E t \in Elems(todo'[y]) : Due(t, k)
      <4>1. ~Due(h, k)
        BY <1>1, <2>2 DEF Due
      <4>2. s \in Elems(todo'[x])
        BY <1>7, <1>8, <3>2, <4>1
      <4> QED
        BY <3>2, <4>2
    <3> QED
      BY <1>13, <3>1, <3>2 DEF NoticeInv
  <2> QED
    BY <2>1, <2>2
<1>14. failures = 0 => \A k \in Chain' : Broken(k)' # {} =>
         \/ LatestRules(k)' = Broken(k)'
         \/ \E x \in Calls : \E s \in Elems(todo'[x]) : Due(s, k)
  BY <1>5, <1>6, <1>13
<1> QED
  BY <1>1, <1>10, <1>14 DEF NoticeInv

\* A failed statement, or a call that is cut, is counted.
LEMMA FailureNotices ==
  ASSUME NoticeInv, NEW p \in Procs, StatementFails(p) \/ CallCut(p)
  PROVE  NoticeInv'
<1>1. failures \in Nat /\ failures' = failures + 1
  BY DEF NoticeInv, StatementFails, CallCut
<1>2. failures' \in Nat /\ failures' # 0
  BY <1>1
<1> QED
  BY <1>2 DEF NoticeInv

\* Every version keeps its data, or is the one that lands.
LEMMA RowsStep ==
  ASSUME IInv, ShapeInv, RowsInv, [Next]_vars
  PROVE  /\ RowsInv'
         /\ \/ \E p \in Procs : UpsertReportVersion(p)
            \/ /\ Keys' = Keys
               /\ \A k \in Keys : /\ versions'[k].data = versions[k].data
                                  /\ InChain(versions'[k].state)
<1>1. ASSUME NEW p \in Procs, UpsertReportVersion(p) PROVE RowsInv'
  <2> DEFINE s == Head(todo[p])
             k == <<s.i.r, s.i.v>>
             new == [data |-> s.i.data, state |-> s.state]
  <2>1. /\ s.op = "land" /\ todo[p] # <<>>
        /\ versions' = [m \in Keys \cup {k} |-> IF m = k THEN new ELSE versions[m]]
    BY <1>1 DEF UpsertReportVersion, Stmts
  <2>2. StmtOK(p, s)
    BY <2>1, HeadShape
  <2>3. InChain(s.state)
    BY <2>1, <2>2, ItemsAssumption DEF StmtOK
  <2>4. Keys' = Keys \cup {k} /\ versions' = [m \in Keys' |-> versions'[m]]
    BY <2>1 DEF Keys
  <2>5. k = <<k[1], k[2]>> /\ new = [data |-> new.data, state |-> new.state]
        /\ new.state = s.state
    OBVIOUS
  <2>6. versions'[k] = new /\ \A m \in Keys \ {k} : versions'[m] = versions[m]
    BY <2>1
  <2> HIDE DEF k, new
  <2>7. /\ k = <<k[1], k[2]>> /\ InChain(versions'[k].state)
        /\ versions'[k] = [data |-> versions'[k].data, state |-> versions'[k].state]
    BY <2>3, <2>5, <2>6
  <2>8. \A m \in Keys \ {k} :
          /\ m = <<m[1], m[2]>> /\ InChain(versions'[m].state)
          /\ versions'[m] = [data |-> versions'[m].data, state |-> versions'[m].state]
    BY <2>6 DEF RowsInv
  <2> QED
    BY <2>4, <2>7, <2>8 DEF RowsInv
<1>2. ASSUME NEW p \in Procs, UpdateReportVersionState(p)
      PROVE  /\ RowsInv' /\ Keys' = Keys
             /\ \A k \in Keys : /\ versions'[k].data = versions[k].data
                                /\ InChain(versions'[k].state)
  <2> DEFINE s == Head(todo[p])
  <2>1. /\ s.op = "setState" /\ todo[p] # <<>>
        /\ versions' = [versions EXCEPT ![s.k].state = s.state]
    BY <1>2 DEF UpdateReportVersionState, Stmts
  <2>2. InChain(s.state)
    BY <2>1, HeadShape DEF StmtOK
  <2>3. Keys' = Keys /\ versions' = [m \in Keys' |-> versions'[m]]
    BY <2>1 DEF Keys
  <2>4. ASSUME NEW k \in Keys
        PROVE  /\ versions'[k].data = versions[k].data /\ InChain(versions'[k].state)
               /\ versions'[k] = [data |-> versions'[k].data, state |-> versions'[k].state]
    <3>1. versions[k] = [data |-> versions[k].data, state |-> versions[k].state]
          /\ InChain(versions[k].state)
      BY DEF RowsInv
    <3>2. CASE k = s.k
      <4>1. versions'[k] = [versions[k] EXCEPT !.state = s.state]
        BY <2>1, <3>2 DEF Keys
      <4>2. versions'[k] = [data |-> versions[k].data, state |-> s.state]
        BY <3>1, <4>1
      <4> QED
        BY <2>2, <4>2
    <3>3. CASE k # s.k
      <4>1. versions'[k] = versions[k]
        BY <2>1, <3>3 DEF Keys
      <4> QED
        BY <3>1, <4>1
    <3> QED
      BY <3>2, <3>3
  <2> QED
    BY <2>3, <2>4 DEF RowsInv
<1>3. ASSUME versions' = versions
      PROVE  /\ RowsInv' /\ Keys' = Keys
             /\ \A k \in Keys : /\ versions'[k].data = versions[k].data
                                /\ InChain(versions'[k].state)
  <2>1. Keys' = Keys
    BY <1>3 DEF Keys
  <2> QED
    BY <1>3, <2>1 DEF RowsInv
<1>4. ASSUME NEW p \in Procs, Execute(p)
      PROVE  UpsertReportVersion(p) \/ UpdateReportVersionState(p) \/ versions' = versions
  BY <1>4 DEF Execute, ApplyOutboxItem, LandAuditEvent, RecordOutboxReceipt, RunCascade,
     FlagVersion, InsertChatMessage, AppendReportAuditEvent, DrawSeq, CommitInsert, tables
<1>5. \/ \E p \in Procs : Execute(p)
      \/ versions' = versions
  BY DEF Next, PushOutbox, CreateRemarkSet, StatementFails, CallCut, Reply, PullInbox,
         tables, vars
<1> QED
  BY <1>1, <1>2, <1>3, <1>4, <1>5

\* One step, while one call pushes at a time.
LEMMA NoticeStep ==
  ASSUME IInv, ShapeInv, RowsInv, StreamInv("notice"), NoticeInv, Serial(Calls), [Next]_vars
  PROVE  NoticeInv'
<1> DEFINE Keeps ==
      \A x \in Calls :
           /\ \A s \in Elems(todo'[x]) :
                s.op \in {"flag", "insert", "commit"} => s \in Elems(todo[x])
           /\ \A s \in Elems(todo[x]) :
                s.op \in {"cascade", "flag", "insert", "commit"} => s \in Elems(todo'[x])
<1> HIDE DEF Keeps
<1>0. Calls \subseteq Procs
  BY DEF Procs
<1>1. ASSUME Keeps, failures' = failures, notices' = notices,
             ~ \E p \in Procs : UpsertReportVersion(p)
      PROVE  NoticeInv'
  <2>1. Chain' = Chain /\ Keys' = Keys /\ \A k : Broken(k)' = Broken(k)
    BY <1>1, RowsStep, SameChain
  <2> QED
    BY <1>1, <2>1, NoticeKept DEF Keeps
<1>2. ASSUME NEW p \in Procs, Execute(p) PROVE NoticeInv'
  <2>0. failures' = failures
    BY <1>2 DEF Execute
  <2>1. ASSUME NEW w \in Procs, UpsertReportVersion(w), failures' = failures
        PROVE  NoticeInv'
    BY <2>1, UpsertNotices
  <2>2. ASSUME NEW S, Quiet(S), Replaced(p, S), Quiet({Head(todo[p])}) PROVE Keeps
    BY <1>0, <2>2, QuietKeeps DEF Keeps
  <2>3. CASE ApplyOutboxItem(p)
    <3>1. /\ Quiet({Head(todo[p])}) /\ notices' = notices
          /\ \E S : Quiet(S) /\ Replaced(p, S)
      BY <2>3, ApplyShape DEF Quiet, ApplyOutboxItem, tables
    <3> QED
      BY <1>1, <2>0, <2>1, <2>2, <3>1
  <2>4. CASE \/ LandAuditEvent(p) \/ RecordOutboxReceipt(p) \/ InsertChatMessage(p)
             \/ UpdateReportVersionState(p) \/ AppendReportAuditEvent(p)
    <3>1. Quiet({Head(todo[p])}) /\ \E S : Quiet(S) /\ Replaced(p, S)
      BY <2>4, QuietShape
    <3>2. notices' = notices
      BY <2>4 DEF LandAuditEvent, RecordOutboxReceipt, InsertChatMessage,
           UpdateReportVersionState, AppendReportAuditEvent, tables
    <3> QED
      BY <1>1, <2>0, <2>1, <2>2, <3>1, <3>2
  <2>5. CASE RunCascade(p)
    BY <2>0, <2>5, CascadeNotices
  <2>6. CASE FlagVersion(p)
    BY <2>0, <2>6, FlagNotices
  <2>7. ASSUME p \notin Calls, Replaced(p, {}) \/ \E x : Replaced(p, {x}) PROVE Keeps
    <3>1. \A x \in Calls : todo'[x] = todo[x]
      BY <1>0, <2>7 DEF Replaced
    <3> QED
      BY <3>1 DEF Keeps
  <2>8. CASE DrawSeq(p)
    <3>1. CASE p \in Calls
      BY <2>0, <2>8, <3>1, DrawNotices
    <3>2. CASE p \notin Calls
      <4>1. Keeps
        BY <2>7, <2>8, <3>2, DrawShape
      <4>2. notices' = notices
        BY <2>8 DEF DrawSeq
      <4> QED
        BY <1>1, <2>0, <2>1, <4>1, <4>2
    <3> QED
      BY <3>1, <3>2
  <2>9. CASE CommitInsert(p)
    <3>1. CASE p \in Calls
      BY <2>0, <2>9, <3>1, CommitNotices
    <3>2. CASE p \notin Calls
      <4>1. Keeps /\ Head(todo[p]).q = "remark"
        BY <2>7, <2>9, <3>2, CommitShape DEF StreamOf
      <4>2. notices' = notices
        BY <2>9, <4>1 DEF CommitInsert
      <4> QED
        BY <1>1, <2>0, <2>1, <4>1, <4>2
    <3> QED
      BY <3>1, <3>2
  <2> QED
    BY <1>2, <2>0, <2>1, <2>3, <2>4, <2>5, <2>6, <2>8, <2>9 DEF Execute
<1>3. ASSUME Keeps, failures' = failures, notices' = notices PROVE NoticeInv'
  BY <1>1, <1>3, UpsertNotices
<1>4. ASSUME NEW p \in Calls, NEW n \in {i.no : i \in Items},
             NEW st \in [UpTo(n) -> PushStates], PushOutbox(p, UpTo(n), st)
      PROVE  NoticeInv'
  <2>1. UpTo(n) \in SUBSET Items
    BY DEF UpTo
  <2>2. /\ todo[p] = <<>> /\ Quiet(Elems(todo'[p])) /\ \A x \in Procs \ {p} : todo'[x] = todo[x]
    BY <1>4, <2>1, PushShape
  <2>3. Elems(todo[p]) = {}
    BY <2>2, Short
  <2>4. Keeps
    BY <1>0, <2>2, <2>3 DEF Keeps, Quiet
  <2>5. failures' = failures /\ notices' = notices
    BY <1>4 DEF PushOutbox, tables
  <2> QED
    BY <1>3, <2>4, <2>5
<1>5. ASSUME NEW p \in Reviewers, NEW r \in {i.r : i \in Items},
             NEW fs \in SUBSET Fields \ {{}}, CreateRemarkSet(p, r, fs)
      PROVE  NoticeInv'
  <2>1. \A x \in Procs \ {p} : todo'[x] = todo[x]
    BY <1>5, RemarkShape
  <2>2. \A x \in Calls : todo'[x] = todo[x]
    BY <1>0, <2>1, ProcsAssumption
  <2>3. Keeps
    BY <2>2 DEF Keeps
  <2>4. failures' = failures /\ notices' = notices
    BY <1>5 DEF CreateRemarkSet, tables
  <2> QED
    BY <1>3, <2>3, <2>4
<1>6. ASSUME NEW p \in Calls, Reply(p) PROVE NoticeInv'
  <2>1. Quiet({Head(todo[p])}) /\ \E S : Quiet(S) /\ Replaced(p, S)
    BY <1>0, <1>6, QuietShape
  <2>2. Keeps
    BY <1>0, <2>1, QuietKeeps DEF Keeps
  <2>3. failures' = failures /\ notices' = notices
    BY <1>6 DEF Reply, tables
  <2> QED
    BY <1>3, <2>2, <2>3
<1>7. CASE PullInbox \/ UNCHANGED vars
  <2>1. todo' = todo /\ failures' = failures /\ notices' = notices
    BY <1>7 DEF PullInbox, vars, tables
  <2>2. Keeps
    BY <2>1 DEF Keeps
  <2> QED
    BY <1>3, <2>1, <2>2
<1> QED
  BY <1>2, <1>4, <1>5, <1>6, <1>7, FailureNotices DEF Next

\* An empty office owes nobody a notice.
LEMMA NoticeInit == Init => RowsInv /\ NoticeInv
<1> SUFFICES ASSUME Init PROVE RowsInv /\ NoticeInv
  OBVIOUS
<1>1. Keys = {} /\ versions = [k \in Keys |-> versions[k]]
  BY DEF Init, Keys
<1>2. Chain = {}
  BY <1>1 DEF Chain
<1>3. \A p \in Calls : Elems(todo[p]) = {}
  BY Short DEF Init, Procs
<1> QED
  BY <1>1, <1>2, <1>3 DEF Init, RowsInv, NoticeInv, FlagsOK

\* runCascade: once the calls that landed versions are over, every version of
\* the chain that breaks a rule has a latest notice of exactly the rules it
\* breaks, whatever states were pushed or set meanwhile, as long as no
\* statement failed and the vessel pushed one batch at a time.
THEOREM NoticesAreCurrent == Spec /\ []Serial(Calls) => []NoticesCurrent
<1>1. RowsInv /\ ShapeInv /\ StreamInv("notice") /\ NoticeInv /\ IInv /\ Serial(Calls)
        /\ [Next]_vars => (RowsInv /\ NoticeInv)'
  BY RowsStep, NoticeStep
<1>2. NoticeInv => NoticesCurrent
  <2>1. ASSUME NoticeInv, failures = 0, \A p \in Calls : todo[p] = <<>>,
               NEW k \in Chain, Broken(k) # {}
        PROVE  LatestRules(k) = Broken(k)
    <3>1. \A p \in Calls : Elems(todo[p]) = {}
      BY <2>1, Short
    <3> QED
      BY <2>1, <3>1 DEF NoticeInv
  <2> QED
    BY <2>1 DEF NoticesCurrent
<1> QED
  BY <1>1, <1>2, NoticeInit, Inductive, StreamsInOrder, PTL DEF Spec

=============================================================================
