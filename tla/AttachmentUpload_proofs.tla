----------------------- MODULE AttachmentUpload_proofs -----------------------
(***************************************************************************)
(* Proofs about AttachmentUpload, for any attachments, chunks, cycles and   *)
(* failures, as long as no two uploads of the content overlap: that what is *)
(* stored is whole, wherever an upload is stopped, and that what is synced  *)
(* is stored, unless one is stopped while the office assembles the file.    *)
(***************************************************************************)
EXTENDS AttachmentUpload, TLAPS, SequenceTheorems, FiniteSetTheorems

\* No two cycles are in an upload of the content at once; the scheduler
\* ends one cycle before it begins the next.
OneUpload ==
  \A p, q \in Cycles : todo[p] # <<>> /\ todo[q] # <<>> => p = q

\* A sequence, whatever its elements are.
Sequential(s) == s \in Seq(Range(s))

\* Chunks are copied before anything else is done, to the file named f.
CopiesFirst(s, f) ==
  \A k \in 1..Len(s) : s[k].op = "copy" =>
    s[k].file = f /\ \A j \in 1..(k - 1) : s[j].op = "copy"

\* A file is promoted right after it was verified.
PromotesVerified(s) ==
  \A k \in 2..Len(s) : s[k].op = "promote" => s[k - 1].op = "verify"

About(p, op) == todo[p] # <<>> /\ Head(todo[p]).op = op

ListsInv ==
  /\ todo = [p \in Cycles |-> todo[p]]
  /\ \A p \in Cycles : Sequential(todo[p])

FilesInv ==
  /\ assembling \in Inodes \cup {NoFile} /\ stored \in Inodes \cup {NoFile}
  /\ assembling = stored => stored = NoFile
  /\ content = [f \in Inodes |-> content[f]]
  /\ StoredIsWhole
  /\ \A p \in Cycles :
       /\ CopiesFirst(todo[p], assembling) /\ PromotesVerified(todo[p])
       /\ About(p, "promote") /\ assembling # NoFile => content[assembling] = Whole

-----------------------------------------------------------------------------
(* Lists of statements. *)

\* A function on 1..n is a sequence.
LEMMA Listed ==
  ASSUME NEW n \in Nat, NEW s, s = [j \in 1..n |-> s[j]]
  PROVE  Sequential(s) /\ Len(s) = n /\ DOMAIN s = 1..n
<1>1. DOMAIN s = 1..n
  OBVIOUS
<1>2. s \in [1..n -> Range(s)]
  BY <1>1 DEF Range
<1>3. s \in Seq(Range(s))
  BY <1>2, SeqDef, Zenon
<1> QED
  BY <1>1, <1>2, <1>3 DEF Sequential

\* ... and every sequence is one.
LEMMA ElementsOf ==
  ASSUME NEW S, NEW s \in Seq(S)
  PROVE  Len(s) \in Nat /\ DOMAIN s = 1..Len(s) /\ s = [j \in 1..Len(s) |-> s[j]]
OBVIOUS

\* One list after another.
LEMMA Joined ==
  ASSUME NEW s, NEW t, Sequential(s), Sequential(t)
  PROVE  /\ Sequential(s \o t) /\ Len(s) \in Nat /\ Len(t) \in Nat
         /\ Len(s \o t) = Len(s) + Len(t)
         /\ \A j \in 1..Len(s) : (s \o t)[j] = s[j]
         /\ \A j \in 1..Len(t) : (s \o t)[Len(s) + j] = t[j]
<1> DEFINE R == Range(s) \cup Range(t)
<1>1. s \in Seq(R) /\ t \in Seq(R)
  <2>1. s \in [1..Len(s) -> R] /\ t \in [1..Len(t) -> R] /\ Len(s) \in Nat /\ Len(t) \in Nat
    BY DEF Sequential
  <2> QED
    BY <2>1, SeqDef, Zenon
<1> HIDE DEF R
<1>2. s \o t \in Seq(R) /\ Len(s \o t) = Len(s) + Len(t)
      /\ Len(s) \in Nat /\ Len(t) \in Nat
  BY <1>1
<1>3. /\ \A j \in 1..Len(s) : (s \o t)[j] = s[j]
      /\ \A j \in 1..Len(t) : (s \o t)[Len(s) + j] = t[j]
  BY <1>1
<1>4. Sequential(s \o t)
  BY <1>2, ElementsOf, Listed
<1> QED
  BY <1>2, <1>3, <1>4

\* What a list is when n is put in the place of its first statement.
LEMMA Replaced ==
  ASSUME NEW s, Sequential(s), s # <<>>, NEW n, Sequential(n)
  PROVE  /\ Sequential(n \o Tail(s))
         /\ Len(s) \in Nat \ {0} /\ Len(n) \in Nat /\ Head(s) = s[1]
         /\ Len(n \o Tail(s)) = Len(n) + Len(s) - 1
         /\ \A j \in 1..Len(n) : (n \o Tail(s))[j] = n[j]
         /\ \A j \in (Len(n) + 1)..(Len(n) + Len(s) - 1) :
              (n \o Tail(s))[j] = s[j - Len(n) + 1]
<1> DEFINE R == Range(s) \cup Range(n)
<1>1. s \in Seq(R) /\ n \in Seq(R)
  <2>1. s \in [1..Len(s) -> R] /\ n \in [1..Len(n) -> R] /\ Len(s) \in Nat /\ Len(n) \in Nat
    BY DEF Sequential
  <2> QED
    BY <2>1, SeqDef, Zenon
<1> HIDE DEF R
<1>2. /\ Len(s) \in Nat \ {0} /\ Head(s) = s[1]
      /\ Tail(s) \in Seq(R) /\ Len(Tail(s)) = Len(s) - 1
      /\ \A j \in 1..Len(Tail(s)) : Tail(s)[j] = s[j + 1]
  BY <1>1
<1>3. /\ n \o Tail(s) \in Seq(R) /\ Len(n) \in Nat
      /\ Len(n \o Tail(s)) = Len(n) + Len(Tail(s))
      /\ \A j \in 1..Len(n) : (n \o Tail(s))[j] = n[j]
      /\ \A j \in (Len(n) + 1)..(Len(n) + Len(Tail(s))) :
           (n \o Tail(s))[j] = Tail(s)[j - Len(n)]
  BY <1>1, <1>2
<1>4. \A j \in (Len(n) + 1)..(Len(n) + Len(s) - 1) :
        (n \o Tail(s))[j] = s[j - Len(n) + 1]
  <2> TAKE j \in (Len(n) + 1)..(Len(n) + Len(s) - 1)
  <2>1. j - Len(n) \in 1..Len(Tail(s)) /\ j \in (Len(n) + 1)..(Len(n) + Len(Tail(s)))
    BY <1>2, <1>3
  <2> QED
    BY <1>2, <1>3, <2>1
<1>5. Sequential(n \o Tail(s))
  BY <1>3, ElementsOf, Listed
<1> QED
  BY <1>2, <1>3, <1>4, <1>5

\* The lists the handlers put in a statement's place.
LEMMA Sequences ==
  /\ Sequential(<<>>)
  /\ \A a : Sequential(<<a>>)
  /\ \A a, b : Sequential(<<a, b>>)
  /\ \A a, b, c : Sequential(<<a, b, c>>)
  /\ \A a, b, c, d : Sequential(<<a, b, c, d>>)
<1>1. Sequential(<<>>)
  BY DEF Sequential
<1>2. ASSUME NEW a PROVE Sequential(<<a>>)
  <2>1. <<a>> = [j \in 1..1 |-> <<a>>[j]]
    OBVIOUS
  <2> QED
    BY <2>1, Listed
<1>3. ASSUME NEW a, NEW b PROVE Sequential(<<a, b>>)
  <2>1. <<a, b>> = [j \in 1..2 |-> <<a, b>>[j]]
    OBVIOUS
  <2> QED
    BY <2>1, Listed
<1>4. ASSUME NEW a, NEW b, NEW c PROVE Sequential(<<a, b, c>>)
  <2>1. <<a, b, c>> = [j \in 1..3 |-> <<a, b, c>>[j]]
    OBVIOUS
  <2> QED
    BY <2>1, Listed
<1>5. ASSUME NEW a, NEW b, NEW c, NEW d PROVE Sequential(<<a, b, c, d>>)
  <2>1. <<a, b, c, d>> = [j \in 1..4 |-> <<a, b, c, d>>[j]]
    OBVIOUS
  <2> QED
    BY <2>1, Listed
<1> QED
  BY <1>1, <1>2, <1>3, <1>4, <1>5

\* A list in which nothing is copied or promoted.
NoneOf(s, ops) == \A k \in 1..Len(s) : s[k].op \notin ops

\* Another list in the place of a statement that is not a copy.
LEMMA CopiesReplaced ==
  ASSUME NEW s, Sequential(s), s # <<>>, NEW n, Sequential(n),
         NEW f, NEW g, CopiesFirst(s, f), Head(s).op # "copy", CopiesFirst(n, g)
  PROVE  CopiesFirst(n \o Tail(s), g)
<1> DEFINE t == n \o Tail(s)
<1>1. /\ Len(s) \in Nat \ {0} /\ Len(n) \in Nat /\ Head(s) = s[1]
      /\ Len(t) = Len(n) + Len(s) - 1
      /\ \A j \in 1..Len(n) : t[j] = n[j]
      /\ \A j \in (Len(n) + 1)..(Len(n) + Len(s) - 1) : t[j] = s[j - Len(n) + 1]
  BY Replaced
<1> HIDE DEF t
<1>2. ASSUME NEW k \in 1..Len(t), t[k].op = "copy"
      PROVE  t[k].file = g /\ \A j \in 1..(k - 1) : t[j].op = "copy"
  <2>1. k \in 1..Len(n)
    <3>1. SUFFICES ASSUME k \in (Len(n) + 1)..(Len(n) + Len(s) - 1) PROVE FALSE
      BY <1>1
    <3>2. k - Len(n) + 1 \in 1..Len(s) /\ 1 \in 1..(k - Len(n) + 1 - 1)
          /\ s[k - Len(n) + 1].op = "copy"
      BY <1>1, <1>2, <3>1
    <3>3. s[1].op = "copy"
      BY <3>2 DEF CopiesFirst
    <3> QED
      BY <1>1, <3>3
  <2>2. n[k].op = "copy"
    BY <1>1, <1>2, <2>1
  <2>3. n[k].file = g /\ \A j \in 1..(k - 1) : n[j].op = "copy"
    BY <2>1, <2>2 DEF CopiesFirst
  <2>4. \A j \in 1..(k - 1) : j \in 1..Len(n)
    BY <1>1, <2>1
  <2> QED
    BY <1>1, <2>1, <2>3, <2>4
<1>3. CopiesFirst(t, g)
  BY <1>2 DEF CopiesFirst
<1> QED
  BY <1>3 DEF t

\* The head was executed, whatever it was.
LEMMA CopiesLeft ==
  ASSUME NEW s, Sequential(s), s # <<>>, NEW f, CopiesFirst(s, f)
  PROVE  CopiesFirst(<<>> \o Tail(s), f)
<1> DEFINE t == <<>> \o Tail(s)
<1>1. /\ Len(s) \in Nat \ {0} /\ Len(<<>>) = 0 /\ Len(t) = Len(<<>>) + Len(s) - 1
      /\ \A j \in (Len(<<>>) + 1)..(Len(<<>>) + Len(s) - 1) : t[j] = s[j - Len(<<>>) + 1]
  BY Replaced, Sequences
<1> HIDE DEF t
<1>2. Len(t) = Len(s) - 1 /\ \A j \in 1..Len(t) : t[j] = s[j + 1]
  BY <1>1
<1>3. ASSUME NEW k \in 1..Len(t), t[k].op = "copy"
      PROVE  t[k].file = f /\ \A j \in 1..(k - 1) : t[j].op = "copy"
  <2>1. k + 1 \in 1..Len(s) /\ s[k + 1].op = "copy"
    BY <1>1, <1>2, <1>3
  <2>2. s[k + 1].file = f /\ \A j \in 1..(k + 1 - 1) : s[j].op = "copy"
    BY <2>1 DEF CopiesFirst
  <2>3. ASSUME NEW j \in 1..(k - 1) PROVE t[j].op = "copy"
    <3>1. j \in 1..Len(t) /\ j + 1 \in 1..(k + 1 - 1)
      BY <1>1, <1>2
    <3> QED
      BY <1>2, <2>2, <3>1
  <2> QED
    BY <1>2, <2>2, <2>3
<1>4. CopiesFirst(t, f)
  BY <1>3 DEF CopiesFirst
<1> QED
  BY <1>4 DEF t

\* What a list begins with after a replacement.
LEMMA HeadReplaced ==
  ASSUME NEW s, Sequential(s), s # <<>>, NEW n, Sequential(n)
  PROVE  /\ n # <<>> => /\ n \o Tail(s) # <<>> /\ Head(n \o Tail(s)) = n[1]
                        /\ Len(n) > 0
         /\ n = <<>> /\ n \o Tail(s) # <<>> =>
              2 \in 1..Len(s) /\ Head(n \o Tail(s)) = s[2]
<1> DEFINE t == n \o Tail(s)
<1>1. /\ Sequential(t) /\ Len(s) \in Nat \ {0} /\ Len(n) \in Nat
      /\ Len(t) = Len(n) + Len(s) - 1
      /\ \A j \in 1..Len(n) : t[j] = n[j]
      /\ \A j \in (Len(n) + 1)..(Len(n) + Len(s) - 1) : t[j] = s[j - Len(n) + 1]
  BY Replaced
<1> HIDE DEF t
<1>2. t # <<>> => Head(t) = t[1] /\ Len(t) > 0
  BY <1>1, Replaced
<1>3. n # <<>> => Len(n) > 0
  BY DEF Sequential
<1>4. Len(n) > 0 => t # <<>>
  BY <1>1
<1>5. n = <<>> => Len(n) = 0
  OBVIOUS
<1>6. CASE n # <<>>
  <2>1. Len(n) > 0 /\ 1 \in 1..Len(n)
    BY <1>1, <1>3, <1>6
  <2> QED
    BY <1>1, <1>2, <1>4, <1>6, <2>1 DEF t
<1>7. CASE n = <<>> /\ t # <<>>
  <2>1. Len(s) >= 2 /\ t[1] = s[2]
    BY <1>1, <1>2, <1>5, <1>7
  <2> QED
    BY <1>1, <1>2, <1>7, <2>1 DEF t
<1> QED
  BY <1>6, <1>7 DEF t

LEMMA PromotesReplaced ==
  ASSUME NEW s, Sequential(s), s # <<>>, NEW n, Sequential(n),
         PromotesVerified(s), PromotesVerified(n),
         n = <<>> \/ Head(s).op # "verify"
  PROVE  PromotesVerified(n \o Tail(s))
<1> DEFINE t == n \o Tail(s)
<1>1. /\ Len(s) \in Nat \ {0} /\ Len(n) \in Nat /\ Head(s) = s[1]
      /\ Len(t) = Len(n) + Len(s) - 1
      /\ \A j \in 1..Len(n) : t[j] = n[j]
      /\ \A j \in (Len(n) + 1)..(Len(n) + Len(s) - 1) : t[j] = s[j - Len(n) + 1]
  BY Replaced
<1> HIDE DEF t
<1>2. ASSUME NEW k \in 2..Len(t), t[k].op = "promote"
      PROVE  t[k - 1].op = "verify"
  <2>1. CASE k \in 2..Len(n)
    <3>1. k \in 1..Len(n) /\ k - 1 \in 1..Len(n) /\ n[k].op = "promote"
      BY <1>1, <1>2, <2>1
    <3>2. n[k - 1].op = "verify"
      BY <2>1, <3>1 DEF PromotesVerified
    <3> QED
      BY <1>1, <3>1, <3>2
  <2>2. CASE k \in (Len(n) + 1)..(Len(n) + Len(s) - 1)
    <3>1. k - Len(n) + 1 \in 2..Len(s) /\ s[k - Len(n) + 1].op = "promote"
      BY <1>1, <1>2, <2>2
    <3>2. s[k - Len(n) + 1 - 1].op = "verify"
      BY <3>1 DEF PromotesVerified
    <3>3. CASE k = Len(n) + 1
      <4>1. s[1].op = "verify"
        BY <1>1, <3>2, <3>3
      <4>2. n = <<>>
        BY <1>1, <4>1
      <4> QED
        BY <1>1, <3>3, <4>2
    <3>4. CASE k # Len(n) + 1
      <4>1. k - 1 \in (Len(n) + 1)..(Len(n) + Len(s) - 1)
        BY <1>1, <2>2, <3>4
      <4>2. t[k - 1] = s[k - 1 - Len(n) + 1] /\ k - 1 - Len(n) + 1 = k - Len(n) + 1 - 1
        BY <1>1, <2>2, <4>1
      <4> QED
        BY <3>2, <4>2
    <3> QED
      BY <3>3, <3>4
  <2> QED
    BY <1>1, <1>2, <2>1, <2>2
<1>3. PromotesVerified(t)
  BY <1>2 DEF PromotesVerified
<1> QED
  BY <1>3 DEF t

-----------------------------------------------------------------------------
(* What is stored is whole. *)

LEMMA EmptyList ==
  /\ Sequential(<<>>) /\ PromotesVerified(<<>>) /\ \A f : CopiesFirst(<<>>, f)
BY Sequences DEF PromotesVerified, CopiesFirst

LEMMA InodesAreNumbers ==
  Inodes \subseteq Nat /\ NoFile \notin Inodes /\ Cardinality(Cycles) \in Nat
<1>1. Cardinality(Cycles) \in Nat
  BY UploadAssumption, FS_CardinalityType
<1> QED
  BY <1>1, UploadAssumption DEF Inodes

\* A step that executes a statement and leaves the files, or only what is
\* staged, puts nothing in its place that is copied or promoted.
LEMMA ListStep ==
  ASSUME ListsInv, FilesInv, NEW p \in Cycles, todo[p] # <<>>,
         NEW n, Sequential(n), NoneOf(n, {"copy", "promote"}),
         Head(todo[p]).op \notin {"verify"},
         n = <<>> \/ Head(todo[p]).op # "copy",
         Then(p, n), UNCHANGED <<assembling, stored, content>>
  PROVE  ListsInv' /\ FilesInv'
<1> DEFINE s == todo[p]
           t == n \o Tail(s)
<1>1. todo' = [todo EXCEPT ![p] = t] /\ Sequential(s) /\ s # <<>>
  BY DEF Then, ListsInv
<1>2. todo'[p] = t /\ todo' = [q \in Cycles |-> todo'[q]]
      /\ \A q \in Cycles : q # p => todo'[q] = todo[q]
  BY <1>1 DEF ListsInv
<1>3. Sequential(t)
  BY <1>1, Replaced
<1>4. ListsInv'
  BY <1>1, <1>2, <1>3 DEF ListsInv
<1>5. CopiesFirst(s, assembling) /\ PromotesVerified(s)
  BY DEF FilesInv
<1>6. CopiesFirst(n, assembling) /\ PromotesVerified(n) /\ Len(n) \in Nat
  <2>1. Len(n) \in Nat
    BY DEF Sequential
  <2> QED
    BY <2>1 DEF NoneOf, CopiesFirst, PromotesVerified
<1>7. PromotesVerified(t)
  BY <1>1, <1>5, <1>6, PromotesReplaced
<1>8. CopiesFirst(t, assembling)
  <2>1. CASE n = <<>>
    BY <1>1, <1>5, <2>1, CopiesLeft
  <2>2. CASE Head(s).op # "copy"
    BY <1>1, <1>5, <1>6, <2>2, CopiesReplaced
  <2> QED
    BY <2>1, <2>2
<1>9. t # <<>> => Head(t).op # "promote"
  <2>1. CASE n # <<>>
    <3>1. t # <<>> /\ Head(t) = n[1] /\ 1 \in 1..Len(n)
      BY <1>1, <1>6, <2>1, HeadReplaced
    <3> QED
      BY <3>1 DEF NoneOf
  <2>2. CASE n = <<>> /\ t # <<>>
    <3>1. 2 \in 1..Len(s) /\ Head(t) = s[2] /\ Head(s) = s[1] /\ Len(s) \in Nat
      BY <1>1, <2>2, HeadReplaced, Replaced
    <3>2. s[2].op = "promote" => s[2 - 1].op = "verify"
      BY <1>5, <3>1 DEF PromotesVerified
    <3> QED
      BY <3>1, <3>2
  <2> QED
    BY <2>1, <2>2
<1> HIDE DEF s, t
<1>10. ASSUME NEW q \in Cycles
       PROVE  /\ CopiesFirst(todo'[q], assembling) /\ PromotesVerified(todo'[q])
              /\ todo'[q] # <<>> /\ Head(todo'[q]).op = "promote" /\ assembling # NoFile
                   => content[assembling] = Whole
  <2>1. CASE q = p
    BY <1>2, <1>7, <1>8, <1>9, <2>1
  <2>2. CASE q # p
    BY <1>2, <2>2 DEF FilesInv, About
  <2> QED
    BY <2>1, <2>2
<1>11. FilesInv'
  BY <1>10 DEF FilesInv, About, StoredIsWhole, Inodes, Whole
<1> QED
  BY <1>4, <1>11

\* A step after which a process has nothing to copy or promote.
LEMMA FreshStep ==
  ASSUME ListsInv, FilesInv, NEW p \in Cycles,
         NEW n, Sequential(n), NoneOf(n, {"copy", "promote"}),
         todo' = [todo EXCEPT ![p] = n], UNCHANGED <<assembling, stored, content>>
  PROVE  ListsInv' /\ FilesInv'
<1>1. todo'[p] = n /\ todo' = [q \in Cycles |-> todo'[q]]
      /\ \A q \in Cycles : q # p => todo'[q] = todo[q]
  BY DEF ListsInv
<1>2. ListsInv'
  BY <1>1 DEF ListsInv
<1>3. Len(n) \in Nat /\ (n # <<>> => Head(n) = n[1] /\ 1 \in 1..Len(n))
  BY DEF Sequential
<1>4. CopiesFirst(n, assembling) /\ PromotesVerified(n)
  BY <1>3 DEF NoneOf, CopiesFirst, PromotesVerified
<1>5. n # <<>> => Head(n).op # "promote"
  BY <1>3 DEF NoneOf
<1>6. ASSUME NEW q \in Cycles
      PROVE  /\ CopiesFirst(todo'[q], assembling) /\ PromotesVerified(todo'[q])
             /\ todo'[q] # <<>> /\ Head(todo'[q]).op = "promote" /\ assembling # NoFile
                  => content[assembling] = Whole
  <2>1. CASE q = p
    BY <1>1, <1>4, <1>5, <2>1
  <2>2. CASE q # p
    BY <1>1, <2>2 DEF FilesInv, About
  <2> QED
    BY <2>1, <2>2
<1>7. FilesInv'
  BY <1>6 DEF FilesInv, About, StoredIsWhole, Inodes, Whole
<1> QED
  BY <1>2, <1>7

\* Where nothing is under way in other processes, only the list of p counts.
LEMMA OwnStep ==
  ASSUME ListsInv, OneUpload, NEW p \in Cycles, todo[p] # <<>>,
         NEW t, Sequential(t), todo' = [todo EXCEPT ![p] = t],
         assembling' \in Inodes \cup {NoFile}, stored' \in Inodes \cup {NoFile},
         assembling' = stored' => stored' = NoFile,
         content' = [f \in Inodes |-> content'[f]], StoredIsWhole',
         CopiesFirst(t, assembling'), PromotesVerified(t),
         t # <<>> /\ Head(t).op = "promote" /\ assembling' # NoFile
           => content'[assembling'] = Whole
  PROVE  ListsInv' /\ FilesInv'
<1>1. todo'[p] = t /\ todo' = [q \in Cycles |-> todo'[q]]
      /\ \A q \in Cycles : q # p => todo'[q] = <<>>
  BY DEF ListsInv, OneUpload
<1>2. ListsInv'
  <2>1. \A q \in Cycles : Sequential(todo'[q])
    BY <1>1, EmptyList
  <2> QED
    BY <1>1, <2>1 DEF ListsInv
<1>3. ASSUME NEW q \in Cycles
      PROVE  /\ CopiesFirst(todo'[q], assembling') /\ PromotesVerified(todo'[q])
             /\ todo'[q] # <<>> /\ Head(todo'[q]).op = "promote" /\ assembling' # NoFile
                  => content'[assembling'] = Whole
  BY <1>1, EmptyList
<1>4. FilesInv'
  BY <1>3 DEF FilesInv, About, Inodes, Whole
<1> QED
  BY <1>2, <1>4

\* An ascending list of chunks.
LEMMA AscendingListed ==
  ASSUME NEW S, IsFiniteSet(S), NEW s \in Ascending(S), NEW op
  PROVE  /\ Sequential(each(op, s)) /\ Len(each(op, s)) = Cardinality(S)
         /\ Cardinality(S) \in Nat
         /\ s \in [1..Cardinality(S) -> S]
         /\ \A k \in 1..Len(each(op, s)) : each(op, s)[k].op = op /\ each(op, s)[k].i = s[k]
<1>1. Cardinality(S) \in Nat
  BY FS_CardinalityType
<1>2. s \in [1..Cardinality(S) -> S]
  BY DEF Ascending
<1>3. each(op, s) = [k \in 1..Cardinality(S) |-> [op |-> op, i |-> s[k]]]
  BY <1>2 DEF each
<1>4. each(op, s) = [k \in 1..Cardinality(S) |-> each(op, s)[k]]
  BY <1>3
<1>5. Sequential(each(op, s)) /\ Len(each(op, s)) = Cardinality(S)
  BY <1>1, <1>4, Listed
<1>6. \A k \in 1..Cardinality(S) : each(op, s)[k].op = op /\ each(op, s)[k].i = s[k]
  BY <1>3
<1> QED
  BY <1>1, <1>2, <1>5, <1>6

LEMMA ChunksAreFinite == IsFiniteSet(Chunks) /\ Chunks \subseteq Nat
<1>1. ChunkCount \in Nat
  BY UploadAssumption
<1>2. IsFiniteSet(0..(ChunkCount - 1))
  BY <1>1, FS_Interval
<1> QED
  BY <1>1, <1>2 DEF Chunks

\* Lists of one, two and four statements, in which nothing is copied or
\* promoted if no statement of them is a copy or promotes.
LEMMA ShortLists ==
  ASSUME NEW ops
  PROVE  /\ NoneOf(<<>>, ops)
         /\ \A a : a.op \notin ops => NoneOf(<<a>>, ops)
         /\ \A a, b : a.op \notin ops /\ b.op \notin ops => NoneOf(<<a, b>>, ops)
         /\ \A a, b, c : a.op \notin ops /\ b.op \notin ops /\ c.op \notin ops
              => NoneOf(<<a, b, c>>, ops)
         /\ \A a, b, c, d : /\ a.op \notin ops /\ b.op \notin ops
                            /\ c.op \notin ops /\ d.op \notin ops
              => NoneOf(<<a, b, c, d>>, ops)
BY DEF NoneOf

\* What the handlers of a chunk put in a statement's place.
LEMMA HandlerLists ==
  /\ \A i : LET n == <<stmt("get"), [op |-> "write", i |-> i],
                       [op |-> "record", i |-> i], stmt("complete")>>
            IN Sequential(n) /\ NoneOf(n, {"copy", "promote"})
  /\ Sequential(<<stmt("register"), stmt("missing")>>)
  /\ NoneOf(<<stmt("register"), stmt("missing")>>, {"copy", "promote"})
  /\ Sequential(<<stmt("create")>>) /\ NoneOf(<<stmt("create")>>, {"copy", "promote"})
  /\ Sequential(<<stmt("clean")>>) /\ NoneOf(<<stmt("clean")>>, {"copy", "promote"})
  /\ Sequential(Rejected) /\ NoneOf(Rejected, {"copy", "promote"})
  /\ Sequential(<<>>) /\ NoneOf(<<>>, {"copy", "promote"})
  /\ \A a : LET n == <<[op |-> "list", a |-> a], stmt("has"), [op |-> "mark", a |-> a]>>
            IN Sequential(n) /\ NoneOf(n, {"copy", "promote"})
<1> DEFINE ops == {"copy", "promote"}
<1>1. \A op : stmt(op).op = op
  BY DEF stmt
<1>2. \A i : LET n == <<stmt("get"), [op |-> "write", i |-> i],
                       [op |-> "record", i |-> i], stmt("complete")>>
            IN Sequential(n) /\ NoneOf(n, ops)
  <2> TAKE i
  <2> DEFINE w == [op |-> "write", i |-> i]
             r == [op |-> "record", i |-> i]
  <2>1. w.op \notin ops /\ r.op \notin ops
    OBVIOUS
  <2>2. stmt("get").op \notin ops /\ stmt("complete").op \notin ops
    BY <1>1
  <2> HIDE DEF w, r, ops
  <2>3. NoneOf(<<stmt("get"), w, r, stmt("complete")>>, ops)
    BY <2>1, <2>2, ShortLists
  <2>4. Sequential(<<stmt("get"), w, r, stmt("complete")>>)
    BY Sequences
  <2> QED
    BY <2>3, <2>4 DEF w, r
<1>3. \A a : LET n == <<[op |-> "list", a |-> a], stmt("has"), [op |-> "mark", a |-> a]>>
            IN Sequential(n) /\ NoneOf(n, ops)
  <2> TAKE a
  <2> DEFINE w == [op |-> "list", a |-> a]
             r == [op |-> "mark", a |-> a]
  <2>1. w.op \notin ops /\ r.op \notin ops
    OBVIOUS
  <2>2. stmt("has").op \notin ops
    BY <1>1
  <2> HIDE DEF w, r, ops
  <2>3. NoneOf(<<w, stmt("has"), r>>, ops)
    BY <2>1, <2>2, ShortLists
  <2>4. Sequential(<<w, stmt("has"), r>>)
    BY Sequences
  <2> QED
    BY <2>3, <2>4 DEF w, r
<1>4. /\ stmt("register").op \notin ops /\ stmt("missing").op \notin ops
      /\ stmt("create").op \notin ops /\ stmt("clean").op \notin ops
      /\ stmt("unregister").op \notin ops
  BY <1>1
<1> HIDE DEF ops
<1>5. /\ NoneOf(<<stmt("register"), stmt("missing")>>, ops)
      /\ NoneOf(<<stmt("create")>>, ops) /\ NoneOf(<<stmt("clean")>>, ops)
      /\ NoneOf(<<stmt("clean"), stmt("unregister")>>, ops) /\ NoneOf(<<>>, ops)
  BY <1>4, ShortLists
<1> QED
  BY <1>2, <1>3, <1>5, Sequences DEF Rejected, ops

LEMMA QueryFiles ==
  ASSUME ListsInv, FilesInv, NEW p \in Cycles,
         \/ BeginUpload(p) \/ MarkAttachmentSynced(p) \/ UpsertReportAttachment(p)
         \/ AlreadyComplete(p) \/ GetOrCreateAttachmentUpload(p)
         \/ MissingChunkIndices(p)
  PROVE  ListsInv' /\ FilesInv'
<1>1. CASE BeginUpload(p)
  <2>1. PICK n : /\ Sequential(n) /\ NoneOf(n, {"copy", "promote"})
                 /\ todo' = [todo EXCEPT ![p] = n]
    BY <1>1, HandlerLists DEF BeginUpload
  <2> QED
    BY <1>1, <2>1, FreshStep DEF BeginUpload, files
<1>2. CASE MarkAttachmentSynced(p)
  BY <1>2, HandlerLists, ListStep DEF MarkAttachmentSynced, Stmts, files
<1>3. CASE UpsertReportAttachment(p)
  BY <1>3, HandlerLists, ListStep DEF UpsertReportAttachment, Stmts, files
<1>4. CASE AlreadyComplete(p)
  <2>1. CASE stored # NoFile
    BY <1>4, <2>1, HandlerLists, ListStep DEF AlreadyComplete, Stmts, files
  <2>2. CASE stored = NoFile
    BY <1>4, <2>2, HandlerLists, ListStep DEF AlreadyComplete, Stmts, files
  <2> QED
    BY <2>1, <2>2
<1>5. CASE GetOrCreateAttachmentUpload(p)
  BY <1>5, HandlerLists, ListStep DEF GetOrCreateAttachmentUpload, Stmts, files
<1>6. CASE MissingChunkIndices(p)
  <2>1. PICK s \in Ascending(Chunks \ received) : Then(p, each("chunk", s))
    BY <1>6 DEF MissingChunkIndices
  <2>2. IsFiniteSet(Chunks \ received)
    BY ChunksAreFinite, FS_Subset
  <2>3. Sequential(each("chunk", s))
    BY <2>2, AscendingListed
  <2>4. \A k \in 1..Len(each("chunk", s)) : each("chunk", s)[k].op = "chunk"
    BY <2>2, AscendingListed
  <2>5. NoneOf(each("chunk", s), {"copy", "promote"})
    BY <2>4 DEF NoneOf
  <2> QED
    BY <1>6, <2>1, <2>3, <2>5, ListStep DEF MissingChunkIndices, Stmts, files
<1> QED
  BY <1>1, <1>2, <1>3, <1>4, <1>5, <1>6

LEMMA ChunkFiles ==
  ASSUME ListsInv, FilesInv, NEW p \in Cycles,
         \/ BeginChunk(p) \/ GetAttachmentUpload(p) \/ WriteChunk(p)
         \/ RecordChunk(p) \/ CheckComplete(p) \/ DeleteAttachmentUpload(p)
  PROVE  ListsInv' /\ FilesInv'
<1>1. CASE BeginChunk(p)
  <2>1. CASE stored # NoFile
    BY <1>1, <2>1, HandlerLists, ListStep DEF BeginChunk, Stmts, files
  <2>2. CASE stored = NoFile
    BY <1>1, <2>2, HandlerLists, ListStep DEF BeginChunk, Stmts, files
  <2> QED
    BY <2>1, <2>2
<1>2. CASE GetAttachmentUpload(p)
  <2>1. CASE registered
    BY <1>2, <2>1, HandlerLists, ListStep DEF GetAttachmentUpload, Stmts, files
  <2>2. CASE ~registered
    BY <1>2, <2>2, HandlerLists, FreshStep DEF GetAttachmentUpload, Fails, files
  <2> QED
    BY <2>1, <2>2
<1>3. CASE WriteChunk(p)
  BY <1>3, HandlerLists, ListStep DEF WriteChunk, Stmts
<1>4. CASE RecordChunk(p)
  <2>1. CASE registered
    BY <1>4, <2>1, HandlerLists, ListStep DEF RecordChunk, Stmts, files
  <2>2. CASE ~registered
    BY <1>4, <2>2, HandlerLists, FreshStep DEF RecordChunk, Fails, files
  <2> QED
    BY <2>1, <2>2
<1>5. CASE CheckComplete(p)
  <2>1. CASE Chunks \subseteq received
    BY <1>5, <2>1, HandlerLists, ListStep DEF CheckComplete, Stmts, files
  <2>2. CASE ~(Chunks \subseteq received)
    BY <1>5, <2>2, HandlerLists, ListStep DEF CheckComplete, Stmts, files
  <2> QED
    BY <2>1, <2>2
<1>6. CASE DeleteAttachmentUpload(p)
  BY <1>6, HandlerLists, ListStep DEF DeleteAttachmentUpload, Stmts, files
<1> QED
  BY <1>1, <1>2, <1>3, <1>4, <1>5, <1>6

LEMMA FailureFiles ==
  ASSUME ListsInv, FilesInv, NEW p \in Cycles, Failure(p)
  PROVE  ListsInv' /\ FilesInv'
<1>1. UNCHANGED <<assembling, stored, content>>
  BY DEF Failure, files
<1>2. CASE Abort(p)
  <2>1. PICK n \in {<<>>, OnError(Head(todo[p]).op)} : todo' = [todo EXCEPT ![p] = n]
    BY <1>2 DEF Abort, Fails
  <2>2. n \in {<<>>, <<stmt("clean")>>, Rejected}
    BY <2>1 DEF OnError
  <2>3. Sequential(n) /\ NoneOf(n, {"copy", "promote"})
    BY <2>2, HandlerLists
  <2> QED
    BY <1>1, <2>1, <2>3, FreshStep
<1>3. CASE Stop(p)
  <2>1. todo' = [todo EXCEPT ![p] = <<>>]
    BY <1>3 DEF Stop
  <2> QED
    BY <1>1, <2>1, HandlerLists, FreshStep
<1> QED
  BY <1>2, <1>3 DEF Failure

\* What is executed once the file f is created.
Copies(f) == [k \in 1 .. ChunkCount |-> [op |-> "copy", i |-> k - 1, file |-> f]]
Finish == <<stmt("verify"), stmt("promote"), stmt("clean"), stmt("unregister")>>
Assembly(f) == Copies(f) \o Finish

LEMMA AssemblyListed ==
  ASSUME NEW f
  PROVE  /\ Sequential(Assembly(f)) /\ Len(Assembly(f)) = ChunkCount + 4
         /\ ChunkCount \in Nat
         /\ \A k \in 1..ChunkCount :
              /\ Assembly(f)[k].op = "copy" /\ Assembly(f)[k].file = f
              /\ Assembly(f)[k].i = k - 1
         /\ Assembly(f)[ChunkCount + 1].op = "verify"
         /\ Assembly(f)[ChunkCount + 2].op = "promote"
         /\ Assembly(f)[ChunkCount + 3].op = "clean"
         /\ Assembly(f)[ChunkCount + 4].op = "unregister"
<1> DEFINE c == Copies(f)
<1>1. ChunkCount \in Nat
  BY UploadAssumption
<1>2. c = [k \in 1..ChunkCount |-> c[k]]
  BY DEF Copies
<1>3. Sequential(c) /\ Len(c) = ChunkCount
  BY <1>1, <1>2, Listed
<1> DEFINE e == Finish
<1>4. /\ Sequential(e) /\ Len(e) = 4
      /\ e[1].op = "verify" /\ e[2].op = "promote"
      /\ e[3].op = "clean" /\ e[4].op = "unregister"
  BY Sequences DEF Finish, stmt
<1>5. \A k \in 1..ChunkCount :
        c[k].op = "copy" /\ c[k].file = f /\ c[k].i = k - 1
  BY DEF Copies
<1> HIDE DEF c, e
<1> DEFINE w == c \o e
<1>6. /\ Sequential(w) /\ Len(w) = Len(c) + Len(e)
      /\ \A k \in 1..Len(c) : w[k] = c[k]
      /\ \A k \in 1..Len(e) : w[Len(c) + k] = e[k]
  <2>1. Sequential(c) /\ Sequential(e)
    BY <1>3, <1>4
  <2>2. Sequential(w) /\ Len(w) = Len(c) + Len(e)
    BY <2>1, Joined
  <2>3. \A k \in 1..Len(c) : w[k] = c[k]
    BY <2>1, Joined
  <2>4. \A k \in 1..Len(e) : w[Len(c) + k] = e[k]
    BY <2>1, Joined
  <2> QED
    BY <2>2, <2>3, <2>4
<1>7. Assembly(f) = w
  BY DEF Assembly, c, e
<1> HIDE DEF w
<1>8. \A k \in 1..ChunkCount :
        w[k].op = "copy" /\ w[k].file = f /\ w[k].i = k - 1
  BY <1>3, <1>5, <1>6
<1>9. \A k \in 1..4 : w[ChunkCount + k] = e[k]
  <2>1. 1..Len(e) = 1..4 /\ Len(c) = ChunkCount
    BY <1>3, <1>4
  <2> QED
    BY <1>6, <2>1
<1>10. /\ w[ChunkCount + 1] = e[1] /\ w[ChunkCount + 2] = e[2]
       /\ w[ChunkCount + 3] = e[3] /\ w[ChunkCount + 4] = e[4]
  BY <1>9
<1> QED
  BY <1>1, <1>3, <1>4, <1>6, <1>7, <1>8, <1>10

LEMMA AssemblyFirst ==
  ASSUME NEW f
  PROVE  /\ CopiesFirst(Assembly(f), f) /\ PromotesVerified(Assembly(f))
         /\ Assembly(f) # <<>> /\ Assembly(f)[1].op \in {"copy", "verify"}
<1> DEFINE a == Assembly(f)
<1>1. /\ Len(a) = ChunkCount + 4 /\ ChunkCount \in Nat
      /\ \A k \in 1..ChunkCount : a[k].op = "copy" /\ a[k].file = f
      /\ a[ChunkCount + 1].op = "verify" /\ a[ChunkCount + 2].op = "promote"
      /\ a[ChunkCount + 3].op = "clean" /\ a[ChunkCount + 4].op = "unregister"
  BY AssemblyListed
<1> HIDE DEF a
<1>2. \A k \in 1..Len(a) :
        \/ k \in 1..ChunkCount \/ k = ChunkCount + 1 \/ k = ChunkCount + 2
        \/ k = ChunkCount + 3 \/ k = ChunkCount + 4
  BY <1>1
<1>3. \A k \in 1..Len(a) : a[k].op = "copy" => k \in 1..ChunkCount
  BY <1>1, <1>2
<1>4. CopiesFirst(a, f)
  BY <1>1, <1>3 DEF CopiesFirst
<1>5. \A k \in 1..Len(a) : a[k].op = "promote" => k = ChunkCount + 2
  BY <1>1, <1>2
<1>6. PromotesVerified(a)
  <2>1. ASSUME NEW k \in 2..Len(a), a[k].op = "promote" PROVE a[k - 1].op = "verify"
    <3>1. k = ChunkCount + 2 /\ k - 1 = ChunkCount + 1
      BY <1>1, <1>5, <2>1
    <3> QED
      BY <1>1, <3>1
  <2> QED
    BY <2>1 DEF PromotesVerified
<1>7. a[1].op \in {"copy", "verify"}
  BY <1>1
<1>8. a # <<>>
  BY <1>1
<1> QED
  BY <1>4, <1>6, <1>7, <1>8 DEF a

\* Where a file is created nothing is being copied, and a free inode is left.
LEMMA CreateFiles ==
  ASSUME ListsInv, FilesInv, OneUpload, NEW p \in Cycles, CreateAssembling(p)
  PROVE  ListsInv' /\ FilesInv'
<1> DEFINE s == todo[p]
           f == IF assembling # NoFile THEN assembling
                ELSE CHOOSE g \in Inodes : ~Open(g)
<1>1. /\ s # <<>> /\ Head(s).op = "create" /\ Sequential(s)
      /\ assembling' = f /\ content' = [content EXCEPT ![f] = Nothing]
      /\ Then(p, Assembly(f)) /\ UNCHANGED stored
  BY DEF CreateAssembling, Stmts, Assembly, Copies, Finish, ListsInv
<1>2. CopiesFirst(s, assembling) /\ PromotesVerified(s) /\ s[1].op = "create"
      /\ Len(s) \in Nat \ {0} /\ DOMAIN s = 1..Len(s)
  BY <1>1, Sequences, Replaced, ElementsOf DEF FilesInv, Sequential
<1>3. \A q \in Cycles : \A k \in DOMAIN todo[q] : todo[q][k].op # "copy"
  <2>1. ASSUME NEW k \in 1..Len(s) PROVE s[k].op # "copy"
    <3>1. k = 1 \/ 1 \in 1..(k - 1)
      BY <1>2
    <3> QED
      BY <1>2, <3>1 DEF CopiesFirst
  <2>2. \A q \in Cycles : q # p => todo[q] = <<>>
    BY <1>1 DEF OneUpload
  <2>3. DOMAIN <<>> = {}
    OBVIOUS
  <2> QED
    BY <1>2, <2>1, <2>2, <2>3
<1>4. f \in Inodes /\ f # stored
  <2>1. CASE assembling # NoFile
    BY <2>1 DEF FilesInv
  <2>2. CASE assembling = NoFile
    <3>1. \A g \in Inodes : Open(g) => g = stored
      BY <1>3, <2>2, InodesAreNumbers DEF Open
    <3>2. 1 \in Inodes /\ 2 \in Inodes
      BY InodesAreNumbers DEF Inodes
    <3>3. \E g \in Inodes : ~Open(g)
      BY <3>1, <3>2
    <3>4. f \in Inodes /\ ~Open(f)
      BY <2>2, <3>3
    <3>5. Open(stored)
      BY DEF Open
    <3> QED
      BY <3>4, <3>5
  <2> QED
    BY <2>1, <2>2
<1> DEFINE t == Assembly(f) \o Tail(s)
<1> HIDE DEF f
<1>5. todo' = [todo EXCEPT ![p] = t] /\ Sequential(t)
  BY <1>1, AssemblyListed, Replaced DEF Then
<1>6. CopiesFirst(t, f)
  BY <1>1, <1>2, AssemblyListed, AssemblyFirst, CopiesReplaced
<1>7. PromotesVerified(t)
  BY <1>1, <1>2, AssemblyListed, AssemblyFirst, PromotesReplaced
<1>8. t # <<>> /\ Head(t).op # "promote"
  BY <1>1, AssemblyListed, AssemblyFirst, HeadReplaced
<1>9. content' = [g \in Inodes |-> content'[g]]
  BY <1>1 DEF FilesInv
<1>10. StoredIsWhole'
  <2>1. SUFFICES ASSUME stored # NoFile PROVE content'[stored] = Whole
    BY <1>1 DEF StoredIsWhole, Whole
  <2>2. stored \in Inodes /\ content[stored] = Whole
    BY <2>1 DEF FilesInv, StoredIsWhole
  <2> QED
    BY <1>1, <1>4, <2>2 DEF FilesInv
<1>11. assembling' \in Inodes \cup {NoFile} /\ stored' \in Inodes \cup {NoFile}
       /\ (assembling' = stored' => stored' = NoFile)
  BY <1>1, <1>4 DEF FilesInv
<1> HIDE DEF t
<1> QED
  BY <1>1, <1>5, <1>6, <1>7, <1>8, <1>9, <1>10, <1>11, OwnStep

\* A chunk is copied to the file being assembled, which is not what is stored.
LEMMA CopyFiles ==
  ASSUME ListsInv, FilesInv, OneUpload, NEW p \in Cycles, CopyChunk(p)
  PROVE  ListsInv' /\ FilesInv'
<1> DEFINE s == todo[p]
           h == Head(todo[p])
<1>1. s # <<>> /\ h.op = "copy" /\ Sequential(s) /\ UNCHANGED <<assembling, stored>>
  BY DEF CopyChunk, Stmts, ListsInv
<1>2. CopiesFirst(s, assembling) /\ PromotesVerified(s) /\ h = s[1] /\ 1 \in 1..Len(s)
      /\ Len(s) \in Nat
  BY <1>1, Sequences, Replaced DEF FilesInv
<1>3. h.file = assembling
  BY <1>1, <1>2 DEF CopiesFirst
<1>4. CASE staged[h.i] = "none"
  <2>1. todo' = [todo EXCEPT ![p] = <<stmt("clean")>>] /\ UNCHANGED content
    BY <1>4 DEF CopyChunk, Fails
  <2> QED
    BY <1>1, <2>1, HandlerLists, FreshStep
<1>5. CASE staged[h.i] # "none"
  <2> DEFINE t == <<>> \o Tail(s)
             c == content[h.file]
             d == [c EXCEPT ![h.i] = staged[h.i]]
  <2>1. content' = [content EXCEPT ![h.file] = d]
        /\ todo' = [todo EXCEPT ![p] = t]
    BY <1>5 DEF CopyChunk, Then
  <2> HIDE DEF d, c
  <2>2. Sequential(t) /\ CopiesFirst(t, assembling) /\ PromotesVerified(t)
    BY <1>1, <1>2, EmptyList, Replaced, CopiesLeft, PromotesReplaced
  <2>3. t # <<>> => Head(t).op # "promote"
    <3>1. SUFFICES ASSUME t # <<>> PROVE Head(t).op # "promote"
      OBVIOUS
    <3>2. 2 \in 2..Len(s) /\ Head(t) = s[2]
      BY <1>1, <1>2, <3>1, EmptyList, HeadReplaced
    <3>3. s[2].op = "promote" => s[2 - 1].op = "verify"
      BY <1>2, <3>2 DEF PromotesVerified
    <3> QED
      BY <1>1, <1>2, <3>2, <3>3
  <2>4. content' = [g \in Inodes |-> content'[g]]
    BY <2>1 DEF FilesInv
  <2>5. StoredIsWhole'
    <3>1. SUFFICES ASSUME stored # NoFile PROVE content'[stored] = Whole
      BY <1>1 DEF StoredIsWhole, Whole
    <3>2. stored \in Inodes /\ content[stored] = Whole /\ h.file # stored
      BY <1>3, <3>1 DEF FilesInv, StoredIsWhole
    <3> QED
      BY <2>1, <3>2 DEF FilesInv
  <2>6. assembling' \in Inodes \cup {NoFile} /\ stored' \in Inodes \cup {NoFile}
        /\ (assembling' = stored' => stored' = NoFile)
    BY <1>1 DEF FilesInv
  <2> HIDE DEF t
  <2> QED
    BY <1>1, <2>1, <2>2, <2>3, <2>4, <2>5, <2>6, OwnStep
<1> QED
  BY <1>4, <1>5

\* What has just been verified is promoted next.
LEMMA VerifyFiles ==
  ASSUME ListsInv, FilesInv, OneUpload, NEW p \in Cycles, VerifyHash(p)
  PROVE  ListsInv' /\ FilesInv'
<1> DEFINE s == todo[p]
<1>1. s # <<>> /\ Head(s).op = "verify" /\ Sequential(s)
      /\ UNCHANGED <<assembling, stored, content>>
  BY DEF VerifyHash, Stmts, ListsInv, files
<1>2. CASE assembling # NoFile /\ content[assembling] = Whole
  <2> DEFINE t == <<>> \o Tail(s)
  <2>1. todo' = [todo EXCEPT ![p] = t]
    BY <1>2 DEF VerifyHash, Then
  <2>2. Sequential(t) /\ CopiesFirst(t, assembling) /\ PromotesVerified(t)
    BY <1>1, EmptyList, Replaced, CopiesLeft, PromotesReplaced DEF FilesInv
  <2>3. /\ assembling' \in Inodes \cup {NoFile} /\ stored' \in Inodes \cup {NoFile}
        /\ (assembling' = stored' => stored' = NoFile)
        /\ content' = [g \in Inodes |-> content'[g]]
    BY <1>1 DEF FilesInv
  <2>4. StoredIsWhole'
    BY <1>1 DEF FilesInv, StoredIsWhole, Whole
  <2> HIDE DEF t
  <2> QED
    BY <1>1, <1>2, <2>1, <2>2, <2>3, <2>4, OwnStep
<1>3. CASE ~(assembling # NoFile /\ content[assembling] = Whole)
  <2>1. todo' = [todo EXCEPT ![p] = Rejected]
    BY <1>3 DEF VerifyHash, Fails
  <2> QED
    BY <1>1, <2>1, HandlerLists, FreshStep
<1> QED
  BY <1>2, <1>3

LEMMA PromoteFiles ==
  ASSUME ListsInv, FilesInv, OneUpload, NEW p \in Cycles, Promote(p)
  PROVE  ListsInv' /\ FilesInv'
<1> DEFINE s == todo[p]
<1>1. s # <<>> /\ Head(s).op = "promote" /\ Sequential(s) /\ UNCHANGED content
  BY DEF Promote, Stmts, ListsInv
<1>2. CASE stored # NoFile
  BY <1>1, <1>2, HandlerLists, ListStep DEF Promote
<1>3. CASE stored = NoFile /\ assembling = NoFile
  <2>1. todo' = [todo EXCEPT ![p] = Rejected] /\ UNCHANGED <<assembling, stored>>
    BY <1>3 DEF Promote, Fails
  <2> QED
    BY <1>1, <2>1, HandlerLists, FreshStep
<1>4. CASE stored = NoFile /\ assembling # NoFile
  <2> DEFINE t == <<>> \o Tail(s)
  <2>1. stored' = assembling /\ assembling' = NoFile /\ todo' = [todo EXCEPT ![p] = t]
    BY <1>4 DEF Promote, Then
  <2>2. content[assembling] = Whole /\ assembling \in Inodes
    BY <1>1, <1>4 DEF FilesInv, About
  <2>3. CopiesFirst(t, NoFile)
    <3>1. CopiesFirst(s, assembling) /\ CopiesFirst(<<>>, NoFile)
      BY EmptyList DEF FilesInv
    <3> QED
      BY <1>1, <3>1, EmptyList, CopiesReplaced
  <2>4. Sequential(t) /\ PromotesVerified(t)
    BY <1>1, EmptyList, Replaced, PromotesReplaced DEF FilesInv
  <2>5. StoredIsWhole'
    BY <1>1, <2>1, <2>2 DEF StoredIsWhole, Whole
  <2>6. /\ assembling' \in Inodes \cup {NoFile} /\ stored' \in Inodes \cup {NoFile}
        /\ (assembling' = stored' => stored' = NoFile)
        /\ content' = [g \in Inodes |-> content'[g]]
    BY <1>1, <1>4, <2>1, <2>2 DEF FilesInv
  <2> HIDE DEF t
  <2> QED
    BY <1>1, <2>1, <2>3, <2>4, <2>5, <2>6, OwnStep
<1> QED
  BY <1>2, <1>3, <1>4

LEMMA CleanFiles ==
  ASSUME ListsInv, FilesInv, OneUpload, NEW p \in Cycles, CleanupStaging(p)
  PROVE  ListsInv' /\ FilesInv'
<1> DEFINE s == todo[p]
           t == <<>> \o Tail(s)
<1>1. s # <<>> /\ Head(s).op = "clean" /\ Sequential(s) /\ UNCHANGED <<content, stored>>
      /\ assembling' = NoFile /\ todo' = [todo EXCEPT ![p] = t]
  BY DEF CleanupStaging, Stmts, ListsInv, Then
<1>2. CopiesFirst(t, NoFile)
  <2>1. CopiesFirst(s, assembling) /\ CopiesFirst(<<>>, NoFile)
    BY EmptyList DEF FilesInv
  <2> QED
    BY <1>1, <2>1, EmptyList, CopiesReplaced
<1>3. Sequential(t) /\ PromotesVerified(t)
  BY <1>1, EmptyList, Replaced, PromotesReplaced DEF FilesInv
<1>4. StoredIsWhole'
  BY <1>1 DEF FilesInv, StoredIsWhole, Whole
<1>5. /\ assembling' \in Inodes \cup {NoFile} /\ stored' \in Inodes \cup {NoFile}
      /\ (assembling' = stored' => stored' = NoFile)
      /\ content' = [g \in Inodes |-> content'[g]]
  BY <1>1 DEF FilesInv
<1> HIDE DEF t
<1> QED
  BY <1>1, <1>2, <1>3, <1>4, <1>5, OwnStep

LEMMA FilesNext ==
  ASSUME ListsInv, FilesInv, OneUpload, [Next]_vars
  PROVE  ListsInv' /\ FilesInv'
<1>1. CASE UNCHANGED <<assembling, stored, content, todo>>
  BY <1>1 DEF ListsInv, FilesInv, About, StoredIsWhole, Inodes, Whole
<1>2. CASE \E a \in Rows : UploadAttachment(a) \/ DeleteAttachment(a)
  BY <1>1, <1>2 DEF UploadAttachment, DeleteAttachment, files
<1>3. ASSUME NEW p \in Cycles, PushAttachmentsBatch(p) \/ Step(p) \/ Failure(p)
      PROVE  ListsInv' /\ FilesInv'
  <2>1. CASE PushAttachmentsBatch(p)
    BY <1>1, <2>1 DEF PushAttachmentsBatch, files
  <2>2. CASE Failure(p)
    BY <2>2, FailureFiles
  <2>3. CASE Step(p)
    BY <2>3, QueryFiles, ChunkFiles, CreateFiles, CopyFiles, VerifyFiles,
       PromoteFiles, CleanFiles DEF Step
  <2> QED
    BY <1>3, <2>1, <2>2, <2>3
<1>4. CASE UNCHANGED vars
  BY <1>1, <1>4 DEF vars
<1> QED
  BY <1>2, <1>3, <1>4 DEF Next

LEMMA FilesInit == Init => ListsInv /\ FilesInv
<1> SUFFICES ASSUME Init PROVE ListsInv /\ FilesInv
  OBVIOUS
<1>1. \A p \in Cycles : todo[p] = <<>>
  BY DEF Init
<1>2. ListsInv
  BY <1>1, EmptyList DEF Init, ListsInv
<1>3. \A p \in Cycles :
        /\ CopiesFirst(todo[p], assembling) /\ PromotesVerified(todo[p])
        /\ ~About(p, "promote")
  BY <1>1, EmptyList DEF About
<1> QED
  BY <1>2, <1>3 DEF Init, FilesInv, StoredIsWhole

\* What the content store has under the hash is the content of that hash,
\* wherever an upload was stopped or failed before and whatever was sent:
\* PutFile verifies the file it renames, and no other upload writes to it.
THEOREM StoredContentIsWhole == Spec /\ []OneUpload => []StoredIsWhole
<1>1. ListsInv /\ FilesInv /\ OneUpload /\ [Next]_vars => (ListsInv /\ FilesInv)'
  BY FilesNext
<1>2. FilesInv => StoredIsWhole
  BY DEF FilesInv
<1> QED
  BY <1>1, <1>2, FilesInit, PTL DEF Spec

-----------------------------------------------------------------------------
(* What is synced is stored. *)

\* A list that begins with one of these.
In(s, ops) == s # <<>> /\ Head(s).op \in ops

Followed(s, k, ops) == k < Len(s) /\ s[k + 1].op \in ops
Preceded(s, k, op) == k = 1 \/ s[k - 1].op = op

\* In what order statements are executed, and on which chunks.
ChainOK(s) ==
  \A k \in 1..Len(s) :
    /\ s[k].op = "list" => Followed(s, k, {"has"})
    /\ s[k].op = "register" => Followed(s, k, {"missing"})
    /\ s[k].op = "get" => Followed(s, k, {"write"})
    /\ s[k].op = "write" => Followed(s, k, {"record"}) /\ s[k + 1].i = s[k].i
    /\ s[k].op = "record" => Followed(s, k, {"complete"}) /\ Preceded(s, k, "write")
    /\ s[k].op = "create" => k = 1
    /\ s[k].op = "copy" => Followed(s, k, {"copy", "verify"}) /\ Preceded(s, k, "copy")
    /\ s[k].op = "verify" => Followed(s, k, {"promote"})
    /\ s[k].op = "promote" => Followed(s, k, {"clean"})
    /\ s[k].op = "clean" => Followed(s, k, {"unregister"})
    /\ s[k].op = "mark" => k = Len(s)
    /\ s[k].op \in {"chunk", "write", "record", "copy"} => s[k].i \in Chunks

\* The attachment is to be marked.
Marks(s) == \E k \in 1..Len(s) : s[k].op = "mark"

\* What is to be marked is listed, or will be next.
MarksListed(s, l) ==
  \A k \in 1..Len(s) : s[k].op = "mark" =>
    s[k].a \in l \/ (s[1].op = "list" /\ s[1].a = s[k].a)

\* Every chunk is received or in the list.
Covers(s, r) ==
  \A i \in Chunks :
    i \in r \/ \E k \in 1..Len(s) : s[k].op \in {"chunk", "write", "record"} /\ s[k].i = i

Asking == {"list", "has", "register", "missing"}

\* Until the content is stored, an upload that is to be confirmed has not
\* asked yet, or sends what is missing.
MarksCovered(s, r, st) == Marks(s) /\ st = NoFile => In(s, Asking) \/ Covers(s, r)

\* What is cleaned up before a confirmation was promoted.
MarksPromoted(s, st) ==
  Marks(s) => \A k \in 1..Len(s) : s[k].op \in {"clean", "unregister"} =>
    st # NoFile \/ \E j \in 1..(k - 1) : s[j].op = "promote"

ListOK(s, l, r, g, st) ==
  /\ ChainOK(s)
  /\ MarksListed(s, l) /\ MarksCovered(s, r, st) /\ MarksPromoted(s, st)
  /\ In(s, {"record"}) => g[Head(s).i] # "none"
  /\ In(s, {"create", "copy"}) => Chunks \subseteq r

\* From the last chunk's row to the end of the clean-up.
Finishing ==
  {"complete", "create", "copy", "verify", "promote", "clean", "unregister"}

ConfirmInv ==
  /\ staged = [i \in Chunks |-> staged[i]]
  /\ SyncedIsStored
  /\ stored = NoFile /\ Chunks \subseteq received
       => \E p \in Cycles : In(todo[p], Finishing)
  /\ \A i \in Chunks : i \in received =>
       staged[i] # "none" \/ \E p \in Cycles : In(todo[p], {"unregister"})
  /\ \A p \in Cycles : ListOK(todo[p], listed, received, staged, stored)

LEMMA EmptyOK ==
  \A l, r, g, st : ListOK(<<>>, l, r, g, st)
BY DEF ListOK, ChainOK, MarksListed, MarksCovered, MarksPromoted, Marks, In

\* The order is kept when other statements take the place of the first.
LEMMA ChainReplaced ==
  ASSUME NEW s, Sequential(s), s # <<>>, NEW n, Sequential(n),
         ChainOK(s), ChainOK(n), NoneOf(n, {"mark"}),
         n = <<>> \/ Head(s).op \notin {"write", "copy"}
  PROVE  ChainOK(n \o Tail(s))
<1> DEFINE t == n \o Tail(s)
           m == Len(n)
<1>1. /\ Len(s) \in Nat \ {0} /\ m \in Nat /\ Head(s) = s[1]
      /\ Len(t) = m + Len(s) - 1
      /\ \A j \in 1..m : t[j] = n[j]
      /\ \A j \in (m + 1)..(m + Len(s) - 1) : t[j] = s[j - m + 1]
  BY Replaced
<1>2. n = <<>> => m = 0
  OBVIOUS
<1> HIDE DEF t, m
<1>3. SUFFICES ASSUME NEW k \in 1..Len(t)
      PROVE  /\ t[k].op = "list" => Followed(t, k, {"has"})
             /\ t[k].op = "register" => Followed(t, k, {"missing"})
             /\ t[k].op = "get" => Followed(t, k, {"write"})
             /\ t[k].op = "write" => Followed(t, k, {"record"}) /\ t[k + 1].i = t[k].i
             /\ t[k].op = "record" => Followed(t, k, {"complete"}) /\ Preceded(t, k, "write")
             /\ t[k].op = "create" => k = 1
             /\ t[k].op = "copy" => Followed(t, k, {"copy", "verify"}) /\ Preceded(t, k, "copy")
             /\ t[k].op = "verify" => Followed(t, k, {"promote"})
             /\ t[k].op = "promote" => Followed(t, k, {"clean"})
             /\ t[k].op = "clean" => Followed(t, k, {"unregister"})
             /\ t[k].op = "mark" => k = Len(t)
             /\ t[k].op \in {"chunk", "write", "record", "copy"} => t[k].i \in Chunks
  BY DEF ChainOK, t
<1>4. CASE k \in 1..m
  <2>1. t[k] = n[k] /\ k \in 1..Len(n) /\ t[k].op # "mark"
    BY <1>1, <1>4 DEF NoneOf, m
  <2>2. \A ops : Followed(n, k, ops) => Followed(t, k, ops) /\ t[k + 1] = n[k + 1]
    BY <1>1, <1>4 DEF Followed, m
  <2>3. \A op : Preceded(n, k, op) => Preceded(t, k, op)
    <3>1. k = 1 \/ k - 1 \in 1..m
      BY <1>1, <1>4
    <3> QED
      BY <1>1, <3>1 DEF Preceded
  <2> QED
    BY <2>1, <2>2, <2>3 DEF ChainOK
<1>5. CASE k \in (m + 1)..(m + Len(s) - 1)
  <2> DEFINE h == k - m + 1
  <2>1. h \in 2..Len(s) /\ h \in 1..Len(s) /\ t[k] = s[h] /\ (h = Len(s) <=> k = Len(t))
    BY <1>1, <1>5
  <2>2. \A ops : Followed(s, h, ops) => Followed(t, k, ops) /\ t[k + 1] = s[h + 1]
    <3>1. SUFFICES ASSUME h < Len(s) PROVE k < Len(t) /\ t[k + 1] = s[h + 1]
      BY DEF Followed
    <3>2. k + 1 \in (m + 1)..(m + Len(s) - 1) /\ (k + 1) - m + 1 = h + 1
      BY <1>1, <1>5, <3>1
    <3>3. t[k + 1] = s[(k + 1) - m + 1]
      BY <1>1, <3>2
    <3> QED
      BY <1>1, <1>5, <3>1, <3>2, <3>3
  <2>3. h # 1
    BY <2>1
  <2>4. \A op : op \in {"write", "copy"} /\ Preceded(s, h, op) => Preceded(t, k, op)
    <3>1. CASE k = m + 1
      <4>1. h - 1 = 1
        BY <1>1, <3>1
      <4>2. ASSUME NEW op \in {"write", "copy"}, s[h - 1].op = op PROVE k = 1
        BY <1>1, <1>2, <3>1, <4>1, <4>2
      <4> QED
        BY <2>3, <4>2 DEF Preceded
    <3>2. CASE k # m + 1
      <4>1. k - 1 \in (m + 1)..(m + Len(s) - 1) /\ (k - 1) - m + 1 = h - 1
        BY <1>1, <1>5, <3>2
      <4>2. t[k - 1] = s[h - 1]
        BY <1>1, <4>1
      <4> QED
        BY <2>3, <4>2 DEF Preceded
    <3> QED
      BY <3>1, <3>2
  <2> HIDE DEF h
  <2> QED
    BY <2>1, <2>2, <2>3, <2>4 DEF ChainOK
<1> QED
  BY <1>1, <1>4, <1>5

\* What is to be marked is marked after other statements, too.
LEMMA MarksReplaced ==
  ASSUME NEW s, Sequential(s), s # <<>>, NEW n, Sequential(n), NoneOf(n, {"mark"}),
         NEW l, NEW l2, MarksListed(s, l), l \subseteq l2,
         Head(s).op # "list" \/ Head(s).a \in l2
  PROVE  /\ Marks(n \o Tail(s)) => Marks(s)
         /\ MarksListed(n \o Tail(s), l2)
<1> DEFINE t == n \o Tail(s)
           m == Len(n)
<1>1. /\ Len(s) \in Nat \ {0} /\ m \in Nat /\ Head(s) = s[1]
      /\ Len(t) = m + Len(s) - 1
      /\ \A j \in 1..m : t[j] = n[j]
      /\ \A j \in (m + 1)..(m + Len(s) - 1) : t[j] = s[j - m + 1]
  BY Replaced
<1> HIDE DEF t
<1>2. ASSUME NEW k \in 1..Len(t), t[k].op = "mark"
      PROVE  k - m + 1 \in 1..Len(s) /\ t[k] = s[k - m + 1]
  <2>1. k \notin 1..m
    BY <1>1, <1>2 DEF NoneOf
  <2>2. k \in (m + 1)..(m + Len(s) - 1)
    BY <1>1, <2>1
  <2> QED
    BY <1>1, <2>2
<1>3. Marks(t) => Marks(s)
  BY <1>2 DEF Marks
<1>4. MarksListed(t, l2)
  <2>1. ASSUME NEW k \in 1..Len(t), t[k].op = "mark" PROVE t[k].a \in l2
    <3>1. t[k].a \in l \/ (s[1].op = "list" /\ s[1].a = t[k].a)
      BY <1>2, <2>1 DEF MarksListed
    <3> QED
      BY <1>1, <3>1
  <2> QED
    BY <2>1 DEF MarksListed
<1> QED
  BY <1>3, <1>4 DEF t

\* A list that cleans up only after it has promoted.
PromotesFirst(n) ==
  \A k \in 1..Len(n) : n[k].op \in {"clean", "unregister"} =>
    \E j \in 1..(k - 1) : n[j].op = "promote"

LEMMA PromotedReplaced ==
  ASSUME NEW s, Sequential(s), s # <<>>, NEW n, Sequential(n), NoneOf(n, {"mark"}),
         NEW st, NEW st2, MarksPromoted(s, st), PromotesFirst(n),
         st # NoFile => st2 # NoFile, Head(s).op # "promote" \/ st2 # NoFile,
         Marks(n \o Tail(s)) => Marks(s)
  PROVE  MarksPromoted(n \o Tail(s), st2)
<1> DEFINE t == n \o Tail(s)
           m == Len(n)
<1>1. /\ Len(s) \in Nat \ {0} /\ m \in Nat /\ Head(s) = s[1]
      /\ Len(t) = m + Len(s) - 1
      /\ \A j \in 1..m : t[j] = n[j]
      /\ \A j \in (m + 1)..(m + Len(s) - 1) : t[j] = s[j - m + 1]
  BY Replaced
<1>2. Marks(t) => Marks(s)
  OBVIOUS
<1> HIDE DEF t
<1>3. SUFFICES ASSUME Marks(t), NEW k \in 1..Len(t), t[k].op \in {"clean", "unregister"},
                      st2 = NoFile
               PROVE  \E j \in 1..(k - 1) : t[j].op = "promote"
  BY DEF MarksPromoted, t
<1>4. CASE k \in 1..m
  <2>1. PICK j \in 1..(k - 1) : n[j].op = "promote"
    BY <1>1, <1>3, <1>4 DEF PromotesFirst
  <2>2. t[j] = n[j]
    BY <1>1, <1>4
  <2> QED
    BY <2>1, <2>2
<1>5. CASE k \in (m + 1)..(m + Len(s) - 1)
  <2>1. k - m + 1 \in 1..Len(s) /\ s[k - m + 1].op \in {"clean", "unregister"}
    BY <1>1, <1>3, <1>5
  <2>2. PICK j \in 1..(k - m + 1 - 1) : s[j].op = "promote"
    BY <1>2, <1>3, <2>1 DEF MarksPromoted
  <2>3. j # 1
    BY <1>1, <1>3, <2>2
  <2>4. j + m - 1 \in (m + 1)..(m + Len(s) - 1) /\ j + m - 1 \in 1..(k - 1)
        /\ (j + m - 1) - m + 1 = j
    BY <1>1, <1>5, <2>2, <2>3
  <2>5. t[j + m - 1] = s[j]
    BY <1>1, <2>4
  <2> QED
    BY <2>2, <2>4, <2>5
<1> QED
  BY <1>1, <1>4, <1>5

\* What a list covers is still covered when its first statement was
\* executed, or others have taken its place.
LEMMA CoversReplaced ==
  ASSUME NEW s, Sequential(s), s # <<>>, NEW n, Sequential(n),
         NEW r, NEW r2, Covers(s, r), r \subseteq r2,
         \/ Head(s).op \notin {"chunk", "write", "record"}
         \/ Head(s).i \in r2
         \/ \E k \in 1..Len(n \o Tail(s)) :
              /\ (n \o Tail(s))[k].op \in {"chunk", "write", "record"}
              /\ (n \o Tail(s))[k].i = Head(s).i
  PROVE  Covers(n \o Tail(s), r2)
<1> DEFINE t == n \o Tail(s)
           m == Len(n)
<1>1. /\ Len(s) \in Nat \ {0} /\ m \in Nat /\ Head(s) = s[1]
      /\ Len(t) = m + Len(s) - 1
      /\ \A j \in (m + 1)..(m + Len(s) - 1) : t[j] = s[j - m + 1]
  BY Replaced
<1>2. \/ Head(s).op \notin {"chunk", "write", "record"}
      \/ Head(s).i \in r2
      \/ \E k \in 1..Len(t) : t[k].op \in {"chunk", "write", "record"} /\ t[k].i = Head(s).i
  OBVIOUS
<1> HIDE DEF t
<1>3. ASSUME NEW i \in Chunks, i \notin r2
      PROVE  \E k \in 1..Len(t) : t[k].op \in {"chunk", "write", "record"} /\ t[k].i = i
  <2>1. PICK j \in 1..Len(s) : s[j].op \in {"chunk", "write", "record"} /\ s[j].i = i
    BY <1>3 DEF Covers
  <2>2. CASE j = 1
    BY <1>1, <1>2, <1>3, <2>1, <2>2
  <2>3. CASE j # 1
    <3>1. j + m - 1 \in (m + 1)..(m + Len(s) - 1) /\ j + m - 1 \in 1..Len(t)
          /\ (j + m - 1) - m + 1 = j
      BY <1>1, <2>1, <2>3
    <3>2. t[j + m - 1] = s[j]
      BY <1>1, <3>1
    <3> QED
      BY <2>1, <3>1, <3>2
  <2> QED
    BY <2>2, <2>3
<1>4. Covers(t, r2)
  BY <1>3 DEF Covers
<1> QED
  BY <1>4 DEF t

\* Where a process is in an upload, no other is.
LEMMA Alone ==
  ASSUME ListsInv, ConfirmInv, OneUpload, NEW p \in Cycles, todo[p] # <<>>
  PROVE  /\ \A q \in Cycles : q # p => todo[q] = <<>>
         /\ Sequential(todo[p])
         /\ ListOK(todo[p], listed, received, staged, stored)
         /\ stored = NoFile /\ Chunks \subseteq received => In(todo[p], Finishing)
         /\ \A i \in Chunks : i \in received =>
              staged[i] # "none" \/ In(todo[p], {"unregister"})
<1>1. \A q \in Cycles : q # p => todo[q] = <<>>
  BY DEF OneUpload
<1>2. ASSUME NEW q \in Cycles, NEW ops, In(todo[q], ops) PROVE q = p
  BY <1>1, <1>2 DEF In
<1> QED
  BY <1>1, <1>2 DEF ListsInv, ConfirmInv

\* ... and its list decides.
LEMMA OwnConfirm ==
  ASSUME ListsInv, OneUpload, NEW p \in Cycles, todo[p] # <<>>,
         NEW t, todo' = [todo EXCEPT ![p] = t],
         staged' = [i \in Chunks |-> staged'[i]], SyncedIsStored',
         stored' = NoFile /\ Chunks \subseteq received' => In(t, Finishing),
         \A i \in Chunks : i \in received' => staged'[i] # "none" \/ In(t, {"unregister"}),
         ListOK(t, listed', received', staged', stored')
  PROVE  ConfirmInv'
<1>1. /\ todo'[p] = t /\ \A q \in Cycles : q # p => todo'[q] = <<>>
  BY DEF ListsInv, OneUpload
<1>2. \A q \in Cycles : ListOK(todo'[q], listed', received', staged', stored')
  BY <1>1, EmptyOK
<1>3. stored' = NoFile /\ Chunks \subseteq received' => \E q \in Cycles : In(todo'[q], Finishing)
  BY <1>1
<1>4. \A i \in Chunks : i \in received' =>
        staged'[i] # "none" \/ \E q \in Cycles : In(todo'[q], {"unregister"})
  BY <1>1
<1> QED
  BY <1>2, <1>3, <1>4 DEF ConfirmInv, Chunks

\* A step before the last chunk's row, which leaves what is received,
\* staged and stored.
LEMMA CalmConfirm ==
  ASSUME ListsInv, ConfirmInv, OneUpload, NEW p \in Cycles, todo[p] # <<>>,
         ~In(todo[p], Finishing),
         NEW t, todo' = [todo EXCEPT ![p] = t],
         UNCHANGED <<received, staged, stored>>, SyncedIsStored',
         ListOK(t, listed', received, staged, stored)
  PROVE  ConfirmInv'
<1>1. ~(stored = NoFile /\ Chunks \subseteq received)
  BY Alone
<1>2. ~In(todo[p], {"unregister"})
  BY DEF In, Finishing
<1>3. \A i \in Chunks : i \in received => staged[i] # "none"
  BY <1>2, Alone
<1>4. staged = [i \in Chunks |-> staged[i]]
  BY DEF ConfirmInv
<1> QED
  BY <1>1, <1>3, <1>4, OwnConfirm

\* The first statement was executed, and what came second is first.
LEMMA Second ==
  ASSUME NEW s, Sequential(s), s # <<>>, ChainOK(s)
  PROVE  LET t == <<>> \o Tail(s) IN
         /\ t # <<>> => Len(s) >= 2 /\ Head(t) = s[2] /\ t[1] = s[2] /\ Len(t) >= 1
         /\ Len(s) >= 2 => t # <<>>
         /\ In(t, {"record"}) => Head(s).op = "write"
         /\ In(t, {"copy"}) => Head(s).op = "copy"
         /\ ~In(t, {"create"})
         /\ \A ops : Followed(s, 1, ops) => In(t, ops)
<1> DEFINE t == <<>> \o Tail(s)
<1>0. Sequential(<<>>)
  BY Sequences
<1>1. /\ Sequential(t) /\ Len(s) \in Nat \ {0} /\ Head(s) = s[1]
      /\ Len(t) = Len(<<>>) + Len(s) - 1
      /\ \A j \in (Len(<<>>) + 1)..(Len(<<>>) + Len(s) - 1) : t[j] = s[j - Len(<<>>) + 1]
  <2>1. Sequential(t) /\ Len(s) \in Nat \ {0} /\ Head(s) = s[1]
    BY <1>0, Replaced
  <2>2. Len(t) = Len(<<>>) + Len(s) - 1
    BY <1>0, Replaced
  <2>3. \A j \in (Len(<<>>) + 1)..(Len(<<>>) + Len(s) - 1) : t[j] = s[j - Len(<<>>) + 1]
    BY <1>0, Replaced
  <2> QED
    BY <2>1, <2>2, <2>3
<1>2. Len(t) = Len(s) - 1 /\ \A j \in 1..Len(t) : t[j] = s[j + 1]
  BY <1>1
<1>3. t # <<>> => Head(t) = t[1] /\ Len(t) \in Nat \ {0}
  BY <1>1, Replaced
<1> HIDE DEF t
<1>4. t # <<>> => Len(s) >= 2 /\ Head(t) = s[2] /\ t[1] = s[2] /\ Len(t) >= 1
  BY <1>1, <1>2, <1>3
<1>5. Len(s) >= 2 => t # <<>>
  BY <1>1, <1>2
<1>6. t # <<>> => 2 \in 1..Len(s)
  BY <1>1, <1>4
<1>7. ASSUME t # <<>>
      PROVE  /\ s[2].op = "record" => s[1].op = "write"
             /\ s[2].op = "copy" => s[1].op = "copy"
             /\ s[2].op # "create"
  BY <1>6, <1>7 DEF ChainOK, Preceded
<1>8. \A ops : Followed(s, 1, ops) => In(t, ops)
  BY <1>1, <1>4, <1>5 DEF Followed, In
<1> QED
  BY <1>1, <1>4, <1>5, <1>7, <1>8 DEF t, In

\* The statements the handlers put in a statement's place.
LEMMA NewLists ==
  /\ ChainOK(<<>>) /\ NoneOf(<<>>, {"mark"}) /\ PromotesFirst(<<>>)
  /\ LET n == <<stmt("register"), stmt("missing")>>
     IN ChainOK(n) /\ NoneOf(n, {"mark"}) /\ PromotesFirst(n) /\ n # <<>> /\ n[1].op = "register"
  /\ LET n == <<stmt("create")>>
     IN ChainOK(n) /\ NoneOf(n, {"mark"}) /\ PromotesFirst(n) /\ n # <<>> /\ n[1].op = "create"
  /\ ChainOK(Rejected) /\ ~Marks(Rejected) /\ Rejected # <<>> /\ Head(Rejected).op = "clean"
<1>1. \A op : stmt(op).op = op
  BY DEF stmt
<1>2. ChainOK(<<>>) /\ NoneOf(<<>>, {"mark"}) /\ PromotesFirst(<<>>)
  BY DEF ChainOK, NoneOf, PromotesFirst
<1>3. LET n == <<stmt("register"), stmt("missing")>>
      IN ChainOK(n) /\ NoneOf(n, {"mark"}) /\ PromotesFirst(n) /\ n # <<>> /\ n[1].op = "register"
  <2> DEFINE n == <<stmt("register"), stmt("missing")>>
  <2>1. /\ Len(n) = 2 /\ n[1].op = "register" /\ n[2].op = "missing" /\ n # <<>>
        /\ \A k \in 1..Len(n) : k = 1 \/ k = 2
    BY <1>1
  <2> HIDE DEF n
  <2>2. ChainOK(n)
    BY <2>1 DEF ChainOK, Followed
  <2>3. NoneOf(n, {"mark"}) /\ PromotesFirst(n)
    BY <2>1 DEF NoneOf, PromotesFirst
  <2> QED
    BY <2>1, <2>2, <2>3 DEF n
<1>4. LET n == <<stmt("create")>>
      IN ChainOK(n) /\ NoneOf(n, {"mark"}) /\ PromotesFirst(n) /\ n # <<>> /\ n[1].op = "create"
  <2> DEFINE n == <<stmt("create")>>
  <2>1. /\ Len(n) = 1 /\ n[1].op = "create" /\ n # <<>>
        /\ \A k \in 1..Len(n) : k = 1
    BY <1>1
  <2> HIDE DEF n
  <2>2. ChainOK(n)
    BY <2>1 DEF ChainOK, Followed
  <2>3. NoneOf(n, {"mark"}) /\ PromotesFirst(n)
    BY <2>1 DEF NoneOf, PromotesFirst
  <2> QED
    BY <2>1, <2>2, <2>3 DEF n
<1>5. ChainOK(Rejected) /\ ~Marks(Rejected) /\ Rejected # <<>> /\ Head(Rejected).op = "clean"
  <2> DEFINE n == Rejected
  <2>1. /\ Len(n) = 2 /\ n[1].op = "clean" /\ n[2].op = "unregister" /\ n # <<>>
        /\ Head(n) = n[1]
        /\ \A k \in 1..Len(n) : k = 1 \/ k = 2
    BY <1>1 DEF Rejected
  <2> HIDE DEF n
  <2>2. ChainOK(n)
    BY <2>1 DEF ChainOK, Followed
  <2>3. ~Marks(n)
    BY <2>1 DEF Marks
  <2> QED
    BY <2>1, <2>2, <2>3 DEF n
<1> QED
  BY <1>2, <1>3, <1>4, <1>5

LEMMA ChunkList ==
  ASSUME NEW i \in Chunks
  PROVE  LET n == <<stmt("get"), [op |-> "write", i |-> i],
                    [op |-> "record", i |-> i], stmt("complete")>>
         IN /\ ChainOK(n) /\ NoneOf(n, {"mark"}) /\ PromotesFirst(n)
            /\ n # <<>> /\ Len(n) = 4 /\ n[1].op = "get" /\ n[2].op = "write" /\ n[2].i = i
<1> DEFINE n == <<stmt("get"), [op |-> "write", i |-> i],
                  [op |-> "record", i |-> i], stmt("complete")>>
<1>1. /\ Len(n) = 4 /\ n # <<>>
      /\ n[1].op = "get" /\ n[2].op = "write" /\ n[3].op = "record" /\ n[4].op = "complete"
      /\ n[2].i = i /\ n[3].i = i
      /\ \A k \in 1..Len(n) : k = 1 \/ k = 2 \/ k = 3 \/ k = 4
  BY DEF stmt
<1> HIDE DEF n
<1>2. Followed(n, 1, {"write"}) /\ Followed(n, 2, {"record"}) /\ Followed(n, 3, {"complete"})
      /\ Preceded(n, 3, "write") /\ n[2 + 1].i = n[2].i
  BY <1>1 DEF Followed, Preceded
<1>3. ChainOK(n)
  BY <1>1, <1>2 DEF ChainOK
<1>4. NoneOf(n, {"mark"}) /\ PromotesFirst(n)
  BY <1>1 DEF NoneOf, PromotesFirst
<1> QED
  BY <1>1, <1>3, <1>4 DEF n

LEMMA AssemblyChain ==
  ASSUME NEW f
  PROVE  ChainOK(Assembly(f)) /\ NoneOf(Assembly(f), {"mark"}) /\ PromotesFirst(Assembly(f))
<1> DEFINE a == Assembly(f)
<1>1. /\ Len(a) = ChunkCount + 4 /\ ChunkCount \in Nat
      /\ \A k \in 1..ChunkCount : a[k].op = "copy" /\ a[k].i = k - 1
      /\ a[ChunkCount + 1].op = "verify" /\ a[ChunkCount + 2].op = "promote"
      /\ a[ChunkCount + 3].op = "clean" /\ a[ChunkCount + 4].op = "unregister"
  BY AssemblyListed
<1> HIDE DEF a
<1>2. \A k \in 1..Len(a) :
        \/ k \in 1..ChunkCount \/ k = ChunkCount + 1 \/ k = ChunkCount + 2
        \/ k = ChunkCount + 3 \/ k = ChunkCount + 4
  BY <1>1
<1>3. ASSUME NEW k \in 1..ChunkCount
      PROVE  /\ Followed(a, k, {"copy", "verify"}) /\ Preceded(a, k, "copy")
             /\ a[k].i \in Chunks
  <2>1. k + 1 \in 1..ChunkCount \/ k + 1 = ChunkCount + 1
    BY <1>1
  <2>2. k = 1 \/ k - 1 \in 1..ChunkCount
    BY <1>1
  <2>3. k - 1 \in Chunks
    BY <1>1 DEF Chunks
  <2> QED
    BY <1>1, <2>1, <2>2, <2>3 DEF Followed, Preceded
<1>4. /\ Followed(a, ChunkCount + 1, {"promote"}) /\ Followed(a, ChunkCount + 2, {"clean"})
      /\ Followed(a, ChunkCount + 3, {"unregister"})
  BY <1>1 DEF Followed
<1>5. ChainOK(a)
  <2> SUFFICES ASSUME NEW k \in 1..Len(a)
      PROVE  /\ a[k].op \in {"copy", "verify", "promote", "clean", "unregister"}
             /\ a[k].op = "copy" => Followed(a, k, {"copy", "verify"}) /\ Preceded(a, k, "copy")
                                    /\ a[k].i \in Chunks
             /\ a[k].op = "verify" => Followed(a, k, {"promote"})
             /\ a[k].op = "promote" => Followed(a, k, {"clean"})
             /\ a[k].op = "clean" => Followed(a, k, {"unregister"})
    BY DEF ChainOK
  <2>1. CASE k \in 1..ChunkCount
    BY <1>1, <1>3, <2>1
  <2>2. CASE k = ChunkCount + 1
    BY <1>1, <1>4, <2>2
  <2>3. CASE k = ChunkCount + 2
    BY <1>1, <1>4, <2>3
  <2>4. CASE k = ChunkCount + 3
    BY <1>1, <1>4, <2>4
  <2>5. CASE k = ChunkCount + 4
    BY <1>1, <2>5
  <2> QED
    BY <1>2, <2>1, <2>2, <2>3, <2>4, <2>5
<1>6. NoneOf(a, {"mark"})
  BY <1>1, <1>2 DEF NoneOf
<1>7. PromotesFirst(a)
  <2>1. ASSUME NEW k \in 1..Len(a), a[k].op \in {"clean", "unregister"}
        PROVE  ChunkCount + 2 \in 1..(k - 1)
    BY <1>1, <1>2, <2>1
  <2> QED
    BY <1>1, <2>1 DEF PromotesFirst
<1> QED
  BY <1>5, <1>6, <1>7 DEF a

\* An ascending list leaves out no member: it is one to one.
LEMMA AscendingIsOnto ==
  ASSUME NEW S \in SUBSET Nat, IsFiniteSet(S), NEW o \in Ascending(S)
  PROVE  \A i \in S : \E k \in 1..Cardinality(S) : o[k] = i
<1> DEFINE c == Cardinality(S)
<1>1. c \in Nat /\ o \in [1..c -> S]
      /\ \A j, k \in 1..c : j < k => o[j] < o[k]
  BY FS_CardinalityType DEF Ascending
<1>2. o \in Injection(1..c, S)
  <2>1. ASSUME NEW j \in 1..c, NEW k \in 1..c, o[j] = o[k] PROVE j = k
    <3>1. o[j] \in Nat /\ o[k] \in Nat
      BY <1>1
    <3>2. ~(j < k) /\ ~(k < j)
      BY <1>1, <2>1, <3>1
    <3> QED
      BY <1>1, <3>2
  <2>2. IsInjective(o)
    BY <1>1, <2>1 DEF IsInjective
  <2> QED
    BY <1>1, <2>2 DEF Injection
<1>3. IsFiniteSet(1..c) /\ Cardinality(1..c) = c
  BY <1>1, FS_Interval
<1>4. o \in Surjection(1..c, S)
  BY <1>2, <1>3, FS_Injection
<1> QED
  BY <1>4 DEF Surjection

\* What is synced stays stored and listed.
LEMMA SyncedKept ==
  ASSUME ConfirmInv, UNCHANGED rows, listed \subseteq listed',
         stored # NoFile => stored' # NoFile
  PROVE  SyncedIsStored'
BY DEF ConfirmInv, SyncedIsStored

\* Statements that neither write or record a chunk nor assemble the file.
LEMMA CalmStep ==
  ASSUME ListsInv, ConfirmInv, OneUpload, NEW p \in Cycles, todo[p] # <<>>,
         Head(todo[p]).op \notin Finishing \cup {"write", "record"},
         NEW n, Sequential(n), ChainOK(n), NoneOf(n, {"mark"}), PromotesFirst(n),
         n # <<>> => n[1].op \notin {"record", "create", "copy"},
         Then(p, n), UNCHANGED <<rows, received, staged, stored>>,
         listed \subseteq listed', Head(todo[p]).op # "list" \/ Head(todo[p]).a \in listed',
         MarksCovered(n \o Tail(todo[p]), received, stored)
  PROVE  ConfirmInv'
<1> DEFINE s == todo[p]
           t == n \o Tail(s)
<1>1. todo' = [todo EXCEPT ![p] = t] /\ Sequential(s) /\ s # <<>>
      /\ ListOK(s, listed, received, staged, stored)
  BY Alone DEF Then
<1>2. Head(s).op \notin {"write", "copy", "promote"}
  BY DEF Finishing
<1>3. /\ ChainOK(t) /\ MarksListed(t, listed') /\ MarksPromoted(t, stored)
  <2>1. Head(s).op \notin {"write", "copy"} /\ Head(s).op # "promote"
    BY <1>2
  <2>2. PICK l2 : l2 = listed'
    OBVIOUS
  <2>3. listed \subseteq l2 /\ (Head(s).op # "list" \/ Head(s).a \in l2)
    BY <2>2
  <2>4. /\ ChainOK(s) /\ MarksListed(s, listed) /\ MarksPromoted(s, stored)
        /\ Sequential(s) /\ s # <<>>
    BY <1>1 DEF ListOK
  <2>5. ChainOK(t)
    BY <2>1, <2>4, ChainReplaced
  <2>6. MarksListed(t, l2) /\ (Marks(t) => Marks(s))
    BY <2>3, <2>4, MarksReplaced
  <2>7. MarksPromoted(t, stored)
    BY <2>1, <2>4, <2>6, PromotedReplaced
  <2> QED
    BY <2>2, <2>5, <2>6, <2>7
<1>4. ~In(t, {"record", "create", "copy"})
  <2>1. CASE n # <<>>
    <3>1. Head(t) = n[1]
      BY <1>1, <2>1, HeadReplaced
    <3> QED
      BY <2>1, <3>1 DEF In
  <2>2. CASE n = <<>>
    <3>1. t = <<>> \o Tail(s) /\ ChainOK(s)
      BY <1>1, <2>2 DEF ListOK
    <3>2. ~In(t, {"record"}) /\ ~In(t, {"copy"}) /\ ~In(t, {"create"})
      BY <1>1, <1>2, <3>1, Second
    <3> QED
      BY <3>2 DEF In
  <2> QED
    BY <2>1, <2>2
<1>5. ~In(t, {"record"}) /\ ~In(t, {"create", "copy"})
  BY <1>4 DEF In
<1>6. ListOK(t, listed', received, staged, stored)
  BY <1>3, <1>5 DEF ListOK
<1>7. ~In(s, Finishing)
  BY DEF In
<1>8. SyncedIsStored'
  BY SyncedKept
<1> HIDE DEF t
<1> QED
  BY <1>1, <1>6, <1>7, <1>8, CalmConfirm

LEMMA QueryConfirm ==
  ASSUME ListsInv, ConfirmInv, OneUpload, NEW p \in Cycles,
         \/ UpsertReportAttachment(p) \/ AlreadyComplete(p)
         \/ GetOrCreateAttachmentUpload(p) \/ MissingChunkIndices(p)
  PROVE  ConfirmInv'
<1> DEFINE s == todo[p]
<1>1. s # <<>> /\ UNCHANGED <<rows, received, staged, stored>>
  BY DEF UpsertReportAttachment, AlreadyComplete, GetOrCreateAttachmentUpload,
         MissingChunkIndices, Stmts, upload, files
<1>2. Sequential(s) /\ ListOK(s, listed, received, staged, stored) /\ ChainOK(s)
      /\ Head(s) = s[1] /\ 1 \in 1..Len(s)
  BY <1>1, Alone, Sequences, Replaced DEF ListOK
<1>3. Sequential(<<>>) /\ ChainOK(<<>>) /\ NoneOf(<<>>, {"mark"}) /\ PromotesFirst(<<>>)
  BY NewLists, Sequences
<1>4. ASSUME UpsertReportAttachment(p) PROVE ConfirmInv'
  <2>1. Head(s).op = "list" /\ listed' = listed \cup {Head(s).a} /\ Then(p, <<>>)
    BY <1>4 DEF UpsertReportAttachment, Stmts
  <2>2. Followed(s, 1, {"has"})
    BY <1>2, <2>1 DEF ChainOK
  <2>3. In(<<>> \o Tail(s), {"has"})
    BY <1>1, <1>2, <2>2, Second
  <2>4. MarksCovered(<<>> \o Tail(s), received, stored)
    BY <2>3 DEF MarksCovered, In, Asking
  <2>5. Head(s).op \notin Finishing \cup {"write", "record"} /\ Head(s).a \in listed'
        /\ listed \subseteq listed'
    BY <2>1 DEF Finishing
  <2> QED
    BY <1>1, <1>3, <2>1, <2>4, <2>5, CalmStep
<1>5. ASSUME AlreadyComplete(p) PROVE ConfirmInv'
  <2>1. Head(s).op = "has" /\ UNCHANGED listed
    BY <1>5 DEF AlreadyComplete, Stmts
  <2>2. Head(s).op \notin Finishing \cup {"write", "record", "list"} /\ listed \subseteq listed'
    BY <2>1 DEF Finishing
  <2>3. CASE stored # NoFile
    <3>1. Then(p, <<>>)
      BY <1>5, <2>3 DEF AlreadyComplete
    <3>2. MarksCovered(<<>> \o Tail(s), received, stored)
      BY <2>3 DEF MarksCovered
    <3> QED
      BY <1>1, <1>3, <2>2, <3>1, <3>2, CalmStep
  <2>4. CASE stored = NoFile
    <3> DEFINE n == <<stmt("register"), stmt("missing")>>
    <3>1. Then(p, n)
      BY <1>5, <2>4 DEF AlreadyComplete
    <3>2. Sequential(n) /\ ChainOK(n) /\ NoneOf(n, {"mark"}) /\ PromotesFirst(n)
          /\ n # <<>> /\ n[1].op = "register"
      BY NewLists, HandlerLists
    <3> HIDE DEF n
    <3>3. In(n \o Tail(s), {"register"})
      BY <1>1, <1>2, <3>2, HeadReplaced DEF In
    <3>4. MarksCovered(n \o Tail(s), received, stored)
      BY <3>3 DEF MarksCovered, In, Asking
    <3> QED
      BY <1>1, <2>2, <3>1, <3>2, <3>4, CalmStep
  <2> QED
    BY <2>3, <2>4
<1>6. ASSUME GetOrCreateAttachmentUpload(p) PROVE ConfirmInv'
  <2>1. Head(s).op = "register" /\ UNCHANGED listed /\ Then(p, <<>>)
    BY <1>6 DEF GetOrCreateAttachmentUpload, Stmts
  <2>2. Followed(s, 1, {"missing"})
    BY <1>2, <2>1 DEF ChainOK
  <2>3. In(<<>> \o Tail(s), {"missing"})
    BY <1>1, <1>2, <2>2, Second
  <2>4. MarksCovered(<<>> \o Tail(s), received, stored)
    BY <2>3 DEF MarksCovered, In, Asking
  <2>5. Head(s).op \notin Finishing \cup {"write", "record", "list"} /\ listed \subseteq listed'
    BY <2>1 DEF Finishing
  <2> QED
    BY <1>1, <1>3, <2>1, <2>4, <2>5, CalmStep
<1>7. ASSUME MissingChunkIndices(p) PROVE ConfirmInv'
  <2> DEFINE M == Chunks \ received
  <2>1. Head(s).op = "missing" /\ UNCHANGED listed
    BY <1>7 DEF MissingChunkIndices, Stmts
  <2>2. Head(s).op \notin Finishing \cup {"write", "record", "list"} /\ listed \subseteq listed'
    BY <2>1 DEF Finishing
  <2>3. PICK o \in Ascending(M) : Then(p, each("chunk", o))
    BY <1>7 DEF MissingChunkIndices
  <2> DEFINE n == each("chunk", o)
  <2>4. IsFiniteSet(M)
    BY ChunksAreFinite, FS_Subset
  <2>5. /\ Sequential(n) /\ Len(n) = Cardinality(M) /\ Cardinality(M) \in Nat
        /\ o \in [1..Cardinality(M) -> M]
        /\ \A k \in 1..Len(n) : n[k].op = "chunk" /\ n[k].i = o[k]
    <3> HIDE DEF M
    <3>1. /\ Sequential(n) /\ Len(n) = Cardinality(M) /\ Cardinality(M) \in Nat
          /\ o \in [1..Cardinality(M) -> M]
      BY <2>3, <2>4, AscendingListed
    <3>2. \A k \in 1..Len(n) : n[k].op = "chunk" /\ n[k].i = o[k]
      BY <2>3, <2>4, AscendingListed
    <3> QED
      BY <3>1, <3>2
  <2> HIDE DEF n
  <2>6. ChainOK(n) /\ NoneOf(n, {"mark"}) /\ PromotesFirst(n)
    <3>1. \A k \in 1..Len(n) : n[k].op = "chunk" /\ n[k].i \in Chunks
      BY <2>5
    <3> QED
      BY <3>1 DEF ChainOK, NoneOf, PromotesFirst
  <2>7. n # <<>> => n[1].op \notin {"record", "create", "copy"}
    <3>1. n # <<>> => 1 \in 1..Len(n)
      BY <2>5 DEF Sequential
    <3> QED
      BY <2>5, <3>1
  <2>8. \A i \in M : \E k \in 1..Cardinality(M) : o[k] = i
    <3>1. M \in SUBSET Nat
      BY ChunksAreFinite
    <3> QED
      BY <2>3, <2>4, <3>1, AscendingIsOnto
  <2>9. Covers(n \o Tail(s), received)
    <3> DEFINE t == n \o Tail(s)
    <3>1. /\ Len(n) \in Nat /\ Len(t) = Len(n) + Len(s) - 1 /\ Len(s) \in Nat \ {0}
          /\ \A j \in 1..Len(n) : t[j] = n[j]
      <4>1. Sequential(n) /\ Sequential(s) /\ s # <<>>
        BY <1>1, <1>2, <2>5
      <4>2. Len(n) \in Nat /\ Len(t) = Len(n) + Len(s) - 1 /\ Len(s) \in Nat \ {0}
        BY <4>1, Replaced
      <4>3. \A j \in 1..Len(n) : t[j] = n[j]
        BY <4>1, Replaced
      <4> QED
        BY <4>2, <4>3
    <3> HIDE DEF t
    <3>2. ASSUME NEW i \in Chunks, i \notin received
          PROVE  \E k \in 1..Len(t) : t[k].op \in {"chunk", "write", "record"} /\ t[k].i = i
      <4>1. PICK k \in 1..Cardinality(M) : o[k] = i
        BY <2>8, <3>2
      <4>2. k \in 1..Len(n) /\ k \in 1..Len(t)
        BY <2>5, <3>1, <4>1
      <4>3. t[k] = n[k] /\ n[k].op = "chunk" /\ n[k].i = i
        BY <2>5, <3>1, <4>1, <4>2
      <4> QED
        BY <4>2, <4>3
    <3>3. Covers(t, received)
      BY <3>2 DEF Covers
    <3> QED
      BY <3>3 DEF t
  <2>10. MarksCovered(n \o Tail(s), received, stored)
    BY <2>9 DEF MarksCovered
  <2>11. Then(p, n)
    BY <2>3 DEF n
  <2> QED
    BY <1>1, <2>2, <2>5, <2>6, <2>7, <2>10, <2>11, CalmStep
<1> QED
  BY <1>4, <1>5, <1>6, <1>7

\* What a list keeps when its first statement was executed.
LEMMA Passed ==
  ASSUME NEW s, Sequential(s), s # <<>>, ChainOK(s),
         NEW l, NEW st, NEW st2, MarksListed(s, l), MarksPromoted(s, st),
         Head(s).op # "list",
         st # NoFile => st2 # NoFile, Head(s).op # "promote" \/ st2 # NoFile
  PROVE  LET t == <<>> \o Tail(s) IN
         /\ ChainOK(t) /\ MarksListed(t, l) /\ MarksPromoted(t, st2)
         /\ Marks(t) => Marks(s)
<1> DEFINE t == <<>> \o Tail(s)
<1>1. Sequential(<<>>) /\ ChainOK(<<>>) /\ NoneOf(<<>>, {"mark"}) /\ PromotesFirst(<<>>)
  BY NewLists, Sequences
<1>2. ChainOK(t)
  BY <1>1, ChainReplaced
<1>3. MarksListed(t, l) /\ (Marks(t) => Marks(s))
  BY <1>1, MarksReplaced
<1>4. MarksPromoted(t, st2)
  BY <1>1, <1>3, PromotedReplaced
<1> QED
  BY <1>2, <1>3, <1>4

LEMMA ChunkConfirm ==
  ASSUME ListsInv, ConfirmInv, OneUpload, NEW p \in Cycles,
         BeginChunk(p) \/ GetAttachmentUpload(p)
  PROVE  ConfirmInv'
<1> DEFINE s == todo[p]
<1>1. s # <<>> /\ UNCHANGED <<rows, listed, received, staged, stored>>
      /\ Head(s).op \in {"chunk", "get"}
  BY DEF BeginChunk, GetAttachmentUpload, Stmts, upload, files
<1>2. Sequential(s) /\ ListOK(s, listed, received, staged, stored) /\ ChainOK(s)
      /\ Head(s) = s[1] /\ 1 \in 1..Len(s)
  BY <1>1, Alone, Sequences, Replaced DEF ListOK
<1>3. Sequential(<<>>) /\ ChainOK(<<>>) /\ NoneOf(<<>>, {"mark"}) /\ PromotesFirst(<<>>)
  BY NewLists, Sequences
<1>4. /\ Head(s).op \notin Finishing \cup {"write", "record", "list"}
      /\ listed \subseteq listed' /\ ~In(s, Asking) /\ ~In(s, Finishing)
  BY <1>1 DEF Finishing, In, Asking
<1>5. Marks(s) /\ stored = NoFile => Covers(s, received)
  BY <1>2, <1>4 DEF ListOK, MarksCovered
<1>6. ASSUME NEW n, Sequential(n), NoneOf(n, {"mark"}) PROVE Marks(n \o Tail(s)) => Marks(s)
  <2>1. MarksListed(s, listed) /\ Head(s).op # "list"
    BY <1>1, <1>2 DEF ListOK
  <2> QED
    BY <1>1, <1>2, <1>6, <2>1, MarksReplaced
<1>7. ASSUME BeginChunk(p) PROVE ConfirmInv'
  <2>1. Head(s).op = "chunk"
    BY <1>7 DEF BeginChunk, Stmts
  <2>2. CASE stored # NoFile
    <3>1. Then(p, <<>>)
      BY <1>7, <2>2 DEF BeginChunk
    <3>2. MarksCovered(<<>> \o Tail(s), received, stored)
      BY <2>2 DEF MarksCovered
    <3> QED
      BY <1>1, <1>3, <1>4, <3>1, <3>2, CalmStep
  <2>3. CASE stored = NoFile
    <3> DEFINE i == Head(s).i
               n == <<stmt("get"), [op |-> "write", i |-> i],
                      [op |-> "record", i |-> i], stmt("complete")>>
    <3>1. Then(p, n)
      BY <1>7, <2>3 DEF BeginChunk
    <3>2. i \in Chunks
      BY <1>2, <2>1 DEF ChainOK
    <3>3. Sequential(n)
      BY HandlerLists
    <3>4. /\ ChainOK(n) /\ NoneOf(n, {"mark"}) /\ PromotesFirst(n)
          /\ n # <<>> /\ Len(n) = 4 /\ n[1].op = "get" /\ n[2].op = "write" /\ n[2].i = i
      BY <3>2, ChunkList
    <3> HIDE DEF n, i
    <3>5. Len(n \o Tail(s)) = Len(n) + Len(s) - 1 /\ Len(s) \in Nat \ {0}
      BY <1>1, <1>2, <3>3, Replaced
    <3>6. \A j \in 1..Len(n) : (n \o Tail(s))[j] = n[j]
      BY <1>1, <1>2, <3>3, Replaced
    <3>7. 2 \in 1..Len(n \o Tail(s)) /\ (n \o Tail(s))[2] = n[2]
      BY <3>4, <3>5, <3>6
    <3>8. Covers(s, received) => Covers(n \o Tail(s), received)
      <4>1. \E k \in 1..Len(n \o Tail(s)) :
              /\ (n \o Tail(s))[k].op \in {"chunk", "write", "record"}
              /\ (n \o Tail(s))[k].i = Head(s).i
        BY <3>4, <3>7 DEF i
      <4> QED
        BY <1>1, <1>2, <3>3, <4>1, CoversReplaced
    <3>9. MarksCovered(n \o Tail(s), received, stored)
      BY <1>5, <1>6, <3>3, <3>4, <3>8 DEF MarksCovered
    <3> QED
      BY <1>1, <1>4, <3>1, <3>3, <3>4, <3>9, CalmStep
  <2> QED
    BY <2>2, <2>3
<1>8. ASSUME GetAttachmentUpload(p) PROVE ConfirmInv'
  <2>1. Head(s).op = "get"
    BY <1>8 DEF GetAttachmentUpload, Stmts
  <2>2. CASE registered
    <3>1. Then(p, <<>>)
      BY <1>8, <2>2 DEF GetAttachmentUpload
    <3>2. Covers(s, received) => Covers(<<>> \o Tail(s), received)
      <4>1. Head(s).op \notin {"chunk", "write", "record"}
        BY <2>1
      <4> QED
        BY <1>1, <1>2, <1>3, <4>1, CoversReplaced
    <3>3. MarksCovered(<<>> \o Tail(s), received, stored)
      BY <1>3, <1>5, <1>6, <3>2 DEF MarksCovered
    <3> QED
      BY <1>1, <1>3, <1>4, <3>1, <3>3, CalmStep
  <2>3. CASE ~registered
    <3>1. todo' = [todo EXCEPT ![p] = <<>>]
      BY <1>8, <2>3 DEF GetAttachmentUpload, Fails
    <3>2. SyncedIsStored'
      BY <1>1, <1>4, SyncedKept
    <3> QED
      BY <1>1, <1>4, <3>1, <3>2, EmptyOK, CalmConfirm
  <2> QED
    BY <2>2, <2>3
<1> QED
  BY <1>7, <1>8

\* What is staged is recorded next.
LEMMA WriteConfirm ==
  ASSUME ListsInv, ConfirmInv, OneUpload, NEW p \in Cycles, WriteChunk(p)
  PROVE  ConfirmInv'
<1> DEFINE s == todo[p]
           i == Head(s).i
           t == <<>> \o Tail(s)
<1>1. s # <<>> /\ UNCHANGED <<rows, listed, received, stored>> /\ Head(s).op = "write"
      /\ todo' = [todo EXCEPT ![p] = t]
  BY DEF WriteChunk, Stmts, upload, Then
<1>2. Sequential(s) /\ ListOK(s, listed, received, staged, stored) /\ ChainOK(s)
      /\ Head(s) = s[1] /\ 1 \in 1..Len(s)
  BY <1>1, Alone, Sequences, Replaced DEF ListOK
<1>3. PICK data \in {"good", "bad"} : staged' = [staged EXCEPT ![i] = data]
  BY DEF WriteChunk
<1>4. Followed(s, 1, {"record"}) /\ s[2].i = i /\ i \in Chunks
  BY <1>1, <1>2 DEF ChainOK
<1>5. ~In(s, Finishing) /\ ~In(s, {"unregister"}) /\ ~In(s, Asking)
  BY <1>1 DEF In, Finishing, Asking
<1>6. /\ ~(stored = NoFile /\ Chunks \subseteq received)
      /\ \A j \in Chunks : j \in received => staged[j] # "none"
  BY <1>1, <1>5, Alone
<1>7. staged' = [j \in Chunks |-> staged'[j]] /\ staged'[i] # "none"
      /\ \A j \in Chunks : staged[j] # "none" => staged'[j] # "none"
  <2>1. staged = [j \in Chunks |-> staged[j]]
    BY DEF ConfirmInv
  <2> QED
    BY <1>3, <1>4, <2>1
<1>8. MarksListed(s, listed) /\ MarksPromoted(s, stored) /\ Head(s).op # "list"
      /\ Head(s).op # "promote"
  BY <1>1, <1>2 DEF ListOK
<1>9. ChainOK(t) /\ MarksListed(t, listed) /\ MarksPromoted(t, stored)
      /\ (Marks(t) => Marks(s))
  BY <1>1, <1>2, <1>8, Passed
<1>10. In(t, {"record"}) /\ Head(t) = s[2] /\ t[1] = s[2] /\ 1 \in 1..Len(t)
  <2>1. In(t, {"record"})
    BY <1>1, <1>2, <1>4, Second
  <2>2. t # <<>>
    BY <2>1 DEF In
  <2>3. Head(t) = s[2] /\ t[1] = s[2] /\ Len(t) >= 1
    BY <1>1, <1>2, <2>2, Second
  <2>4. Len(t) \in Nat
    BY <1>1, <1>2, Sequences, Replaced
  <2> QED
    BY <2>1, <2>3, <2>4
<1>11. MarksCovered(t, received, stored)
  <2>1. Marks(s) /\ stored = NoFile => Covers(s, received)
    BY <1>2, <1>5 DEF ListOK, MarksCovered
  <2>2. t[1].op = "record" /\ t[1].i = Head(s).i
    BY <1>4, <1>10 DEF In
  <2>3. Covers(s, received) => Covers(t, received)
    <3>1. \E k \in 1..Len(<<>> \o Tail(s)) :
            /\ (<<>> \o Tail(s))[k].op \in {"chunk", "write", "record"}
            /\ (<<>> \o Tail(s))[k].i = Head(s).i
      BY <1>10, <2>2
    <3>2. Sequential(<<>>)
      BY Sequences
    <3> QED
      BY <1>1, <1>2, <3>1, <3>2, CoversReplaced
  <2> QED
    BY <1>9, <2>1, <2>3 DEF MarksCovered
<1> HIDE DEF t
<1>12. ListOK(t, listed, received, staged', stored)
  <2>1. Head(t).i = i /\ ~In(t, {"create", "copy"})
    BY <1>4, <1>10 DEF In
  <2> QED
    BY <1>7, <1>9, <1>11, <2>1 DEF ListOK
<1>13. SyncedIsStored'
  BY <1>1, SyncedKept
<1>14. /\ ListOK(t, listed', received', staged', stored')
       /\ ~(stored' = NoFile /\ Chunks \subseteq received')
       /\ \A j \in Chunks : j \in received' => staged'[j] # "none"
  BY <1>1, <1>6, <1>7, <1>12
<1> QED
  BY <1>1, <1>7, <1>13, <1>14, OwnConfirm

\* A statement from the last chunk's row on was executed.
LEMMA FinishStep ==
  ASSUME ListsInv, ConfirmInv, OneUpload, NEW p \in Cycles, todo[p] # <<>>,
         Head(todo[p]).op \in Finishing \cup {"record"}, Then(p, <<>>),
         UNCHANGED <<rows, listed>>, stored # NoFile => stored' # NoFile,
         Head(todo[p]).op # "promote" \/ stored' # NoFile,
         staged' = [i \in Chunks |-> staged'[i]],
         stored' = NoFile /\ Chunks \subseteq received' => In(<<>> \o Tail(todo[p]), Finishing),
         \A i \in Chunks : i \in received' =>
           staged'[i] # "none" \/ In(<<>> \o Tail(todo[p]), {"unregister"}),
         Head(todo[p]).op = "copy" => Chunks \subseteq received',
         MarksCovered(<<>> \o Tail(todo[p]), received', stored')
  PROVE  ConfirmInv'
<1> DEFINE s == todo[p]
           t == <<>> \o Tail(s)
<1>1. todo' = [todo EXCEPT ![p] = t] /\ Sequential(s) /\ s # <<>>
      /\ ListOK(s, listed, received, staged, stored)
  BY Alone DEF Then
<1>2. /\ ChainOK(s) /\ MarksListed(s, listed) /\ MarksPromoted(s, stored)
      /\ Head(s).op # "list" /\ Head(s).op # "write"
  BY <1>1 DEF ListOK, Finishing
<1>3. PICK st2 : st2 = stored'
  OBVIOUS
<1>4. (stored # NoFile => st2 # NoFile) /\ (Head(s).op # "promote" \/ st2 # NoFile)
  BY <1>3
<1>5. ChainOK(t) /\ MarksListed(t, listed) /\ MarksPromoted(t, st2)
  BY <1>1, <1>2, <1>4, Passed
<1>6. ~In(t, {"record"}) /\ ~In(t, {"create"}) /\ (In(t, {"copy"}) => Head(s).op = "copy")
  BY <1>1, <1>2, Second
<1>7. In(t, {"create", "copy"}) => Chunks \subseteq received'
  BY <1>6 DEF In
<1>8. MarksCovered(t, received', stored')
  OBVIOUS
<1> DEFINE A == stored' = NoFile /\ Chunks \subseteq received' => In(t, Finishing)
           B == \A i \in Chunks : i \in received' => staged'[i] # "none" \/ In(t, {"unregister"})
<1>9. A /\ B
  OBVIOUS
<1> HIDE DEF t
<1>10. ListOK(t, listed', received', staged', stored')
  BY <1>3, <1>5, <1>6, <1>7, <1>8 DEF ListOK
<1>11. SyncedIsStored'
  BY SyncedKept
<1> QED
  BY <1>1, <1>9, <1>10, <1>11, OwnConfirm

\* What a statement that is not of a chunk covers is covered by the others.
LEMMA CoveredOn ==
  ASSUME NEW s, Sequential(s), s # <<>>, ChainOK(s), NEW l, MarksListed(s, l),
         NEW r, NEW r2, NEW st, NEW st2, MarksCovered(s, r, st), r \subseteq r2,
         st2 = NoFile => st = NoFile,
         ~In(s, Asking), Head(s).op \notin {"chunk", "write", "record"} \/ Head(s).i \in r2
  PROVE  MarksCovered(<<>> \o Tail(s), r2, st2)
<1> DEFINE t == <<>> \o Tail(s)
<1>1. Sequential(<<>>) /\ NoneOf(<<>>, {"mark"})
  BY NewLists, Sequences
<1>2. Head(s).op # "list"
  BY DEF In, Asking
<1>3. Marks(t) => Marks(s)
  BY <1>1, <1>2, MarksReplaced
<1>4. Marks(s) /\ st = NoFile => Covers(s, r)
  BY DEF MarksCovered
<1>5. Covers(s, r) => Covers(t, r2)
  BY <1>1, CoversReplaced
<1> HIDE DEF t
<1>6. MarksCovered(t, r2, st2)
  BY <1>3, <1>4, <1>5 DEF MarksCovered
<1> QED
  BY <1>6 DEF t

LEMMA RecordConfirm ==
  ASSUME ListsInv, ConfirmInv, OneUpload, NEW p \in Cycles, RecordChunk(p)
  PROVE  ConfirmInv'
<1> DEFINE s == todo[p]
           i == Head(s).i
           t == <<>> \o Tail(s)
<1>1. s # <<>> /\ UNCHANGED <<rows, listed, staged, stored>> /\ Head(s).op = "record"
  BY DEF RecordChunk, Stmts, files
<1>2. Sequential(s) /\ ListOK(s, listed, received, staged, stored) /\ ChainOK(s)
      /\ Head(s) = s[1] /\ 1 \in 1..Len(s) /\ MarksListed(s, listed)
      /\ MarksCovered(s, received, stored)
  BY <1>1, Alone, Sequences, Replaced DEF ListOK
<1>3. ~In(s, Finishing) /\ ~In(s, {"unregister"}) /\ ~In(s, Asking)
  BY <1>1 DEF In, Finishing, Asking
<1>4. /\ ~(stored = NoFile /\ Chunks \subseteq received)
      /\ \A j \in Chunks : j \in received => staged[j] # "none"
  BY <1>1, <1>3, Alone
<1>5. CASE ~registered
  <2>1. todo' = [todo EXCEPT ![p] = <<>>] /\ UNCHANGED received
    BY <1>5 DEF RecordChunk, Fails
  <2>2. SyncedIsStored'
    BY <1>1, SyncedKept
  <2> QED
    BY <1>1, <1>3, <2>1, <2>2, EmptyOK, CalmConfirm
<1>6. CASE registered
  <2>1. Then(p, <<>>) /\ received' = received \cup {i}
    BY <1>6 DEF RecordChunk
  <2>2. Followed(s, 1, {"complete"})
    BY <1>1, <1>2 DEF ChainOK
  <2>3. In(t, {"complete"})
    BY <1>1, <1>2, <2>2, Second
  <2>4. In(t, Finishing)
    BY <2>3 DEF In, Finishing
  <2>5. staged[i] # "none"
    BY <1>1, <1>2 DEF ListOK, In
  <2>6. MarksCovered(t, received', stored)
    <3>1. PICK r2 : r2 = received'
      OBVIOUS
    <3>2. received \subseteq r2 /\ Head(s).i \in r2
      BY <2>1, <3>1
    <3> QED
      BY <1>1, <1>2, <1>3, <3>1, <3>2, CoveredOn
  <2>7. \A j \in Chunks : j \in received' => staged'[j] # "none"
    BY <1>1, <1>4, <2>1, <2>5
  <2>8. staged' = [j \in Chunks |-> staged'[j]]
    BY <1>1 DEF ConfirmInv, Chunks
  <2> HIDE DEF t
  <2>9. MarksCovered(t, received', stored')
    BY <1>1, <2>6
  <2> QED
    BY <1>1, <2>1, <2>4, <2>7, <2>8, <2>9, FinishStep DEF t
<1> QED
  BY <1>5, <1>6

\* What holds of an upload that assembles the file.
LEMMA Assembling ==
  ASSUME ListsInv, ConfirmInv, OneUpload, NEW p \in Cycles, todo[p] # <<>>,
         Head(todo[p]).op \in Finishing
  PROVE  LET s == todo[p] IN
         /\ Sequential(s) /\ ListOK(s, listed, received, staged, stored) /\ ChainOK(s)
         /\ MarksListed(s, listed) /\ MarksCovered(s, received, stored)
         /\ Head(s) = s[1] /\ 1 \in 1..Len(s) /\ ~In(s, Asking)
         /\ Head(s).op \notin {"chunk", "write", "record"}
         /\ Head(s).op # "unregister" =>
              \A i \in Chunks : i \in received => staged[i] # "none"
         /\ staged = [i \in Chunks |-> staged[i]]
<1> DEFINE s == todo[p]
<1>1. Sequential(s) /\ ListOK(s, listed, received, staged, stored)
      /\ \A i \in Chunks : i \in received => staged[i] # "none" \/ In(s, {"unregister"})
  BY Alone
<1>2. Head(s) = s[1] /\ 1 \in 1..Len(s)
  BY <1>1, Replaced, Sequences
<1>3. ~In(s, Asking) /\ Head(s).op \notin {"chunk", "write", "record"}
  BY DEF In, Asking, Finishing
<1>4. In(s, {"unregister"}) => Head(s).op = "unregister"
  BY DEF In
<1>5. staged = [i \in Chunks |-> staged[i]]
  BY DEF ConfirmInv
<1> QED
  BY <1>1, <1>2, <1>3, <1>4, <1>5 DEF ListOK

\* What remains covered, whatever is stored by now.
LEMMA AssemblingOn ==
  ASSUME ListsInv, ConfirmInv, OneUpload, NEW p \in Cycles, todo[p] # <<>>,
         Head(todo[p]).op \in Finishing, NEW st2, st2 = NoFile => stored = NoFile
  PROVE  MarksCovered(<<>> \o Tail(todo[p]), received, st2)
BY Assembling, CoveredOn

LEMMA CompleteConfirm ==
  ASSUME ListsInv, ConfirmInv, OneUpload, NEW p \in Cycles, CheckComplete(p)
  PROVE  ConfirmInv'
<1> DEFINE s == todo[p]
<1>1. s # <<>> /\ Head(s).op = "complete"
      /\ UNCHANGED <<rows, listed, received, staged, stored>>
  BY DEF CheckComplete, Stmts, upload, files
<1>2. Head(s).op \in Finishing
  BY <1>1 DEF Finishing
<1>3. /\ Sequential(s) /\ ListOK(s, listed, received, staged, stored)
      /\ \A i \in Chunks : i \in received => staged[i] # "none"
      /\ staged = [i \in Chunks |-> staged[i]]
      /\ ChainOK(s) /\ MarksListed(s, listed) /\ MarksPromoted(s, stored)
      /\ MarksCovered(s, received, stored) /\ ~In(s, Asking)
  BY <1>1, <1>2, Assembling DEF ListOK
<1>4. CASE ~(Chunks \subseteq received)
  <2>1. Then(p, <<>>)
    BY <1>4 DEF CheckComplete
  <2>2. MarksCovered(<<>> \o Tail(s), received, stored)
    BY <1>1, <1>2, AssemblingOn
  <2> QED
    BY <1>1, <1>2, <1>3, <1>4, <2>1, <2>2, FinishStep
<1>5. CASE Chunks \subseteq received
  <2> DEFINE n == <<stmt("create")>>
             t == n \o Tail(s)
  <2>1. todo' = [todo EXCEPT ![p] = t]
    BY <1>5 DEF CheckComplete, Then
  <2>2. Sequential(n) /\ ChainOK(n) /\ NoneOf(n, {"mark"}) /\ PromotesFirst(n)
        /\ n # <<>> /\ n[1].op = "create"
    BY NewLists, HandlerLists
  <2> HIDE DEF n
  <2>3. ChainOK(t)
    BY <1>1, <1>3, <2>2, ChainReplaced
  <2>4. MarksListed(t, listed) /\ (Marks(t) => Marks(s))
    BY <1>1, <1>3, <2>2, MarksReplaced
  <2>5. MarksPromoted(t, stored)
    BY <1>1, <1>3, <2>2, <2>4, PromotedReplaced
  <2>6. In(t, Finishing) /\ ~In(t, {"record"})
    <3>1. t # <<>> /\ Head(t).op = "create"
      BY <1>1, <1>3, <2>2, HeadReplaced
    <3> QED
      BY <3>1 DEF In, Finishing
  <2>7. MarksCovered(t, received, stored)
    <3>1. Covers(t, received)
      BY <1>5 DEF Covers
    <3> QED
      BY <3>1 DEF MarksCovered
  <2> HIDE DEF t
  <2>8. ListOK(t, listed, received, staged, stored)
    BY <1>5, <2>3, <2>4, <2>5, <2>6, <2>7 DEF ListOK
  <2>9. SyncedIsStored'
    BY <1>1, SyncedKept
  <2>10. ListOK(t, listed', received', staged', stored')
    BY <1>1, <2>8
  <2>11. /\ staged' = [i \in Chunks |-> staged'[i]]
         /\ \A i \in Chunks : i \in received' => staged'[i] # "none"
    BY <1>1, <1>3
  <2> QED
    BY <1>1, <2>1, <2>6, <2>9, <2>10, <2>11, OwnConfirm
<1> QED
  BY <1>4, <1>5

LEMMA CreateConfirm ==
  ASSUME ListsInv, ConfirmInv, OneUpload, NEW p \in Cycles, CreateAssembling(p)
  PROVE  ConfirmInv'
<1> DEFINE s == todo[p]
<1>1. PICK f : Then(p, Assembly(f))
  BY DEF CreateAssembling, Assembly, Copies, Finish
<1>2. s # <<>> /\ Head(s).op = "create"
      /\ UNCHANGED <<rows, listed, received, staged, stored>>
  BY DEF CreateAssembling, Stmts, upload
<1>3. Head(s).op \in Finishing
  BY <1>2 DEF Finishing
<1>4. /\ Sequential(s) /\ ListOK(s, listed, received, staged, stored)
      /\ \A i \in Chunks : i \in received => staged[i] # "none"
      /\ staged = [i \in Chunks |-> staged[i]]
      /\ ChainOK(s) /\ MarksListed(s, listed) /\ MarksPromoted(s, stored)
  BY <1>2, <1>3, Assembling DEF ListOK
<1>5. Chunks \subseteq received
  BY <1>2, <1>4 DEF ListOK, In
<1> DEFINE n == Assembly(f)
           t == n \o Tail(s)
<1>6. Sequential(n) /\ ChainOK(n) /\ NoneOf(n, {"mark"}) /\ PromotesFirst(n)
      /\ n # <<>> /\ n[1].op \in {"copy", "verify"}
  BY AssemblyListed, AssemblyFirst, AssemblyChain
<1>7. todo' = [todo EXCEPT ![p] = t]
  BY <1>1 DEF Then
<1> HIDE DEF n
<1>8. ChainOK(t)
  BY <1>2, <1>4, <1>6, ChainReplaced
<1>9. MarksListed(t, listed) /\ (Marks(t) => Marks(s))
  BY <1>2, <1>4, <1>6, MarksReplaced
<1>10. MarksPromoted(t, stored)
  BY <1>2, <1>4, <1>6, <1>9, PromotedReplaced
<1>11. In(t, Finishing) /\ ~In(t, {"record"})
  <2>1. t # <<>> /\ Head(t).op \in {"copy", "verify"}
    BY <1>2, <1>4, <1>6, HeadReplaced
  <2> QED
    BY <2>1 DEF In, Finishing
<1>12. MarksCovered(t, received, stored)
  <2>1. Covers(t, received)
    BY <1>5 DEF Covers
  <2> QED
    BY <2>1 DEF MarksCovered
<1> HIDE DEF t
<1>13. ListOK(t, listed, received, staged, stored)
  BY <1>5, <1>8, <1>9, <1>10, <1>11, <1>12 DEF ListOK
<1>14. SyncedIsStored'
  BY <1>2, SyncedKept
<1>15. ListOK(t, listed', received', staged', stored')
  BY <1>2, <1>13
<1>16. /\ staged' = [i \in Chunks |-> staged'[i]]
       /\ \A i \in Chunks : i \in received' => staged'[i] # "none"
  BY <1>2, <1>4
<1> QED
  BY <1>2, <1>7, <1>11, <1>14, <1>15, <1>16, OwnConfirm

\* The call fails while it assembles: what was to be confirmed is not.
LEMMA RejectConfirm ==
  ASSUME ListsInv, ConfirmInv, OneUpload, NEW p \in Cycles, todo[p] # <<>>,
         Head(todo[p]).op \in Finishing, Head(todo[p]).op # "unregister",
         Fails(p, Rejected), UNCHANGED <<rows, listed, received, staged, stored>>
  PROVE  ConfirmInv'
<1> DEFINE t == Rejected
<1>1. ChainOK(t) /\ ~Marks(t) /\ t # <<>> /\ Head(t).op = "clean"
  BY NewLists
<1>2. todo' = [todo EXCEPT ![p] = t]
  BY DEF Fails
<1> HIDE DEF t
<1>3. MarksListed(t, listed) /\ MarksCovered(t, received, stored) /\ MarksPromoted(t, stored)
  BY <1>1 DEF Marks, MarksListed, MarksCovered, MarksPromoted
<1>4. In(t, Finishing) /\ ~In(t, {"record"}) /\ ~In(t, {"create", "copy"})
  BY <1>1 DEF In, Finishing
<1>5. ListOK(t, listed', received', staged', stored')
  BY <1>1, <1>3, <1>4 DEF ListOK
<1>6. /\ staged' = [i \in Chunks |-> staged'[i]]
      /\ \A i \in Chunks : i \in received' => staged'[i] # "none"
  BY Assembling
<1>7. SyncedIsStored'
  BY SyncedKept
<1> QED
  BY <1>2, <1>4, <1>5, <1>6, <1>7, OwnConfirm

\* A chunk that was received is staged, and is copied.
LEMMA CopyConfirm ==
  ASSUME ListsInv, ConfirmInv, OneUpload, NEW p \in Cycles, CopyChunk(p)
  PROVE  ConfirmInv'
<1> DEFINE s == todo[p]
<1>1. s # <<>> /\ Head(s).op = "copy"
      /\ UNCHANGED <<rows, listed, received, staged, stored>>
  BY DEF CopyChunk, Stmts, upload
<1>2. Head(s).op \in Finishing
  BY <1>1 DEF Finishing
<1>3. /\ Sequential(s) /\ ListOK(s, listed, received, staged, stored)
      /\ \A i \in Chunks : i \in received => staged[i] # "none"
      /\ staged = [i \in Chunks |-> staged[i]]
      /\ ChainOK(s) /\ Head(s) = s[1] /\ 1 \in 1..Len(s)
  BY <1>1, <1>2, Assembling
<1>4. Chunks \subseteq received
  BY <1>1, <1>3 DEF ListOK, In
<1>5. Head(s).i \in Chunks /\ Followed(s, 1, {"copy", "verify"})
  BY <1>1, <1>3 DEF ChainOK
<1>6. Then(p, <<>>)
  BY <1>3, <1>4, <1>5 DEF CopyChunk
<1>7. In(<<>> \o Tail(s), {"copy", "verify"})
  BY <1>1, <1>3, <1>5, Second
<1>8. In(<<>> \o Tail(s), Finishing)
  BY <1>7 DEF In, Finishing
<1>9. MarksCovered(<<>> \o Tail(s), received, stored)
  BY <1>1, <1>2, AssemblingOn
<1> QED
  BY <1>1, <1>2, <1>3, <1>4, <1>6, <1>8, <1>9, FinishStep

LEMMA VerifyConfirm ==
  ASSUME ListsInv, ConfirmInv, OneUpload, NEW p \in Cycles, VerifyHash(p)
  PROVE  ConfirmInv'
<1> DEFINE s == todo[p]
<1>1. s # <<>> /\ Head(s).op = "verify"
      /\ UNCHANGED <<rows, listed, received, staged, stored>>
  BY DEF VerifyHash, Stmts, upload, files
<1>2. Head(s).op \in Finishing
  BY <1>1 DEF Finishing
<1>3. CASE Fails(p, Rejected)
  BY <1>1, <1>2, <1>3, RejectConfirm
<1>4. CASE Then(p, <<>>)
  <2>1. /\ Sequential(s) /\ ChainOK(s) /\ Head(s) = s[1] /\ 1 \in 1..Len(s)
        /\ \A i \in Chunks : i \in received => staged[i] # "none"
        /\ staged = [i \in Chunks |-> staged[i]]
    BY <1>1, <1>2, Assembling
  <2>2. Followed(s, 1, {"promote"})
    BY <1>1, <2>1 DEF ChainOK
  <2>3. In(<<>> \o Tail(s), {"promote"})
    BY <1>1, <2>1, <2>2, Second
  <2>4. In(<<>> \o Tail(s), Finishing)
    BY <2>3 DEF In, Finishing
  <2>5. MarksCovered(<<>> \o Tail(s), received, stored)
    BY <1>1, <1>2, AssemblingOn
  <2> QED
    BY <1>1, <1>2, <1>4, <2>1, <2>4, <2>5, FinishStep
<1> QED
  BY <1>3, <1>4 DEF VerifyHash

LEMMA PromoteConfirm ==
  ASSUME ListsInv, FilesInv, ConfirmInv, OneUpload, NEW p \in Cycles, Promote(p)
  PROVE  ConfirmInv'
<1> DEFINE s == todo[p]
<1>1. s # <<>> /\ Head(s).op = "promote"
      /\ UNCHANGED <<rows, listed, received, staged>>
  BY DEF Promote, Stmts, upload
<1>2. Head(s).op \in Finishing
  BY <1>1 DEF Finishing
<1>3. CASE stored = NoFile /\ assembling = NoFile
  BY <1>1, <1>2, <1>3, RejectConfirm DEF Promote
<1>4. CASE stored # NoFile \/ assembling # NoFile
  <2>1. Then(p, <<>>) /\ stored' # NoFile
    BY <1>4 DEF Promote
  <2>2. /\ \A i \in Chunks : i \in received => staged[i] # "none"
        /\ staged = [i \in Chunks |-> staged[i]]
    BY <1>1, <1>2, Assembling
  <2>3. MarksCovered(<<>> \o Tail(s), received', stored')
    BY <2>1 DEF MarksCovered
  <2> QED
    BY <1>1, <1>2, <2>1, <2>2, <2>3, FinishStep
<1> QED
  BY <1>3, <1>4

\* Staging is cleaned, and the chunks' rows are deleted next.
LEMMA CleanConfirm ==
  ASSUME ListsInv, ConfirmInv, OneUpload, NEW p \in Cycles, CleanupStaging(p)
  PROVE  ConfirmInv'
<1> DEFINE s == todo[p]
<1>1. s # <<>> /\ Head(s).op = "clean" /\ Then(p, <<>>)
      /\ UNCHANGED <<rows, listed, received, stored>> /\ staged' = Nothing
  BY DEF CleanupStaging, Stmts, upload
<1>2. Head(s).op \in Finishing
  BY <1>1 DEF Finishing
<1>3. Sequential(s) /\ ChainOK(s) /\ Head(s) = s[1] /\ 1 \in 1..Len(s)
  BY <1>1, <1>2, Assembling
<1>4. Followed(s, 1, {"unregister"})
  BY <1>1, <1>3 DEF ChainOK
<1>5. In(<<>> \o Tail(s), {"unregister"})
  BY <1>1, <1>3, <1>4, Second
<1>6. In(<<>> \o Tail(s), Finishing)
  BY <1>5 DEF In, Finishing
<1>7. MarksCovered(<<>> \o Tail(s), received, stored)
  BY <1>1, <1>2, AssemblingOn
<1>8. staged' = [i \in Chunks |-> staged'[i]]
  BY <1>1 DEF Nothing
<1> QED
  BY <1>1, <1>2, <1>5, <1>6, <1>7, <1>8, FinishStep

\* The chunks' rows are gone: whoever asks next is told to send them all.
LEMMA UnregisterConfirm ==
  ASSUME ListsInv, ConfirmInv, OneUpload, NEW p \in Cycles, DeleteAttachmentUpload(p),
         ChunkCount > 0
  PROVE  ConfirmInv'
<1> DEFINE s == todo[p]
<1>1. s # <<>> /\ Head(s).op = "unregister" /\ Then(p, <<>>)
      /\ UNCHANGED <<rows, listed, staged, stored>> /\ received' = {}
  BY DEF DeleteAttachmentUpload, Stmts, files
<1>2. Head(s).op \in Finishing
  BY <1>1 DEF Finishing
<1>3. /\ Sequential(s) /\ ListOK(s, listed, received, staged, stored)
      /\ Head(s) = s[1] /\ 1 \in 1..Len(s) /\ staged = [i \in Chunks |-> staged[i]]
      /\ MarksListed(s, listed) /\ MarksPromoted(s, stored)
  BY <1>1, <1>2, Assembling DEF ListOK
<1>4. Marks(s) => stored # NoFile
  <2>1. Marks(s) => stored # NoFile \/ \E j \in 1..(1 - 1) : s[j].op = "promote"
    BY <1>1, <1>3 DEF MarksPromoted
  <2> QED
    BY <2>1
<1>5. Marks(<<>> \o Tail(s)) => Marks(s)
  <2>1. Sequential(<<>>) /\ NoneOf(<<>>, {"mark"}) /\ Head(s).op # "list"
    BY <1>1, NewLists, Sequences
  <2> QED
    BY <1>1, <1>3, <2>1, MarksReplaced
<1>6. MarksCovered(<<>> \o Tail(s), received', stored')
  BY <1>1, <1>4, <1>5 DEF MarksCovered
<1>7. 0 \in Chunks
  BY UploadAssumption DEF Chunks
<1>8. ~(Chunks \subseteq received')
  BY <1>1, <1>7
<1>9. /\ staged' = [i \in Chunks |-> staged'[i]]
      /\ \A i \in Chunks : i \notin received'
  BY <1>1, <1>3
<1> QED
  BY <1>1, <1>2, <1>6, <1>8, <1>9, FinishStep

\* What is marked is listed, and all its chunks were sent.
LEMMA MarkConfirm ==
  ASSUME ListsInv, ConfirmInv, OneUpload, NEW p \in Cycles, MarkAttachmentSynced(p)
  PROVE  ConfirmInv'
<1> DEFINE s == todo[p]
           a == Head(s).a
           t == <<>> \o Tail(s)
<1>1. s # <<>> /\ Head(s).op = "mark" /\ todo' = [todo EXCEPT ![p] = t]
      /\ UNCHANGED <<listed, received, staged, stored>>
      /\ rows' = [rows EXCEPT ![a] = IF @ = "pending" THEN "synced" ELSE @]
  BY DEF MarkAttachmentSynced, Stmts, upload, files, Then
<1>2. Sequential(s) /\ ListOK(s, listed, received, staged, stored) /\ ChainOK(s)
      /\ Head(s) = s[1] /\ 1 \in 1..Len(s) /\ Len(s) \in Nat
  BY <1>1, Alone, Sequences, Replaced DEF ListOK
<1>3. ~In(s, Finishing) /\ ~In(s, Asking)
  BY <1>1 DEF In, Finishing, Asking
<1>4. Len(s) = 1 /\ Marks(s)
  BY <1>1, <1>2 DEF ChainOK, Marks
<1>5. a \in listed
  BY <1>1, <1>2 DEF ListOK, MarksListed
<1>6. stored # NoFile
  <2>1. SUFFICES ASSUME stored = NoFile PROVE FALSE
    OBVIOUS
  <2>2. Covers(s, received)
    BY <1>2, <1>3, <1>4, <2>1 DEF ListOK, MarksCovered
  <2>3. \A k \in 1..Len(s) : s[k].op = "mark"
    BY <1>1, <1>2, <1>4
  <2>4. Chunks \subseteq received
    BY <2>2, <2>3 DEF Covers
  <2> QED
    BY <1>1, <1>3, <2>1, <2>4, Alone
<1>7. t = <<>>
  <2>1. t # <<>> => Len(s) >= 2
    BY <1>1, <1>2, Second
  <2> QED
    BY <1>4, <2>1
<1>8. SyncedIsStored'
  <2>1. ASSUME NEW b \in Rows, rows'[b] = "synced" PROVE stored' # NoFile /\ b \in listed'
    <3>1. b = a \/ rows[b] = "synced"
      BY <1>1, <2>1 DEF ConfirmInv
    <3> QED
      BY <1>1, <1>5, <1>6, <3>1 DEF ConfirmInv, SyncedIsStored
  <2> QED
    BY <2>1 DEF SyncedIsStored
<1> HIDE DEF t
<1> QED
  BY <1>1, <1>3, <1>7, <1>8, EmptyOK, CalmConfirm

\* A process that begins with an attachment has asked nothing yet.
LEMMA BeginConfirm ==
  ASSUME ListsInv, ConfirmInv, NEW p \in Cycles, BeginUpload(p)
  PROVE  ConfirmInv'
<1> DEFINE b == Head(batch[p])
           t == <<[op |-> "list", a |-> b], stmt("has"), [op |-> "mark", a |-> b]>>
<1>1. todo[p] = <<>> /\ todo' = [todo EXCEPT ![p] = t]
      /\ UNCHANGED <<rows, listed, received, staged, stored>>
  BY DEF BeginUpload, upload, files
<1>2. /\ Len(t) = 3 /\ t # <<>> /\ Head(t) = t[1]
      /\ t[1].op = "list" /\ t[1].a = b /\ t[2].op = "has" /\ t[3].op = "mark" /\ t[3].a = b
      /\ \A k \in 1..Len(t) : k = 1 \/ k = 2 \/ k = 3
  BY DEF stmt
<1> HIDE DEF t
<1>3. ChainOK(t)
  BY <1>2 DEF ChainOK, Followed
<1>4. MarksListed(t, listed) /\ MarksPromoted(t, stored)
  BY <1>2 DEF MarksListed, MarksPromoted
<1>5. MarksCovered(t, received, stored) /\ ~In(t, {"record"}) /\ ~In(t, {"create", "copy"})
  BY <1>2 DEF MarksCovered, In, Asking
<1>6. ListOK(t, listed, received, staged, stored)
  BY <1>3, <1>4, <1>5 DEF ListOK
<1>7. todo'[p] = t /\ \A q \in Cycles : q # p => todo'[q] = todo[q]
  BY <1>1 DEF ListsInv
<1>8. \A q \in Cycles : ListOK(todo'[q], listed', received', staged', stored')
  BY <1>1, <1>6, <1>7 DEF ConfirmInv
<1>9. \A ops : \A q \in Cycles : In(todo[q], ops) => q # p /\ In(todo'[q], ops)
  BY <1>1, <1>7 DEF In
<1>10. stored' = NoFile /\ Chunks \subseteq received' => \E q \in Cycles : In(todo'[q], Finishing)
  BY <1>1, <1>9 DEF ConfirmInv
<1>11. \A i \in Chunks : i \in received' =>
         staged'[i] # "none" \/ \E q \in Cycles : In(todo'[q], {"unregister"})
  BY <1>1, <1>9 DEF ConfirmInv
<1>12. SyncedIsStored' /\ staged' = [i \in Chunks |-> staged'[i]]
  BY <1>1, SyncedKept DEF ConfirmInv
<1> QED
  BY <1>8, <1>10, <1>11, <1>12 DEF ConfirmInv, Chunks

\* An upload that is stopped before the last chunk's row leaves the rows of
\* the chunks that are staged.
LEMMA FailureConfirm ==
  ASSUME ListsInv, ConfirmInv, OneUpload, NEW p \in Cycles, Failure(p),
         Stops \cap Finishing = {}
  PROVE  ConfirmInv'
<1>1. UNCHANGED <<rows, listed, received, staged, stored>>
  BY DEF Failure, upload, files
<1>2. CASE todo[p] # <<>>
  <2>1. Head(todo[p]).op \in Stops
    BY <1>2 DEF Failure, Abort, Stop
  <2>2. Head(todo[p]).op \notin Finishing
    BY <2>1
  <2>3. OnError(Head(todo[p]).op) = <<>>
    BY <2>2 DEF OnError, Finishing
  <2>4. todo' = [todo EXCEPT ![p] = <<>>]
    BY <2>3 DEF Failure, Abort, Stop, Fails
  <2>5. ~In(todo[p], Finishing)
    BY <2>2 DEF In
  <2>6. SyncedIsStored'
    BY <1>1, SyncedKept
  <2> QED
    BY <1>1, <1>2, <2>4, <2>5, <2>6, EmptyOK, CalmConfirm
<1>3. CASE todo[p] = <<>>
  <2>1. todo' = todo
    BY <1>3 DEF Failure, Abort, Stop, ListsInv
  <2> QED
    BY <1>1, <2>1 DEF ConfirmInv, SyncedIsStored, Chunks
<1> QED
  BY <1>2, <1>3

\* Officers add and delete attachments; what is deleted is not synced.
LEMMA VesselConfirm ==
  ASSUME ConfirmInv, NEW a \in Rows, UploadAttachment(a) \/ DeleteAttachment(a)
  PROVE  ConfirmInv'
<1>1. /\ \E state \in {"pending", "deleted"} : rows' = [rows EXCEPT ![a] = state]
      /\ UNCHANGED <<listed, received, staged, stored, todo>>
  BY DEF UploadAttachment, InsertAttachment, DeleteAttachment, upload, files
<1>2. \A b \in Rows : rows'[b] = "synced" => rows[b] = "synced"
  BY <1>1
<1>3. SyncedIsStored'
  BY <1>1, <1>2 DEF ConfirmInv, SyncedIsStored
<1> QED
  BY <1>1, <1>3 DEF ConfirmInv, Chunks

LEMMA ConfirmNext ==
  ASSUME Stops \cap Finishing = {}, ChunkCount > 0,
         ListsInv, FilesInv, ConfirmInv, OneUpload, [Next]_vars
  PROVE  ConfirmInv'
<1>1. CASE UNCHANGED <<rows, listed, received, staged, stored, todo>>
  BY <1>1 DEF ConfirmInv, SyncedIsStored, Chunks
<1>2. CASE UNCHANGED vars
  BY <1>1, <1>2 DEF vars
<1>3. CASE \E a \in Rows : UploadAttachment(a) \/ DeleteAttachment(a)
  BY <1>3, VesselConfirm
<1>4. ASSUME NEW p \in Cycles, PushAttachmentsBatch(p) \/ Step(p) \/ Failure(p)
      PROVE  ConfirmInv'
  <2>1. CASE PushAttachmentsBatch(p)
    BY <1>1, <2>1 DEF PushAttachmentsBatch, upload, files
  <2>2. CASE Failure(p)
    BY <2>2, FailureConfirm
  <2>3. CASE Step(p)
    BY <2>3, BeginConfirm, QueryConfirm, ChunkConfirm, WriteConfirm, RecordConfirm,
       CompleteConfirm, CreateConfirm, CopyConfirm, VerifyConfirm, PromoteConfirm,
       CleanConfirm, UnregisterConfirm, MarkConfirm DEF Step
  <2> QED
    BY <1>4, <2>1, <2>2, <2>3
<1> QED
  BY <1>2, <1>3, <1>4 DEF Next

LEMMA ConfirmInit == ChunkCount > 0 /\ Init => ConfirmInv
<1> SUFFICES ASSUME ChunkCount > 0, Init PROVE ConfirmInv
  OBVIOUS
<1>1. \A p \in Cycles : todo[p] = <<>>
  BY DEF Init
<1>2. \A p \in Cycles : ListOK(todo[p], listed, received, staged, stored)
  BY <1>1, EmptyOK
<1>3. 0 \in Chunks
  BY UploadAssumption DEF Chunks
<1>4. SyncedIsStored
  BY DEF Init, SyncedIsStored
<1> QED
  BY <1>2, <1>3, <1>4 DEF Init, ConfirmInv, Nothing

\* What is confirmed aboard is in the office's content store and listed
\* under its report. An upload may be stopped anywhere but from the row of
\* the last chunk to the end of the clean-up, where the rows would outlive
\* the chunks (assembleAndPromote cleans staging when it fails, the rows
\* stay); and the content is not empty, since an empty one has no chunk the
\* office could miss.
THEOREM ConfirmedIsStored ==
  ASSUME Stops \cap Finishing = {}, ChunkCount > 0
  PROVE  Spec /\ []OneUpload => []SyncedIsStored
<1>1. ListsInv /\ FilesInv /\ OneUpload /\ [Next]_vars => (ListsInv /\ FilesInv)'
  BY FilesNext
<1>2. ListsInv /\ FilesInv /\ ConfirmInv /\ OneUpload /\ [Next]_vars => ConfirmInv'
  BY ConfirmNext
<1>3. Init => ConfirmInv
  BY ConfirmInit
<1>4. ConfirmInv => SyncedIsStored
  BY DEF ConfirmInv
<1> QED
  BY <1>1, <1>2, <1>3, <1>4, FilesInit, PTL DEF Spec

=============================================================================
