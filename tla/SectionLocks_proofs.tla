-------------------------- MODULE SectionLocks_proofs --------------------------
(***************************************************************************)
(* Proof about SectionLocks: what a form shows of a section is right once   *)
(* every event about it was sent and read, with any number of forms,        *)
(* sections and requests and any capacity of a form's channel.              *)
(***************************************************************************)
EXTENDS SectionLocks, TLAPS

Locks == [user : Users \cup {NoOne}, age : Nat]
Events == [section : Sections, holder : Users \cup {NoOne}]
Holdings == UNION {[S -> Users \cup {NoOne}] : S \in SUBSET Sections}
Answers == [form : Clients, holders : Holdings]

Types ==
  /\ locks \in [Sections -> Locks]
  /\ pending \in [Procs -> SUBSET Events]
  /\ status \in [Clients -> {"closed", "offline", "subscribed", "live"}]
  /\ chan \in [Clients -> Seq(Events)]
  /\ view \in [Clients -> [Sections -> Users \cup {NoOne}]]

\* An event that is not out yet tells what the lock is, unless it was overtaken.
FlightTells ==
  \A p \in Procs : \A e \in pending[p] :
    e.section \notin raced => e.holder = locks[e.section].user

\* The last event about s in a channel shows u.
LastShows(ch, s, u) ==
  \A i \in 1..Len(ch) :
    ch[i].section = s /\ (\A j \in (i + 1)..Len(ch) : ch[j].section # s)
      => ch[i].holder = u

\* What a form will show of a section once it has read its channel.
FormTells(c, s) ==
  /\ LastShows(chan[c], s, locks[s].user)
  /\ ~Mentions(chan[c], s) =>
       IF status[c] = "live" THEN view[c][s] = locks[s].user \/ Expired(s)
       ELSE Held(s) \/ view[c][s] = NoOne

FormsTell ==
  \A c \in Clients, s \in Sections :
    ~InFlight(s) /\ s \notin raced /\ <<c, s>> \notin missed => FormTells(c, s)

\* A form that is not open knows nothing; one that is not connected reads nothing.
Apart ==
  \A c \in Clients :
    /\ status[c] \in {"closed", "offline"} => chan[c] = <<>>
    /\ status[c] = "closed" => view[c] = [s \in Sections |-> NoOne]

\* Answers are for forms that are open.
AnswersFit ==
  /\ answer \in [Procs -> SUBSET Answers] /\ listing \subseteq Clients
  /\ \A c \in listing : IsOpen(c)
  /\ \A p \in Procs : \A a \in answer[p] : IsOpen(a.form)

Core == Types /\ FlightTells /\ FormsTell /\ Apart
IInv == Core /\ AnswersFit

-----------------------------------------------------------------------------
(* Channels. *)

\* An empty channel says nothing.
LEMMA EmptySays ==
  ASSUME NEW s, NEW u PROVE LastShows(<<>>, s, u) /\ ~Mentions(<<>>, s)
BY DEF LastShows, Mentions

\* A channel that does not mention a section says nothing of it.
LEMMA SilentIsRight ==
  ASSUME NEW ch, NEW s, NEW u, ~Mentions(ch, s) PROVE LastShows(ch, s, u)
BY DEF LastShows, Mentions

\* The event that comes last is the one that counts.
LEMMA AppendSays ==
  ASSUME NEW ch \in Seq(Events), NEW e \in Events
  PROVE  /\ LastShows(Append(ch, e), e.section, e.holder)
         /\ Mentions(Append(ch, e), e.section)
         /\ \A s, u : s # e.section =>
              /\ Mentions(Append(ch, e), s) <=> Mentions(ch, s)
              /\ LastShows(ch, s, u) => LastShows(Append(ch, e), s, u)
<1> DEFINE more == Append(ch, e)
           n == Len(ch)
<1>1. /\ n \in Nat /\ Len(more) = n + 1 /\ more[n + 1] = e
      /\ \A i \in 1..n : more[i] = ch[i]
  OBVIOUS
<1> HIDE DEF more, n
<1>2. Mentions(more, e.section)
  BY <1>1 DEF Mentions
<1>3. LastShows(more, e.section, e.holder)
  <2> SUFFICES ASSUME NEW i \in 1..(n + 1), more[i].section = e.section,
                      \A j \in (i + 1)..(n + 1) : more[j].section # e.section
               PROVE  more[i].holder = e.holder
    BY <1>1 DEF LastShows
  <2>1. i = n + 1
    BY <1>1
  <2> QED
    BY <1>1, <2>1
<1>4. ASSUME NEW s, NEW u, s # e.section
      PROVE  /\ Mentions(more, s) <=> Mentions(ch, s)
             /\ LastShows(ch, s, u) => LastShows(more, s, u)
  <2>1. Mentions(more, s) <=> Mentions(ch, s)
    BY <1>1, <1>4 DEF Mentions, n
  <2>2. ASSUME LastShows(ch, s, u), NEW i \in 1..(n + 1), more[i].section = s,
               \A j \in (i + 1)..(n + 1) : more[j].section # s
        PROVE  more[i].holder = u
    <3>1. i \in 1..n /\ more[i] = ch[i]
      BY <1>1, <1>4, <2>2
    <3>2. \A j \in (i + 1)..n : ch[j].section # s
      BY <1>1, <2>2
    <3> QED
      BY <2>2, <3>1, <3>2 DEF LastShows, n
  <2>3. LastShows(ch, s, u) => LastShows(more, s, u)
    BY <1>1, <2>2 DEF LastShows
  <2> QED
    BY <2>1, <2>3
<1> QED
  BY <1>2, <1>3, <1>4 DEF more

\* Reading takes the first.
LEMMA TailSays ==
  ASSUME NEW ch \in Seq(Events), ch # <<>>, NEW s, NEW u, LastShows(ch, s, u)
  PROVE  /\ LastShows(Tail(ch), s, u)
         /\ Head(ch).section # s => (Mentions(Tail(ch), s) <=> Mentions(ch, s))
         /\ Head(ch).section = s /\ ~Mentions(Tail(ch), s) => Head(ch).holder = u
<1> DEFINE rest == Tail(ch)
           n == Len(ch)
<1>1. /\ n \in Nat \ {0} /\ Len(rest) = n - 1 /\ Head(ch) = ch[1]
      /\ \A i \in 1..(n - 1) : rest[i] = ch[i + 1]
  OBVIOUS
<1> HIDE DEF rest, n
<1>2. ASSUME NEW i \in 1..(n - 1), rest[i].section = s,
             \A j \in (i + 1)..(n - 1) : rest[j].section # s
      PROVE  rest[i].holder = u
  <2>1. ch[i + 1].section = s /\ i + 1 \in 1..n
    BY <1>1, <1>2
  <2>2. ASSUME NEW j \in (i + 2)..n PROVE ch[j].section # s
    <3>1. j - 1 \in (i + 1)..(n - 1) /\ (j - 1) + 1 = j
      BY <1>1
    <3>2. rest[j - 1] = ch[j]
      BY <1>1, <3>1
    <3> QED
      BY <1>2, <3>1, <3>2
  <2>3. ch[i + 1].holder = u
    BY <1>1, <2>1, <2>2 DEF LastShows, n
  <2> QED
    BY <1>1, <2>3
<1>3. LastShows(rest, s, u)
  BY <1>1, <1>2 DEF LastShows
<1>4. ASSUME Head(ch).section # s PROVE Mentions(rest, s) <=> Mentions(ch, s)
  <2>1. ASSUME NEW i \in 1..n, ch[i].section = s PROVE Mentions(rest, s)
    <3>1. i - 1 \in 1..(n - 1) /\ (i - 1) + 1 = i
      BY <1>1, <1>4, <2>1
    <3> QED
      BY <1>1, <2>1, <3>1 DEF Mentions
  <2>2. ASSUME NEW i \in 1..(n - 1), rest[i].section = s PROVE Mentions(ch, s)
    BY <1>1, <2>2 DEF Mentions, n
  <2> QED
    BY <1>1, <2>1, <2>2 DEF Mentions, n
<1>5. ASSUME Head(ch).section = s, ~Mentions(rest, s) PROVE Head(ch).holder = u
  <2>1. ASSUME NEW j \in 2..n PROVE ch[j].section # s
    <3>1. j - 1 \in 1..(n - 1) /\ (j - 1) + 1 = j
      BY <1>1
    <3> QED
      BY <1>1, <1>5, <3>1 DEF Mentions
  <2> QED
    BY <1>1, <1>5, <2>1 DEF LastShows, n
<1> QED
  BY <1>3, <1>4, <1>5 DEF rest

-----------------------------------------------------------------------------
(* The steps. *)

\* No lock, no form.
LEMMA InvInit == Init => IInv
<1> SUFFICES ASSUME Init PROVE IInv
  OBVIOUS
<1>1. Types
  BY DEF Init, Types, Locks, Unlocked
<1>2. FlightTells
  BY DEF Init, FlightTells
<1>3. FormsTell
  BY EmptySays DEF Init, FormsTell, FormTells
<1>4. Apart
  BY DEF Init, Apart
<1> QED
  BY <1>1, <1>2, <1>3, <1>4 DEF IInv, Core, Init, AnswersFit

\* A change of the locks of S owes an event for each of them and leaves the
\* others alone.
LEMMA ChangeStep ==
  ASSUME IInv, NEW p \in Procs, NEW S \in SUBSET Sections, NEW l \in Locks,
         Put(S, l), broadcastLock(p, S)
  PROVE  Core'
<1> USE DEF IInv, Core
<1> DEFINE new == {[section |-> s, holder |-> locks'[s].user] : s \in S}
<1>1. /\ locks' = [s \in Sections |-> IF s \in S THEN l ELSE locks[s]]
      /\ pending[p] = {} /\ pending' = [pending EXCEPT ![p] = new]
      /\ raced' = (raced \ S) \cup {s \in S : InFlight(s)}
      /\ UNCHANGED <<status, chan, view, missed>>
  BY DEF Put, broadcastLock, Idle, forms
<1>2. locks' \in [Sections -> Locks]
  BY <1>1 DEF Types
<1>3. new \subseteq Events
  BY <1>2 DEF Types, Events, Locks
<1>4. \A e \in new : e.section \in S /\ e.holder = l.user
  BY <1>1
<1>5. ASSUME NEW s \in S PROVE \E e \in new : e.section = s
  <2> DEFINE e == [section |-> s, holder |-> locks'[s].user]
  <2>1. e \in new
    OBVIOUS
  <2>2. e.section = s
    OBVIOUS
  <2> QED
    BY <2>1, <2>2, Zenon
<1> HIDE DEF new
<1>6. Types'
  BY <1>1, <1>2, <1>3 DEF Types
<1>7. FlightTells'
  <2> SUFFICES ASSUME NEW q \in Procs, NEW e \in pending'[q], e.section \notin raced'
               PROVE  e.holder = locks'[e.section].user
    BY DEF FlightTells
  <2>1. CASE q = p
    <3>1. e \in new
      BY <1>1, <2>1 DEF Types
    <3> QED
      BY <1>1, <1>4, <3>1
  <2>2. CASE q # p
    <3>1. e \in pending[q] /\ e.section \in Sections
      BY <1>1, <2>2 DEF Types, Events
    <3>2. e.section \notin S /\ e.section \notin raced
      BY <1>1, <3>1 DEF InFlight
    <3> QED
      BY <1>1, <3>1, <3>2 DEF FlightTells
  <2> QED
    BY <2>1, <2>2
<1>8. FormsTell'
  <2> SUFFICES ASSUME NEW c \in Clients, NEW s \in Sections, ~InFlight(s)',
                      s \notin raced', <<c, s>> \notin missed'
               PROVE  FormTells(c, s)'
    BY DEF FormsTell
  <2>1. s \notin S
    BY <1>1, <1>5 DEF InFlight, Types
  <2>2. ~InFlight(s) /\ s \notin raced
    BY <1>1, <2>1 DEF InFlight, Types
  <2>3. FormTells(c, s)
    BY <1>1, <2>2 DEF FormsTell
  <2> QED
    BY <1>1, <2>1, <2>3 DEF FormTells, Expired, Held
<1>9. Apart'
  BY <1>1 DEF Apart
<1> QED
  BY <1>6, <1>7, <1>8, <1>9

\* The sweep drops the locks that have expired and sends their events off.
LEMMA TickStep == ASSUME IInv, Tick PROVE Core'
<1> USE DEF IInv, Core
<1>1. /\ UNCHANGED <<pending, raced, status, chan, view, missed>>
      /\ locks' = [s \in Sections |-> IF Held(s) /\ ~Expired(s)
                     THEN [locks[s] EXCEPT !.age = @ + 1] ELSE locks[s]]
  BY DEF Tick, forms
<1>2. ASSUME NEW s \in Sections
      PROVE  /\ locks'[s] \in Locks /\ locks'[s].user = locks[s].user
             /\ Expired(s) => locks'[s] = locks[s]
  <2>1. locks[s] \in Locks
    BY DEF Types
  <2>2. /\ [locks[s] EXCEPT !.age = @ + 1] \in Locks
        /\ [locks[s] EXCEPT !.age = @ + 1].user = locks[s].user
    BY <2>1 DEF Locks
  <2> QED
    BY <1>1, <2>1, <2>2
<1>3. Types'
  BY <1>1, <1>2 DEF Types
<1>4. FlightTells'
  BY <1>1, <1>2 DEF FlightTells, Types, Events
<1>5. ASSUME NEW c \in Clients, NEW s \in Sections, FormTells(c, s)
      PROVE  FormTells(c, s)'
  <2>1. Expired(s) => Expired(s)'
    BY <1>2 DEF Expired, Held
  <2>2. Held(s)' <=> Held(s)
    BY <1>2 DEF Held
  <2> QED
    BY <1>1, <1>2, <1>5, <2>1, <2>2 DEF FormTells
<1>6. FormsTell'
  BY <1>1, <1>5 DEF FormsTell, InFlight
<1>7. Apart'
  BY <1>1 DEF Apart
<1> QED
  BY <1>3, <1>4, <1>6, <1>7

\* An event reaches every open form that has room for it.
LEMMA BroadcastStep == ASSUME IInv, NEW p \in Procs, Broadcast(p) PROVE Core'
<1> USE DEF IInv, Core
<1>1. PICK e \in pending[p] :
        /\ pending' = [pending EXCEPT ![p] = @ \ {e}]
        /\ chan' = [c \in Clients |-> IF Reaches(c) THEN Append(chan[c], e) ELSE chan[c]]
        /\ missed' = (missed \ ({c \in Clients : Reaches(c)} \X {e.section}))
                      \cup ({c \in Clients : Misses(c, e)} \X {e.section})
        /\ UNCHANGED <<locks, raced, status, view>>
  BY DEF Broadcast, Send
<1>2. e \in Events /\ e.section \in Sections
  BY DEF Types, Events
<1>3. Types'
  BY <1>1, <1>2 DEF Types
<1>4. FlightTells'
  BY <1>1 DEF FlightTells, Types
<1>5. FormsTell'
  <2> SUFFICES ASSUME NEW c \in Clients, NEW s \in Sections, ~InFlight(s)',
                      s \notin raced', <<c, s>> \notin missed'
               PROVE  FormTells(c, s)'
    BY DEF FormsTell
  <2>1. chan[c] \in Seq(Events)
    BY DEF Types
  <2>2. CASE s # e.section
    <3>1. ~InFlight(s)
      BY <1>1, <2>2 DEF InFlight, Types
    <3>2. FormTells(c, s)
      BY <1>1, <2>2, <3>1 DEF FormsTell
    <3>3. /\ LastShows(chan'[c], s, locks[s].user)
          /\ Mentions(chan'[c], s) <=> Mentions(chan[c], s)
      BY <1>1, <1>2, <2>1, <2>2, <3>2, AppendSays DEF FormTells
    <3> QED
      BY <1>1, <3>2, <3>3 DEF FormTells, Expired, Held
  <2>3. CASE s = e.section
    <3>1. e.holder = locks[s].user /\ ~Misses(c, e)
      BY <1>1, <2>3 DEF FlightTells
    <3>2. CASE Reaches(c)
      <4>1. chan'[c] = Append(chan[c], e)
        BY <1>1, <3>2
      <4>2. LastShows(chan'[c], s, e.holder) /\ Mentions(chan'[c], s)
        BY <1>2, <2>1, <2>3, <4>1, AppendSays
      <4> QED
        BY <1>1, <3>1, <4>2 DEF FormTells
    <3>3. CASE ~Reaches(c) /\ IsOpen(c)
      <4>1. ~Mentions(chan[c], s) /\ view[c][s] = locks[s].user
        BY <2>3, <3>1, <3>3 DEF Misses
      <4>2. chan'[c] = chan[c]
        BY <1>1, <3>3
      <4> QED
        BY <1>1, <4>1, <4>2, SilentIsRight DEF FormTells, Held
    <3>4. CASE ~Reaches(c) /\ ~IsOpen(c)
      <4>1. chan'[c] = <<>> /\ view'[c][s] = NoOne /\ status'[c] = "closed"
        BY <1>1, <3>4 DEF Apart, IsOpen
      <4> QED
        BY <4>1, EmptySays DEF FormTells
    <3> QED
      BY <3>2, <3>3, <3>4
  <2> QED
    BY <2>2, <2>3
<1>6. Apart'
  BY <1>1 DEF Apart, Reaches, Subscribed
<1> QED
  BY <1>3, <1>4, <1>5, <1>6

\* A step of one form: the other forms keep what they have.
LEMMA OneForm ==
  ASSUME IInv, NEW c \in Clients, UNCHANGED <<locks, pending, raced>>, Types', Apart',
         \A d \in Clients \ {c} :
           /\ status'[d] = status[d] /\ chan'[d] = chan[d] /\ view'[d] = view[d]
           /\ \A s : <<d, s>> \in missed' <=> <<d, s>> \in missed,
         \A s \in Sections :
           ~InFlight(s) /\ s \notin raced /\ <<c, s>> \notin missed'
             => FormTells(c, s)'
  PROVE  Core'
<1> USE DEF IInv, Core
<1>1. FlightTells'
  BY DEF FlightTells
<1>2. ASSUME NEW d \in Clients, NEW s \in Sections, ~InFlight(s)', s \notin raced',
             <<d, s>> \notin missed'
      PROVE  FormTells(d, s)'
  <2>1. ~InFlight(s) /\ s \notin raced
    BY <1>2 DEF InFlight
  <2>2. CASE d = c
    BY <1>2, <2>1, <2>2
  <2>3. CASE d # c
    <3>1. FormTells(d, s)
      BY <1>2, <2>1, <2>3 DEF FormsTell
    <3> QED
      BY <2>3, <3>1 DEF FormTells, Expired, Held
  <2> QED
    BY <2>2, <2>3
<1> QED
  BY <1>1, <1>2 DEF FormsTell

\* A form is opened, or opens its channel.
LEMMA ConnectStep ==
  ASSUME IInv, NEW c \in Clients, OpenForm(c) \/ Subscribe(c) PROVE Core'
<1> USE DEF IInv, Core
<1>1. /\ status[c] \in {"closed", "offline"}
      /\ \/ status' = [status EXCEPT ![c] = "offline"]
         \/ status[c] = "offline" /\ status' = [status EXCEPT ![c] = "subscribed"]
      /\ UNCHANGED <<locks, pending, raced, chan, view, missed>>
  BY DEF OpenForm, Subscribe
<1>2. Types' /\ Apart'
  BY <1>1 DEF Types, Apart
<1>3. ASSUME NEW s \in Sections, ~InFlight(s), s \notin raced, <<c, s>> \notin missed
      PROVE  FormTells(c, s)'
  <2>1. FormTells(c, s)
    BY <1>3 DEF FormsTell
  <2> QED
    BY <1>1, <2>1 DEF FormTells, Held, Types
<1> QED
  BY <1>1, <1>2, <1>3, OneForm DEF Types

\* It reads the locks there are.
LEMMA SnapshotStep == ASSUME IInv, NEW c \in Clients, Snapshot(c) PROVE Core'
<1> USE DEF IInv, Core
<1> DEFINE shown == [s \in Sections |-> IF Shows(s) THEN locks[s].user ELSE view[c][s]]
           told == {x \in Sections : Shows(x) /\ ~Mentions(chan[c], x)}
<1>1. /\ status[c] = "subscribed" /\ status' = [status EXCEPT ![c] = "live"]
      /\ view' = [view EXCEPT ![c] = shown]
      /\ missed' = missed \ {<<c, s>> : s \in told}
      /\ UNCHANGED <<locks, pending, raced, chan>>
  BY DEF Snapshot
<1>2. shown \in [Sections -> Users \cup {NoOne}]
  BY DEF Types, Locks
<1>3. Types' /\ Apart'
  BY <1>1, <1>2 DEF Types, Apart
<1>4. ASSUME NEW s \in Sections, ~InFlight(s), s \notin raced, <<c, s>> \notin missed'
      PROVE  FormTells(c, s)'
  <2>1. status'[c] = "live" /\ view'[c][s] = shown[s]
    BY <1>1 DEF Types
  <2>2. CASE s \in told
    <3>1. ~Mentions(chan[c], s) /\ shown[s] = locks[s].user
      BY <2>2
    <3> QED
      BY <1>1, <2>1, <3>1, SilentIsRight DEF FormTells
  <2>3. CASE s \notin told
    <3>1. FormTells(c, s)
      BY <1>1, <1>4, <2>3 DEF FormsTell
    <3>2. ~Mentions(chan[c], s) => shown[s] = locks[s].user \/ Expired(s)
      BY <1>1, <3>1 DEF FormTells, Held, Shows
    <3> HIDE DEF shown
    <3> QED
      BY <1>1, <2>1, <3>1, <3>2 DEF FormTells, Expired, Held
  <2> QED
    BY <2>2, <2>3
<1>5. ASSUME NEW d \in Clients \ {c}, NEW s PROVE <<d, s>> \in missed' <=> <<d, s>> \in missed
  BY <1>1
<1> HIDE DEF shown, told
<1> QED
  BY <1>1, <1>3, <1>4, <1>5, OneForm DEF Types

\* It reads an event.
LEMMA DeliverStep == ASSUME IInv, NEW c \in Clients, Deliver(c) PROVE Core'
<1> USE DEF IInv, Core
<1> DEFINE e == Head(chan[c])
<1>1. /\ status[c] = "live" /\ chan[c] # <<>> /\ chan[c] \in Seq(Events)
      /\ view' = [view EXCEPT ![c][e.section] = e.holder]
      /\ chan' = [chan EXCEPT ![c] = Tail(chan[c])]
      /\ UNCHANGED <<locks, pending, raced, status, missed>>
  BY DEF Deliver, Types
<1>2. e \in Events
  BY <1>1
<1>3. e.section \in Sections /\ e.holder \in Users \cup {NoOne}
  BY <1>2 DEF Events
<1>4. Tail(chan[c]) \in Seq(Events)
  BY <1>1
<1> HIDE DEF e
<1>5. Types'
  BY <1>1, <1>3, <1>4 DEF Types
<1>6. Apart'
  BY <1>1 DEF Apart, Types
<1>7. /\ chan'[c] = Tail(chan[c]) /\ view'[c][e.section] = e.holder
      /\ \A s \in Sections : s # e.section => view'[c][s] = view[c][s]
  BY <1>1, <1>3 DEF Types
<1>8. ASSUME NEW s \in Sections, ~InFlight(s), s \notin raced, <<c, s>> \notin missed
      PROVE  FormTells(c, s)'
  <2>1. FormTells(c, s) /\ LastShows(chan[c], s, locks[s].user)
    BY <1>8 DEF FormsTell, FormTells
  <2>2. /\ LastShows(chan'[c], s, locks[s].user)
        /\ e.section # s => (Mentions(chan'[c], s) <=> Mentions(chan[c], s))
        /\ e.section = s /\ ~Mentions(chan'[c], s) => e.holder = locks[s].user
    BY <1>1, <1>7, <2>1, TailSays DEF e
  <2> QED
    BY <1>1, <1>7, <2>1, <2>2 DEF FormTells, Expired, Held
<1> QED
  BY <1>1, <1>5, <1>6, <1>8, OneForm DEF Types

\* It breaks off.
LEMMA DisconnectStep == ASSUME IInv, NEW c \in Clients, Disconnect(c) PROVE Core'
<1> USE DEF IInv, Core
<1>1. /\ Subscribed(c) /\ status' = [status EXCEPT ![c] = "offline"]
      /\ chan' = [chan EXCEPT ![c] = <<>>]
      /\ missed' = missed \cup {<<c, chan[c][i].section>> : i \in DOMAIN chan[c]}
      /\ UNCHANGED <<locks, pending, raced, view>>
  BY DEF Disconnect
<1>2. Types' /\ Apart'
  BY <1>1 DEF Types, Apart
<1>3. ASSUME NEW s \in Sections, ~InFlight(s), s \notin raced, <<c, s>> \notin missed'
      PROVE  FormTells(c, s)'
  <2>1. FormTells(c, s)
    BY <1>1, <1>3 DEF FormsTell
  <2>2. DOMAIN chan[c] = 1..Len(chan[c])
    BY DEF Types
  <2>3. ~Mentions(chan[c], s)
    BY <1>1, <1>3, <2>2 DEF Mentions
  <2>4. Held(s) \/ view[c][s] = NoOne
    BY <1>1, <2>1, <2>3 DEF FormTells, Expired, Held
  <2>5. chan'[c] = <<>> /\ status'[c] = "offline"
    BY <1>1 DEF Types
  <2> QED
    BY <1>1, <2>4, <2>5, EmptySays DEF FormTells, Held
<1> QED
  BY <1>1, <1>2, <1>3, OneForm DEF Types

\* Its channel is closed.
LEMMA CloseStep == ASSUME IInv, NEW c \in Clients, CloseForm(c) PROVE Core'
<1> USE DEF IInv, Core
<1>1. /\ status' = [status EXCEPT ![c] = "closed"]
      /\ chan' = [chan EXCEPT ![c] = <<>>]
      /\ view' = [view EXCEPT ![c] = [s \in Sections |-> NoOne]]
      /\ missed' = {m \in missed : m[1] # c}
      /\ UNCHANGED <<locks, pending, raced>>
  BY DEF CloseForm
<1>2. Types' /\ Apart'
  BY <1>1 DEF Types, Apart
<1>3. ASSUME NEW s \in Sections PROVE FormTells(c, s)'
  <2>1. chan'[c] = <<>> /\ status'[c] = "closed" /\ view'[c][s] = NoOne
    BY <1>1 DEF Types
  <2> QED
    BY <2>1, EmptySays DEF FormTells
<1> QED
  BY <1>1, <1>2, <1>3, OneForm DEF Types

\* It takes over an answer.
LEMMA AnswerStep == ASSUME IInv, NEW p \in Requests, ReceiveAnswer(p) PROVE Core'
<1> USE DEF IInv, Core
<1>1. PICK a \in answer[p] : ReceiveAnswer(p)!(a)
  BY DEF ReceiveAnswer
<1> DEFINE c == a.form
           told == DOMAIN a.holders
           wrong == {s \in told : /\ a.holders[s] # locks[s].user /\ ~Expired(s)
                                  /\ ~InFlight(s) /\ ~Mentions(chan[c], s)}
           shown == [s \in Sections |-> IF s \in told THEN a.holders[s] ELSE view[c][s]]
<1>2. /\ view' = [view EXCEPT ![c] = shown]
      /\ missed' = missed \cup ({c} \X wrong)
      /\ UNCHANGED <<locks, pending, raced, status, listing, chan>>
  BY <1>1
<1>3. a \in Answers /\ c \in Clients /\ IsOpen(c)
  BY DEF AnswersFit, Answers, Procs
<1>4. shown \in [Sections -> Users \cup {NoOne}]
  BY <1>3 DEF Types, Answers, Holdings
<1>5. Types' /\ Apart'
  BY <1>2, <1>3, <1>4 DEF Types, Apart, IsOpen
<1>6. ASSUME NEW s \in Sections, ~InFlight(s), s \notin raced, <<c, s>> \notin missed'
      PROVE  FormTells(c, s)'
  <2>1. FormTells(c, s) /\ s \notin wrong
    <3> HIDE DEF c, wrong, shown, told
    <3> QED
      BY <1>2, <1>3, <1>6 DEF FormsTell
  <2>2. view'[c][s] = shown[s]
    BY <1>2, <1>3 DEF Types
  <2>3. CASE s \in told
    <3>1. Mentions(chan[c], s) \/ shown[s] = locks[s].user \/ Expired(s)
      BY <1>6, <2>1, <2>3
    <3> HIDE DEF shown, wrong, told
    <3> QED
      BY <1>2, <2>1, <2>2, <3>1 DEF FormTells, Expired, Held
  <2>4. CASE s \notin told
    <3>1. shown[s] = view[c][s]
      BY <2>4
    <3> HIDE DEF shown, wrong, told
    <3> QED
      BY <1>2, <2>1, <2>2, <3>1 DEF FormTells, Expired, Held
  <2> QED
    BY <2>3, <2>4
<1>7. \A d \in Clients \ {c} :
        /\ status'[d] = status[d] /\ chan'[d] = chan[d] /\ view'[d] = view[d]
        /\ \A s : <<d, s>> \in missed' <=> <<d, s>> \in missed
  <2> HIDE DEF shown, wrong, told
  <2> QED
    BY <1>2 DEF Types
<1> HIDE DEF c, shown, wrong, told
<1> QED
  BY <1>2, <1>3, <1>5, <1>6, <1>7, OneForm

\* An answer speaks to an open form of sections there are.
LEMMA AnswersStep == IInv /\ [Next]_vars => AnswersFit'
<1> SUFFICES ASSUME IInv, [Next]_vars PROVE AnswersFit'
  OBVIOUS
<1> USE DEF IInv, Core
<1>1. CASE UNCHANGED <<answer, listing, status>>
  BY <1>1 DEF AnswersFit, IsOpen
<1>2. ASSUME NEW p \in Procs, NEW c \in Clients, IsOpen(c), NEW h \in Holdings,
             Tell(p, c, h), listing' \subseteq listing, UNCHANGED status
      PROVE  AnswersFit'
  <2>1. [form |-> c, holders |-> h] \in Answers
    BY DEF Answers
  <2> QED
    BY <1>2, <2>1 DEF AnswersFit, Tell, IsOpen
<1>3. ASSUME NEW s \in Sections, NEW u \in Users \cup {NoOne}
      PROVE  [x \in {s} |-> u] \in Holdings
  <2>1. [x \in {s} |-> u] \in [{s} -> Users \cup {NoOne}]
    OBVIOUS
  <2> QED
    BY <2>1 DEF Holdings
<1>4. ASSUME NEW p \in Requests, NEW c \in Clients, NEW u \in Users, NEW s \in Sections,
             RefuseLock(p, c, u, s) PROVE AnswersFit'
  <2>1. locks[s].user \in Users \cup {NoOne}
    BY DEF Types, Locks
  <2> QED
    BY <1>2, <1>3, <1>4, <2>1 DEF RefuseLock, Procs, forms
<1>5. ASSUME NEW p \in Requests, NEW c \in Clients, NEW s \in Sections,
             ForceReleaseLock(p, c, s) PROVE AnswersFit'
  BY <1>2, <1>3, <1>5 DEF ForceReleaseLock, broadcastLock, Procs, forms
<1>6. ASSUME NEW p \in Requests, NEW c \in Clients, ListLocks(p, c) PROVE AnswersFit'
  <2> DEFINE h == [s \in Sections |-> IF Shows(s) THEN locks[s].user ELSE NoOne]
  <2>1. h \in [Sections -> Users \cup {NoOne}]
    BY DEF Types, Locks
  <2>2. h \in Holdings
    BY <2>1 DEF Holdings
  <2>3. /\ IsOpen(c) /\ listing' \subseteq listing /\ UNCHANGED status
        /\ Tell(p, c, h) \/ UNCHANGED answer
    BY <1>6 DEF ListLocks, AnswersFit
  <2> HIDE DEF h
  <2> QED
    BY <1>2, <2>2, <2>3 DEF AnswersFit, IsOpen, Procs
<1>7. ASSUME NEW p \in Requests, ReceiveAnswer(p) \/ DropAnswer(p) PROVE AnswersFit'
  BY <1>7 DEF ReceiveAnswer, DropAnswer, AnswersFit, IsOpen, forms
<1>8. ASSUME NEW c \in Clients, OpenForm(c) PROVE AnswersFit'
  BY <1>8 DEF OpenForm, AnswersFit, IsOpen, Types
<1>9. ASSUME NEW c \in Clients, Subscribe(c) \/ Snapshot(c) \/ Disconnect(c) PROVE AnswersFit'
  <2>1. /\ status[c] # "closed" /\ UNCHANGED <<answer, listing>>
        /\ \E x \in {"subscribed", "live", "offline"} : status' = [status EXCEPT ![c] = x]
    BY <1>9 DEF Subscribe, Snapshot, Disconnect, Subscribed
  <2>2. \A d \in Clients : IsOpen(d) => IsOpen(d)'
    BY <2>1 DEF IsOpen, Types
  <2>3. \A p \in Procs : \A a \in answer[p] : a.form \in Clients
    BY DEF AnswersFit, Answers
  <2> QED
    BY <2>1, <2>2, <2>3 DEF AnswersFit
<1>10. ASSUME NEW c \in Clients, CloseForm(c) PROVE AnswersFit'
  <2>1. /\ status' = [status EXCEPT ![c] = "closed"] /\ listing' = listing \ {c}
        /\ answer' = [p \in Procs |-> {a \in answer[p] : a.form # c}]
    BY <1>10 DEF CloseForm
  <2> QED
    BY <2>1 DEF AnswersFit, IsOpen, Types, Answers
<1>11. ASSUME NEW c \in Clients, Deliver(c) PROVE AnswersFit'
  BY <1>1, <1>11 DEF Deliver
<1>12. CASE \/ \E u \in Users, s \in Sections : Lock(u, s)
            \/ \E p \in Requests, s \in Sections, u \in Users : ReleaseLock(p, u, s)
            \/ SweepExpiredLocks \/ Tick \/ \E p \in Procs : Broadcast(p)
            \/ UNCHANGED vars
  BY <1>1, <1>12 DEF Lock, AcquireLock, ReleaseLock, SweepExpiredLocks, Tick, Broadcast,
     Send, broadcastLock, forms, vars
<1> QED
  BY <1>4, <1>5, <1>6, <1>7, <1>8, <1>9, <1>10, <1>11, <1>12 DEF Next

\* One step of any kind.
LEMMA InvStep == IInv /\ [Next]_vars => IInv'
<1> SUFFICES ASSUME IInv, [Next]_vars PROVE Core'
  BY AnswersStep DEF IInv
<1>1. Unlocked \in Locks
  BY DEF Unlocked, Locks
<1>2. CASE \/ UNCHANGED <<locks, pending, status, chan, view, raced, missed>>
           \/ UNCHANGED vars
  BY <1>2 DEF vars, IInv, Core, Types, FlightTells, FormsTell, FormTells, Apart,
     InFlight, Expired, Held
<1>3. ASSUME NEW p \in Requests, NEW u \in Users, NEW s \in Sections, AcquireLock(p, u, s)
      PROVE  Core'
  <2>1. [user |-> u, age |-> 0] \in Locks
    BY DEF Locks
  <2> QED
    BY <1>3, <2>1, ChangeStep DEF AcquireLock, acquire, Procs
<1>4. ASSUME NEW p \in Requests, NEW u \in Users, NEW s \in Sections, ReleaseLock(p, u, s)
      PROVE  Core'
  BY <1>1, <1>4, ChangeStep DEF ReleaseLock, release, Procs
<1>5. ASSUME NEW p \in Requests, NEW c \in Clients, NEW s \in Sections,
             ForceReleaseLock(p, c, s)
      PROVE  Core'
  <2>1. CASE forceRelease(s) /\ broadcastLock(p, {s})
    BY <1>1, <2>1, ChangeStep DEF forceRelease, Procs
  <2>2. CASE UNCHANGED <<locks, pending, raced, forms>>
    BY <1>2, <2>2 DEF forms
  <2> QED
    BY <1>5, <2>1, <2>2 DEF ForceReleaseLock
<1>6. CASE SweepExpiredLocks
  BY <1>1, <1>6, ChangeStep DEF SweepExpiredLocks, sweep, Procs
<1>7. ASSUME NEW p \in Requests, NEW c \in Clients,
             ListLocks(p, c) \/ \E u \in Users, s \in Sections : RefuseLock(p, c, u, s)
      PROVE  Core'
  BY <1>2, <1>7 DEF RefuseLock, ListLocks, forms
<1>8. ASSUME NEW p \in Requests, DropAnswer(p) PROVE Core'
  BY <1>2, <1>8 DEF DropAnswer, forms
<1> QED
  BY <1>2, <1>3, <1>4, <1>5, <1>6, <1>7, <1>8, TickStep, BroadcastStep, ConnectStep,
     SnapshotStep, DeliverStep, DisconnectStep, CloseStep, AnswerStep DEF Next, Lock

\* The inductive invariant: events that are not out yet tell what the lock is,
\* and so does the last event of a channel, or else the form itself - all but
\* what was changed before its event, missed, or answered too late.
THEOREM Inductive == Spec => []IInv
<1> QED
  BY InvInit, InvStep, PTL DEF Spec

\* handleLockStream, broadcast, ReportForm: a form that has read its channel
\* shows the holder of a section, whoever else reads, breaks off or comes back,
\* unless since the last event about it that reached the form its holder changed
\* before the event of a change was out, an event was missed, or an answer came
\* too late.
THEOREM OpenFormsAgree == Spec => []ViewAgrees
<1>1. IInv => ViewAgrees
  <2> SUFFICES ASSUME IInv, NEW c \in Clients, NEW s \in Sections,
                      status[c] = "live", chan[c] = <<>>, ~InFlight(s),
                      s \notin raced, <<c, s>> \notin missed
               PROVE  view[c][s] = locks[s].user \/ Expired(s)
    BY DEF ViewAgrees
  <2> QED
    BY EmptySays DEF IInv, Core, FormsTell, FormTells
<1> QED
  BY <1>1, Inductive, PTL

=============================================================================
