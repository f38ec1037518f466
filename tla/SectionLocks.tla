---------------------------- MODULE SectionLocks ----------------------------
(***************************************************************************)
(* The section soft locks of one report (vessel/httpapi/locks.go), and the *)
(* three ways an open form learns of them: the stream (presence.go), the   *)
(* list it asks for once, and the answers to its own requests.             *)
(*                                                                         *)
(* The table is changed under mu; the event about a change is broadcast    *)
(* under subMu, after mu was released.  pending[p] holds the events of     *)
(* changes process p has made and not broadcast yet, answer[p] what its    *)
(* answer will tell the form that asked (ReportForm.tsx).                  *)
(*                                                                         *)
(* Whether the report is editable and whether a caller is the Master is    *)
(* decided elsewhere; such a refusal tells a form nothing of a lock.       *)
(***************************************************************************)
EXTENDS Naturals, Sequences

CONSTANTS
  Sections, Users,
  Requests,   \* the lock requests that may be under way at once
  Clients,    \* the open forms
  NoOne,      \* the holder of a section that is not locked
  TTL,        \* lockTTL, in ticks
  Cap         \* capacity of a subscriber's channel

ASSUME LockAssumption ==
  /\ NoOne \notin Users /\ "sweeper" \notin Requests
  /\ TTL \in Nat /\ Cap \in Nat \ {0}

Procs == Requests \cup {"sweeper"}

VARIABLES
  locks,    \* [user, age] of each section; age is the time since RenewedAt
  pending,  \* events not broadcast yet
  answer,   \* at most one answer of each process, on its way to a form
  status,   \* of each form and its stream
  listing,  \* the forms whose one GET of the locks is still to be handled
  chan,     \* the subscriber's channel
  view,     \* sectionLocks of each form
  raced,    \* history: the last change came before the event of an earlier one
  missed    \* history: <<form, section>> pairs that an event did not reach, or
            \* an answer from before it put back, with none about it since

vars == <<locks, pending, answer, status, listing, chan, view, raced, missed>>
forms == <<status, listing, chan, view, missed>>

Unlocked == [user |-> NoOne, age |-> 0]

Init ==
  /\ locks = [s \in Sections |-> Unlocked]
  /\ pending = [p \in Procs |-> {}]
  /\ answer = [p \in Procs |-> {}]
  /\ status = [c \in Clients |-> "closed"]
  /\ listing = {}
  /\ chan = [c \in Clients |-> <<>>]
  /\ view = [c \in Clients |-> [s \in Sections |-> NoOne]]
  /\ raced = {} /\ missed = {}

Held(s) == locks[s].user # NoOne
Expired(s) == Held(s) /\ locks[s].age > TTL
Shows(s) == Held(s) /\ ~ Expired(s)  \* what snapshot returns
InFlight(s) == \E p \in Procs : \E e \in pending[p] : e.section = s
Mentions(ch, s) == \E i \in 1..Len(ch) : ch[i].section = s

-----------------------------------------------------------------------------
(* The lock table, changed under mu. *)

Put(S, l) == locks' = [s \in Sections |-> IF s \in S THEN l ELSE locks[s]]

\* Claim, renew, or take over an expired lock.
acquire(u, s) ==
  /\ locks[s].user \in {NoOne, u} \/ Expired(s)
  /\ Put({s}, [user |-> u, age |-> 0])

release(u, s) == locks[s].user = u /\ Put({s}, Unlocked)

forceRelease(s) == Held(s) /\ Put({s}, Unlocked)

sweep(S) == S = {s \in Sections : Expired(s)} /\ Put(S, Unlocked)

-----------------------------------------------------------------------------
(* The requests and the sweep: change the table, then owe an event for each *)
(* section changed, and answer once those are out.                         *)

Idle(p) == pending[p] = {} /\ answer[p] = {}
IsOpen(c) == status[c] # "closed"

\* An event, and the frame writeLockEvent makes of it, names the holder when
\* it is a "locked" one, and the section alone when it is an "unlocked" one.
broadcastLock(p, S) ==
  /\ Idle(p)
  /\ pending' = [pending EXCEPT ![p] =
                   {[section |-> s, holder |-> locks'[s].user] : s \in S}]
  /\ raced' = (raced \ S) \cup {s \in S : InFlight(s)}
  /\ UNCHANGED forms

\* The answer of p will tell form c these holders.
Tell(p, c, holders) ==
  answer' = [answer EXCEPT ![p] = {[form |-> c, holders |-> holders]}]

AcquireLock(p, u, s) ==
  acquire(u, s) /\ broadcastLock(p, {s}) /\ UNCHANGED answer

\* Another holds s: the 409 of a claim, or of a save, carries the holder.
RefuseLock(p, c, u, s) ==
  /\ Idle(p) /\ IsOpen(c)
  /\ Shows(s) /\ locks[s].user # u
  /\ Tell(p, c, [x \in {s} |-> locks[s].user])
  /\ UNCHANGED <<locks, pending, raced, forms>>

ReleaseLock(p, u, s) ==
  release(u, s) /\ broadcastLock(p, {s}) /\ UNCHANGED answer

\* 204 whether there was a lock or not; the form then drops what it shows.
ForceReleaseLock(p, c, s) ==
  /\ Idle(p) /\ IsOpen(c)
  /\ \/ forceRelease(s) /\ broadcastLock(p, {s})
     \/ ~ Held(s) /\ UNCHANGED <<locks, pending, raced, forms>>
  /\ Tell(p, c, [x \in {s} |-> NoOne])

\* A form that resumes a report asks for the locks once; an empty list is
\* ignored, any other replaces all it shows.
ListLocks(p, c) ==
  /\ Idle(p) /\ c \in listing
  /\ listing' = listing \ {c}
  /\ IF \E s \in Sections : Shows(s)
     THEN Tell(p, c, [s \in Sections |->
                        IF Shows(s) THEN locks[s].user ELSE NoOne])
     ELSE UNCHANGED answer
  /\ UNCHANGED <<locks, pending, raced, status, chan, view, missed>>

\* The form takes over what an answer says.  When that is no longer so and
\* nothing more is on its way, it stays wrong.
ReceiveAnswer(p) ==
  \E a \in answer[p] :
    LET told == DOMAIN a.holders
        wrong == {s \in told : /\ a.holders[s] # locks[s].user /\ ~ Expired(s)
                               /\ ~ InFlight(s) /\ ~ Mentions(chan[a.form], s)}
    IN /\ pending[p] = {}
       /\ answer' = [answer EXCEPT ![p] = {}]
       /\ view' = [view EXCEPT ![a.form] =
                     [s \in Sections |-> IF s \in told THEN a.holders[s]
                                                      ELSE @[s]]]
       /\ missed' = missed \cup ({a.form} \X wrong)
       /\ UNCHANGED <<locks, pending, raced, status, listing, chan>>

\* It is lost, or the form has gone on to another section.
DropAnswer(p) ==
  /\ pending[p] = {} /\ answer[p] # {}
  /\ answer' = [answer EXCEPT ![p] = {}]
  /\ UNCHANGED <<locks, pending, raced, forms>>

\* Mutant: the sweep drops expired locks and tells nobody.
SweepSilent ==
  /\ pending["sweeper"] = {}
  /\ \E S \in SUBSET Sections : S # {} /\ sweep(S)
  /\ UNCHANGED <<pending, answer, raced, forms>>

\* All that have expired go at once, and each is broadcast.
SweepExpiredLocks ==
  \E S \in SUBSET Sections :
    /\ S # {} /\ sweep(S) /\ broadcastLock("sweeper", S)
    /\ UNCHANGED answer

\* Time passes; ages beyond TTL + 1 are all alike.
Tick ==
  /\ locks' = [s \in Sections |->
                 IF Held(s) /\ ~ Expired(s)
                 THEN [locks[s] EXCEPT !.age = @ + 1] ELSE locks[s]]
  /\ UNCHANGED <<pending, answer, raced, forms>>

-----------------------------------------------------------------------------
(* The streams. *)

Subscribed(c) == status[c] \in {"subscribed", "live"}

Reaches(c) == Subscribed(c) /\ Len(chan[c]) < Cap

\* A form that event e does not reach, and that does not show it already.
Misses(c, e) ==
  /\ IsOpen(c) /\ ~ Reaches(c)
  /\ Mentions(chan[c], e.section) \/ view[c][e.section] # e.holder

Send(p, e) ==
  /\ pending' = [pending EXCEPT ![p] = @ \ {e}]
  /\ chan' = [c \in Clients |-> IF Reaches(c) THEN Append(chan[c], e)
                                              ELSE chan[c]]
  /\ missed' = (missed \ ({c \in Clients : Reaches(c)} \X {e.section}))
                \cup ({c \in Clients : Misses(c, e)} \X {e.section})
  /\ UNCHANGED <<locks, answer, raced, status, listing, view>>

\* Mutant: the send waits until the channel has room.
BroadcastBlocks(p) ==
  \E e \in pending[p] :
    (\A c \in Clients : Subscribed(c) => Reaches(c)) /\ Send(p, e)

\* broadcast does not wait for a subscriber whose channel is full.
Broadcast(p) == \E e \in pending[p] : Send(p, e)

\* A form is opened; it knows no locks, and has asked for them or not.
OpenForm(c) ==
  /\ status[c] = "closed"
  /\ status' = [status EXCEPT ![c] = "offline"]
  /\ listing' \in {listing, listing \cup {c}}
  /\ UNCHANGED <<locks, pending, answer, raced, chan, view, missed>>

\* Its EventSource connects, or comes back and keeps what it showed.
\* handleLockStream subscribes ...
Subscribe(c) ==
  /\ status[c] = "offline"
  /\ status' = [status EXCEPT ![c] = "subscribed"]
  /\ UNCHANGED <<locks, pending, answer, raced, listing, chan, view, missed>>

\* ... and sends the unexpired locks as a burst of "locked" events before
\* anything from the channel.
Snapshot(c) ==
  /\ status[c] = "subscribed"
  /\ status' = [status EXCEPT ![c] = "live"]
  /\ view' = [view EXCEPT ![c] = [s \in Sections |->
                IF Shows(s) THEN locks[s].user ELSE @[s]]]
  /\ missed' = missed \ {<<c, s>> : s \in {x \in Sections :
                                 Shows(x) /\ ~ Mentions(chan[c], x)}}
  /\ UNCHANGED <<locks, pending, answer, raced, listing, chan>>

Deliver(c) ==
  /\ status[c] = "live"
  /\ chan[c] # <<>>
  /\ view' = [view EXCEPT ![c][Head(chan[c]).section] = Head(chan[c]).holder]
  /\ chan' = [chan EXCEPT ![c] = Tail(@)]
  /\ UNCHANGED <<locks, pending, answer, raced, status, listing, missed>>

\* The connection breaks: what was in the channel is gone.
Disconnect(c) ==
  /\ Subscribed(c)
  /\ status' = [status EXCEPT ![c] = "offline"]
  /\ chan' = [chan EXCEPT ![c] = <<>>]
  /\ missed' = missed \cup {<<c, chan[c][i].section>> : i \in DOMAIN chan[c]}
  /\ UNCHANGED <<locks, pending, answer, raced, listing, view>>

\* The form is left, and no answer finds it; another one starts with no
\* locks known.
CloseForm(c) ==
  /\ IsOpen(c)
  /\ status' = [status EXCEPT ![c] = "closed"]
  /\ listing' = listing \ {c}
  /\ chan' = [chan EXCEPT ![c] = <<>>]
  /\ view' = [view EXCEPT ![c] = [s \in Sections |-> NoOne]]
  /\ missed' = {m \in missed : m[1] # c}
  /\ answer' = [p \in Procs |-> {a \in answer[p] : a.form # c}]
  /\ UNCHANGED <<locks, pending, raced>>

-----------------------------------------------------------------------------
Lock(u, s) == \E p \in Requests : AcquireLock(p, u, s)

Next ==
  \/ \E u \in Users, s \in Sections : Lock(u, s)
  \/ \E p \in Requests, s \in Sections :
       \/ \E u \in Users : ReleaseLock(p, u, s)
       \/ \E c \in Clients : \/ \E u \in Users : RefuseLock(p, c, u, s)
                            \/ ForceReleaseLock(p, c, s)
  \/ \E p \in Requests : \/ \E c \in Clients : ListLocks(p, c)
                         \/ ReceiveAnswer(p) \/ DropAnswer(p)
  \/ SweepExpiredLocks \/ Tick
  \/ \E p \in Procs : Broadcast(p)
  \/ \E c \in Clients : \/ OpenForm(c) \/ Subscribe(c) \/ Snapshot(c)
                        \/ Deliver(c) \/ Disconnect(c) \/ CloseForm(c)

\* The sweep ticker fires, and the sweeper finishes what it began.
LockSweepScheduler == WF_vars(SweepExpiredLocks \/ Broadcast("sweeper"))
Fairness == WF_vars(Tick) /\ LockSweepScheduler

Spec == Init /\ [][Next]_vars
FairSpec == Spec /\ Fairness

-----------------------------------------------------------------------------
(* Properties. *)

\* handleLockStream subscribes before it takes its snapshot, so nothing falls
\* between the two: once a form has read its channel it shows the holder of a
\* section, or the section's lock has expired.  Until the next event about it,
\* the exceptions are a section whose last change overtook the event of an
\* earlier one, one an event did not reach the form about, and one an answer
\* to the form's own request, or to its GET, spoke of too late.
ViewAgrees ==
  \A c \in Clients, s \in Sections :
    (/\ status[c] = "live" /\ chan[c] = <<>>
     /\ ~ InFlight(s) /\ s \notin raced /\ <<c, s>> \notin missed)
    => view[c][s] = locks[s].user \/ Expired(s)

\* A lock cannot be kept without renewing it: a section that one user holds
\* again and again is one that user acquires again and again, whatever the
\* others do and however slowly forms read (lockTTL, the sweep, and a
\* broadcast that never waits).
AbandonedLockIsFreed ==
  \A u \in Users, s \in Sections :
    []<>(locks[s].user = u) => []<><<Lock(u, s)>>_vars

=============================================================================
