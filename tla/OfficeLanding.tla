---------------------------- MODULE OfficeLanding ----------------------------
(***************************************************************************)
(* The office's side of the sync, for one vessel and one schema: PushOutbox *)
(* landing outbox items (office/syncservice/pushoutbox.go), the cascade it *)
(* runs after a report version (cascade.go), a reviewer's remark set       *)
(* (office/httpapi/remarks.go) and the streams PullInbox serves            *)
(* (pullinbox.go), over the tables of office/store.                        *)
(*                                                                         *)
(* No call takes a lock or opens a transaction: each is a list of          *)
(* autocommitted statements, and todo[p] is what process p has still to    *)
(* execute.  An insert into a stream draws its number from a sequence      *)
(* first and becomes visible when it commits.                              *)
(*                                                                         *)
(* The vessel is the environment: it pushes any batch of the items it has  *)
(* seen no ack for, each carrying the state its version has by then.       *)
(***************************************************************************)
EXTENDS Lifecycle, SequencesExt, Bags

CONSTANTS
  Items,              \* the vessel's outbox: [no, kind, r, v, data] records
  Calls,              \* the PushOutbox calls that may be under way at once
  Reviewers,          \* the remark set requests that may be under way at once
  Fields,             \* the fields a remark set may flag
  PushStates,         \* the states a version may have when it is pushed
  BrokenRules(_, _),  \* the rule engine, as in VesselReports
  MaxSets,            \* bound on remark sets
  MaxFailures         \* bound on failed statements, cut calls, lost replies

Procs == Calls \cup Reviewers
Kinds == {"reportVersion", "reportAuditEvent"}

ASSUME ItemsAssumption ==
  /\ IsFiniteSet(Items) /\ IsFiniteSet(Fields)
  /\ \A i \in Items : i.no \in Nat /\ i.kind \in Kinds /\ i.v \in Nat
                      /\ i.data \in Times
  /\ \A i, j \in Items : i.no = j.no => i = j
  /\ PushStates \subseteq {s \in State : InChain(s)}
ASSUME ProcsAssumption == Calls \cap Reviewers = {}

VARIABLES
  versions,   \* report_versions: [<<r, v>> -> [data, state]]
  audit,      \* report_audit_events, a bag
  receipts,   \* outbox_receipts: item numbers
  notices,    \* invalidation_notices: [seq, r, v, rules] rows
  remarks,    \* remarks: [seq, set, field, r, v] rows
  chats,      \* the remark sets a linking chat message was posted for
  nextSeq,    \* the sequences behind the seq columns
  todo,       \* statements each process still has to execute
  acks,       \* the accepted items of the call each process answers
  acked,      \* items the vessel has seen an ack for
  cursors,    \* the vessel's position on the two streams
  pulled,     \* the seqs the vessel has been sent
  sets, failures  \* counters for the bounds

tables == <<versions, audit, receipts, notices, remarks, chats, nextSeq>>
vessel == <<acked, cursors, pulled>>
vars == <<tables, todo, acks, vessel, sets, failures>>

Streams == {"notice", "remark"}
Table(q) == IF q = "notice" THEN notices ELSE remarks

Init ==
  /\ versions = <<>>
  /\ audit = EmptyBag
  /\ receipts = {} /\ notices = {} /\ remarks = {} /\ chats = {}
  /\ nextSeq = [q \in Streams |-> 1]
  /\ todo = [p \in Procs |-> <<>>]
  /\ acks = [p \in Procs |-> {}]
  /\ acked = {}
  /\ cursors = [q \in Streams |-> 0]
  /\ pulled = [q \in Streams |-> {}]
  /\ sets = 0 /\ failures = 0

-----------------------------------------------------------------------------
(* Queries. *)

Keys == DOMAIN versions
\* ListChain, and runCascade's filter: the latest version of each report.
Chain ==
  {k \in Keys : /\ \A m \in Keys : m[1] = k[1] => m[2] <= k[2]
                /\ InChain(versions[k].state)}
Broken(k) ==
  BrokenRules([r \in {m[1] : m \in Chain} |->
                 versions[CHOOSE m \in Chain : m[1] = r].data], k[1])

\* GetLatestInvalidationNotice; {} if there is none.
LatestRules(k) ==
  LET ns == {n \in notices : n.r = k[1] /\ n.v = k[2]}
  IN IF ns = {} THEN {} ELSE (CHOOSE n \in ns : \A m \in ns : m.seq <= n.seq).rules

-----------------------------------------------------------------------------
(* Statements. *)

setState(k, s) == [op |-> "setState", k |-> k, state |-> s]
\* id tells apart the events of different items, computations and sets.
event(k, type, id) ==
  [op |-> "event", e |-> [k |-> k, type |-> type, id |-> id]]
insert(q, row) == [op |-> "insert", q |-> q, row |-> row]

Stmts(p, op) == todo[p] # <<>> /\ Head(todo[p]).op = op
Then(p, s) == todo' = [todo EXCEPT ![p] = s \o Tail(@)]

\* The lists of a set's elements in ascending order of at: ties in any order.
Ascending(S, at) ==
  {q \in SetToSeqs(S) : \A i, j \in DOMAIN q : i < j => at[q[i]] <= at[q[j]]}

\* What is left of the list q from its first statement with this op.
From(q, op) ==
  LET ks == {k \in DOMAIN q : q[k].op = op}
  IN IF ks = {} THEN <<>> ELSE SubSeq(q, Min(ks), Len(q))

-----------------------------------------------------------------------------
(* PushOutbox. *)

\* The vessel sends a batch in outbox order.
PushOutbox(p, batch, st) ==
  LET key(i) == [op |-> "apply", i |-> i, state |-> st[i]] IN
  /\ todo[p] = <<>>
  /\ batch # {}
  /\ \E q \in Ascending(batch, [i \in batch |-> i.no]) :
       todo' = [todo EXCEPT ![p] = [n \in DOMAIN q |-> key(q[n])]
                                     \o <<[op |-> "reply"]>>]
  /\ acks' = [acks EXCEPT ![p] = {}]
  /\ UNCHANGED <<tables, vessel, sets, failures>>

\* Mutant: the receipt is recorded before the item is landed.
ApplyReceiptFirst(p) ==
  LET s == Head(todo[p]) IN
  /\ Stmts(p, "apply")
  /\ IF s.i.no \in receipts
     THEN Then(p, <<>>) /\ acks' = [acks EXCEPT ![p] = @ \cup {s.i.no}]
     ELSE /\ Then(p, <<[op |-> "receipt", i |-> s.i],
                       [op |-> "land", i |-> s.i, state |-> s.state]>>)
          /\ UNCHANGED acks
  /\ UNCHANGED tables

\* applyOutboxItem begins with HasOutboxReceipt.
ApplyOutboxItem(p) ==
  LET s == Head(todo[p]) IN
  /\ Stmts(p, "apply")
  /\ IF s.i.no \in receipts
     THEN Then(p, <<>>) /\ acks' = [acks EXCEPT ![p] = @ \cup {s.i.no}]
     ELSE /\ Then(p, <<[op |-> "land", i |-> s.i, state |-> s.state],
                       [op |-> "receipt", i |-> s.i]>>)
          /\ UNCHANGED acks
  /\ UNCHANGED tables

\* UpsertReportVersion overwrites the whole row, its state included.
UpsertReportVersion(p) ==
  LET s == Head(todo[p])
      k == <<s.i.r, s.i.v>>
  IN
  /\ Stmts(p, "land") /\ s.i.kind = "reportVersion"
  /\ versions' = [m \in Keys \cup {k} |->
                    IF m = k THEN [data |-> s.i.data, state |-> s.state]
                             ELSE versions[m]]
  /\ Then(p, <<[op |-> "cascade"]>>)
  /\ UNCHANGED <<audit, receipts, notices, remarks, chats, nextSeq, acks>>

\* A plain insert: nothing but the receipt tells a repetition.
LandAuditEvent(p) ==
  LET i == Head(todo[p]).i IN
  /\ Stmts(p, "land") /\ i.kind = "reportAuditEvent"
  /\ Then(p, <<event(<<i.r, i.v>>, "vessel", i.no)>>)
  /\ UNCHANGED <<tables, acks>>

RecordOutboxReceipt(p) ==
  LET no == Head(todo[p]).i.no IN
  /\ Stmts(p, "receipt")
  /\ receipts' = receipts \cup {no}
  /\ acks' = [acks EXCEPT ![p] = @ \cup {no}]
  /\ Then(p, <<>>)
  /\ UNCHANGED <<versions, audit, notices, remarks, chats, nextSeq>>

\* runCascade loads the chain, in order of event time, and evaluates it ...
RunCascade(p) ==
  LET flagged == {[k |-> k, state |-> versions[k].state, rules |-> Broken(k)] :
                    k \in {m \in Chain : Broken(m) # {}}}
  IN
  /\ Stmts(p, "cascade")
  /\ \E q \in Ascending(flagged, [c \in flagged |-> versions[c.k].data]) :
       Then(p, [n \in DOMAIN q |-> [op |-> "flag", c |-> q[n]]])
  /\ UNCHANGED <<tables, acks>>

\* Mutant: an invalidated version is skipped whatever its rules.
FlagOnce(p) ==
  LET c == Head(todo[p]).c IN
  /\ Stmts(p, "flag")
  /\ Then(p, IF c.state = "invalidated" THEN <<>>
             ELSE <<setState(c.k, "invalidated"),
                    event(c.k, "invalidated", c.rules),
                    insert("notice", [r |-> c.k[1], v |-> c.k[2],
                                      rules |-> c.rules])>>)
  /\ UNCHANGED <<tables, acks>>

\* ... and then, version by version, asks for the latest notice if the
\* loaded state was invalidated, and writes.
FlagVersion(p) ==
  LET c == Head(todo[p]).c IN
  /\ Stmts(p, "flag")
  /\ Then(p, IF c.state = "invalidated" /\ LatestRules(c.k) = c.rules THEN <<>>
             ELSE <<setState(c.k, "invalidated"),
                    event(c.k, "invalidated", c.rules),
                    insert("notice", [r |-> c.k[1], v |-> c.k[2],
                                      rules |-> c.rules])>>)
  /\ UNCHANGED <<tables, acks>>

\* Every item has its ack; the vessel gets the reply.
Reply(p) ==
  /\ Stmts(p, "reply")
  /\ acked' = acked \cup acks[p]
  /\ Then(p, <<>>)
  /\ UNCHANGED <<tables, acks, cursors, pulled, sets, failures>>

-----------------------------------------------------------------------------
(* handleCreateRemarkSet. *)

\* The remarks are inserted before the transition is checked and written.
CreateRemarkSet(p, r, fields) ==
  LET k == <<r, Max({m[2] : m \in {n \in Keys : n[1] = r}})>>
      row(f) == insert("remark", [set |-> sets + 1, field |-> f,
                                  r |-> r, v |-> k[2]])
  IN
  /\ todo[p] = <<>>
  /\ sets < MaxSets
  /\ \E m \in Keys : m[1] = r
  /\ sets' = sets + 1
  /\ \E q \in SetToSeqs(fields) :
     todo' = [todo EXCEPT ![p] =
                [n \in DOMAIN q |-> row(q[n])]
                  \o (IF InChain(versions[k].state)
                      THEN <<setState(k, "remarked"),
                             event(k, "remarked", sets + 1),
                             [op |-> "chat", set |-> sets + 1]>>
                      ELSE <<>>)]
  /\ UNCHANGED <<tables, acks, vessel, failures>>

InsertChatMessage(p) ==
  /\ Stmts(p, "chat")
  /\ chats' = chats \cup {Head(todo[p]).set}
  /\ Then(p, <<>>)
  /\ UNCHANGED <<versions, audit, receipts, notices, remarks, nextSeq, acks>>

-----------------------------------------------------------------------------
(* Statements both use. *)

UpdateReportVersionState(p) ==
  LET s == Head(todo[p]) IN
  /\ Stmts(p, "setState")
  /\ versions' = [versions EXCEPT ![s.k].state = s.state]
  /\ Then(p, <<>>)
  /\ UNCHANGED <<audit, receipts, notices, remarks, chats, nextSeq, acks>>

AppendReportAuditEvent(p) ==
  /\ Stmts(p, "event")
  /\ audit' = audit (+) SetToBag({Head(todo[p]).e})
  /\ Then(p, <<>>)
  /\ UNCHANGED <<versions, receipts, notices, remarks, chats, nextSeq, acks>>

\* InsertInvalidationNotice and each insert of InsertRemarkSet: the number
\* is drawn (BIGSERIAL) ...
DrawSeq(p) ==
  LET s == Head(todo[p]) IN
  /\ Stmts(p, "insert")
  /\ nextSeq' = [nextSeq EXCEPT ![s.q] = @ + 1]
  /\ Then(p, <<[op |-> "commit", q |-> s.q, seq |-> nextSeq[s.q],
                row |-> s.row]>>)
  /\ UNCHANGED <<versions, audit, receipts, notices, remarks, chats, acks>>

\* ... and the row is visible when the statement commits.
CommitInsert(p) ==
  LET s == Head(todo[p]) IN
  /\ Stmts(p, "commit")
  /\ IF s.q = "notice"
     THEN /\ notices' = notices \cup {[seq |-> s.seq, r |-> s.row.r,
                                       v |-> s.row.v, rules |-> s.row.rules]}
          /\ UNCHANGED remarks
     ELSE /\ remarks' = remarks \cup {[seq |-> s.seq, set |-> s.row.set,
                                       field |-> s.row.field, r |-> s.row.r,
                                       v |-> s.row.v]}
          /\ UNCHANGED notices
  /\ Then(p, <<>>)
  /\ UNCHANGED <<versions, audit, receipts, chats, nextSeq, acks>>

-----------------------------------------------------------------------------
(* PullInbox, pullInvalidationNotices and pullRemarks: the rows beyond the *)
(* vessel's cursor; the new cursor is the highest number among them.  The  *)
(* vessel stores both or neither.                                          *)

Beyond(q) == {row.seq : row \in {n \in Table(q) : n.seq > cursors[q]}}

\* Mutant: the new cursor is the last number the sequence has given out.
PullToSequence ==
  /\ pulled' = [q \in Streams |-> pulled[q] \cup Beyond(q)]
  /\ cursors' = [q \in Streams |-> nextSeq[q] - 1]
  /\ UNCHANGED <<tables, todo, acks, acked, sets, failures>>

PullInbox ==
  /\ pulled' = [q \in Streams |-> pulled[q] \cup Beyond(q)]
  /\ cursors' = [q \in Streams |-> Max(Beyond(q) \cup {cursors[q]})]
  /\ UNCHANGED <<tables, todo, acks, acked, sets, failures>>

-----------------------------------------------------------------------------
(* Failures. *)

\* A statement fails.  In the cascade that is only logged and the item goes
\* on to its receipt; elsewhere in an item it rejects the item, and the call
\* goes on with the next; a remark set request ends.
CascadeOps == {"cascade", "flag", "setState", "insert", "commit"}
InCascade(s) == s.op \in CascadeOps \/ (s.op = "event" /\ s.e.type # "vessel")

StatementFails(p) ==
  LET s == Head(todo[p])
      rest == Tail(todo[p])
      next == From(rest, "apply")
  IN
  /\ todo[p] # <<>> /\ s.op # "reply"
  /\ failures < MaxFailures
  /\ failures' = failures + 1
  /\ todo' = [todo EXCEPT ![p] =
                IF p \in Reviewers THEN <<>>
                ELSE IF InCascade(s) THEN From(rest, "receipt")
                ELSE IF next = <<>> THEN <<[op |-> "reply"]>> ELSE next]
  /\ UNCHANGED <<tables, acks, vessel, sets>>

\* The link drops, the office restarts, or the reply is lost: the vessel
\* learns nothing of the call and what it had not executed is not executed.
CallCut(p) ==
  /\ todo[p] # <<>>
  /\ failures < MaxFailures
  /\ failures' = failures + 1
  /\ todo' = [todo EXCEPT ![p] = <<>>]
  /\ UNCHANGED <<tables, acks, vessel, sets>>

-----------------------------------------------------------------------------
Execute(p) ==
  /\ \/ ApplyOutboxItem(p) \/ UpsertReportVersion(p) \/ LandAuditEvent(p)
     \/ RecordOutboxReceipt(p) \/ RunCascade(p) \/ FlagVersion(p)
     \/ InsertChatMessage(p) \/ UpdateReportVersionState(p)
     \/ AppendReportAuditEvent(p) \/ DrawSeq(p) \/ CommitInsert(p)
  /\ UNCHANGED <<vessel, sets, failures>>

\* The vessel's outbox when it had enqueued n items: a batch is all of it.
UpTo(n) == {i \in Items : i.no \notin acked /\ i.no <= n}

Next ==
  \/ \E p \in Calls, n \in {i.no : i \in Items} :
       \E st \in [UpTo(n) -> PushStates] : PushOutbox(p, UpTo(n), st)
  \/ \E p \in Reviewers, r \in {i.r : i \in Items}, fs \in SUBSET Fields \ {{}} :
       CreateRemarkSet(p, r, fs)
  \/ \E p \in Procs : Execute(p) \/ StatementFails(p) \/ CallCut(p)
  \/ \E p \in Calls : Reply(p)
  \/ PullInbox

Spec == Init /\ [][Next]_vars

-----------------------------------------------------------------------------
(* Properties. *)

\* An item the vessel deletes from its outbox because it was acked is in the
\* office's tables, whatever failed on the way (PushOutbox: a previously
\* received item is acked again without any work).
AckedHasLanded ==
  \A i \in Items : i.no \in acked =>
    IF i.kind = "reportVersion" THEN <<i.r, i.v>> \in Keys
    ELSE \E e \in BagToSet(audit) : e.type = "vessel" /\ e.id = i.no

\* Once a call is over, every version of the chain that breaks a rule has a
\* notice, and its latest notice names exactly the rules it breaks, whatever
\* the state the vessel pushed or a reviewer has set it to meanwhile.
NoticesCurrent ==
  failures = 0 /\ (\A p \in Calls : todo[p] = <<>>) =>
    \A k \in Chain : Broken(k) # {} => LatestRules(k) = Broken(k)

\* What lies behind the vessel's cursor has been sent to it (PullInbox: every
\* row with a cursor beyond the vessel's own).  It holds as long as one
\* process at a time inserts into a stream.
PullMissesNothing ==
  \A q \in Streams : \A row \in Table(q) :
    row.seq <= cursors[q] => row.seq \in pulled[q]

=============================================================================
