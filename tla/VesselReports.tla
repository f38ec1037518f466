---------------------------- MODULE VesselReports ----------------------------
(***************************************************************************)
(* The report service of one vessel for one schema: the reports, events,   *)
(* outbox and inbox tables (vessel/store), the HTTP handlers that write    *)
(* them (vessel/httpapi/reports.go) and the sync cycle (sync.go).          *)
(*                                                                         *)
(* Every store call is its own SQL statement or transaction, so a handler  *)
(* or a sync phase is a list of statements: todo[p] is what process p has  *)
(* still to execute.  A handler holds writeMu from its first load to its   *)
(* last statement; the sync processes (the interval scheduler and every    *)
(* running "Sync now" request) take no mutex at all, so their statements   *)
(* fall between a handler's and between one another's.  A statement that   *)
(* reads carries what it read to the statement that writes it back.        *)
(*                                                                         *)
(* The office is an environment here: it lands versions that reach it, and *)
(* appends invalidation notices and remarks for versions it has landed.    *)
(***************************************************************************)
EXTENDS Lifecycle, Sequences, FiniteSets

CONSTANTS
  Reports,            \* report identifiers (UUIDs, never reused)
  SyncProcs,          \* the processes that may be inside RunSyncCycle
  BrokenRules(_, _),  \* BrokenRules(chain, r): the rules that report r breaks
                      \* at error severity in the chain [reports -> Times]
  MaxVersions,        \* bound on the versions of one report
  MaxOps,             \* bound on the requests officers make
  MaxFindings,        \* bound on the findings acknowledged in one report
  MaxOffice,          \* bound on the notices and remarks the office sends
  MaxAborts,          \* bound on power cuts and cancelled requests
  MaxLost             \* bound on RPCs that fail or are rejected

ASSUME SyncProcsAssumption == "handler" \notin SyncProcs
ASSUME RulesAssumption ==
  \A S \in SUBSET Reports : \A chain \in [S -> Times] :
    \A r \in S : BrokenRules(chain, r) \subseteq RuleIDs
ASSUME BoundsAssumption ==
  /\ MaxVersions \in Nat /\ MaxOps \in Nat /\ MaxOffice \in Nat
  /\ MaxAborts \in Nat /\ MaxLost \in Nat

VARIABLES
  rows,        \* reports table: the versions 1..Len(rows[r]) of each report
  used,        \* report identifiers ever created
  trail,       \* report_events table, per report, oldest first
  outbox,      \* outbox table
  nextNo,      \* outbox_sequence.next_no
  cursors,     \* inbox_cursors: position on the notice and remark streams
  noticeRows,  \* invalidation_notices table, as the stream positions it holds
  remarkRows,  \* remarks table, as the stream positions it holds
  todo,        \* statements each process still has to execute
  phase,       \* the phase of its sync cycle a sync process last started
  landed,      \* the version copies the office has landed
  notices,     \* office stream of invalidation notices
  remarks,     \* office stream of remarks
  ops, aborts, lost  \* counters for the bounds

store == <<rows, trail, outbox, nextNo, cursors, noticeRows, remarkRows>>
office == <<landed, notices, remarks>>
counters == <<ops, aborts, lost>>
vars == <<store, used, todo, phase, office, counters>>

Procs == {"handler"} \cup SyncProcs

EventTypes == {"created", "section_saved", "health_check_result", "submitted",
               "resubmitted", "synced", "remarked", "invalidated",
               "correction_started", "finding_acknowledged"}
Entry == [v: Nat, type: EventTypes]
Item == [no: Nat, kind: {"reportVersion", "reportAuditEvent"}, r: Reports,
         v: Nat]
Cursors == [notice: Nat, remark: Nat]
Notice == [r: Reports, v: Nat, rules: SUBSET RuleIDs]
Remark == [r: Reports, v: Nat]
Loaded == [r: Reports, v: Nat, row: Row]
Copy == [r: Reports, v: Nat, data: Times]

Stmt ==
  [op: {"save"}, r: Reports, v: Nat, row: Row]
    \cup [op: {"event"}, r: Reports, v: Nat, type: EventTypes]
    \cup [op: {"enqueueVersion", "enqueueEvent", "markSynced"},
          r: Reports, v: Nat]
    \cup [op: {"delete"}, r: Reports]
    \cup [op: {"cascade"}]
    \cup [op: {"invalidate"}, flagged: SUBSET Loaded]
    \cup [op: {"push"}, items: SUBSET Item, payload: SUBSET Copy]
    \cup [op: {"ackAll"}, items: SUBSET Item]
    \cup [op: {"pull"}, cur: Cursors]
    \cup [op: {"applyInbox"}, next: Cursors]
    \cup [op: {"notices"}, i: Nat, hi: Nat]
    \cup [op: {"storeNotice", "applyNotice", "storeRemark"}, i: Nat]
    \cup [op: {"remarks"}, i: Nat, hi: Nat, new: SUBSET Nat]
    \cup [op: {"applyRemarks"}, new: SUBSET Nat]

TypeOK ==
  /\ rows \in [Reports -> Seq(Row)]
  /\ used \subseteq Reports
  /\ trail \in [Reports -> Seq(Entry)]
  /\ outbox \subseteq Item
  /\ nextNo \in Nat
  /\ cursors \in Cursors
  /\ noticeRows \subseteq Nat
  /\ remarkRows \subseteq Nat
  /\ todo \in [Procs -> Seq(Stmt)]
  /\ phase \in [SyncProcs -> {"push", "pull"}]
  /\ landed \subseteq Copy
  /\ notices \in Seq(Notice)
  /\ remarks \in Seq(Remark)
  /\ ops \in Nat /\ aborts \in Nat /\ lost \in Nat

Init ==
  /\ rows = [r \in Reports |-> <<>>]
  /\ used = {}
  /\ trail = [r \in Reports |-> <<>>]
  /\ outbox = {}
  /\ nextNo = 1
  /\ cursors = [notice |-> 0, remark |-> 0]
  /\ noticeRows = {} /\ remarkRows = {}
  /\ todo = [p \in Procs |-> <<>>]
  /\ phase = [p \in SyncProcs |-> "pull"]
  /\ landed = {} /\ notices = <<>> /\ remarks = <<>>
  /\ ops = 0 /\ aborts = 0 /\ lost = 0

-----------------------------------------------------------------------------
(* Queries of vessel/store/reports.go. *)

Exists(r, v) == v \in DOMAIN rows[r]
Latest(r) == rows[r][Len(rows[r])]
Committed(r) == {v \in DOMAIN rows[r] : InChain(rows[r][v].state)}

\* ListCommittedChain: of every report that has one, the latest version in
\* a committed state.
ListCommittedChain ==
  UNION {{[r |-> r, v |-> v, row |-> rows[r][v]] :
            v \in {w \in Committed(r) : \A u \in Committed(r) : u <= w}} :
         r \in Reports}

\* The view of a chain that the rule engine works on (ToValidation).
ToValidation(chain) ==
  [r \in {c.r : c \in chain} |-> (CHOOSE c \in chain : c.r = r).row.data]

\* EvaluateContinuity: the rules r would break with event time t, its own
\* earlier version replaced.
EvaluateContinuity(r, t) ==
  LET chain == ToValidation({c \in ListCommittedChain : c.r # r})
  IN BrokenRules([s \in DOMAIN chain \cup {r} |->
                    IF s = r THEN t ELSE chain[s]], r)

\* The part of runCascade between loading the chain and writing it back.
Flagged ==
  LET chain == ListCommittedChain
      broken(c) == BrokenRules(ToValidation(chain), c.r)
  IN {[c EXCEPT !.row = Invalidate(c.row, broken(c))] :
        c \in {d \in chain : /\ broken(d) # {}
                             /\ ~ /\ d.row.state = "invalidated"
                                  /\ d.row.rules = broken(d)}}

-----------------------------------------------------------------------------
(* Statements. *)

save(r, v, row) == [op |-> "save", r |-> r, v |-> v, row |-> row]
event(r, v, type) == [op |-> "event", r |-> r, v |-> v, type |-> type]
enqueueVersion(r, v) == [op |-> "enqueueVersion", r |-> r, v |-> v]
enqueueEvent(r, v) == [op |-> "enqueueEvent", r |-> r, v |-> v]
cascade == [op |-> "cascade"]

\* Process p goes on with the statements s in front of what it had left.
Then(p, s) == todo' = [todo EXCEPT ![p] = s \o Tail(@)]
Return(p) == todo' = [todo EXCEPT ![p] = <<>>]
Stmts(p, op) == todo[p] # <<>> /\ Head(todo[p]).op = op

-----------------------------------------------------------------------------
(* HTTP handlers.  Each is the load and the checks; the statements follow. *)

Handle(s) ==
  /\ todo["handler"] = <<>>
  /\ ops < MaxOps
  /\ ops' = ops + 1
  /\ todo' = [todo EXCEPT !["handler"] = s]
  /\ UNCHANGED <<store, phase, office, aborts, lost>>

CreateReport(r, t) ==
  /\ r \notin used
  /\ used' = used \cup {r}
  /\ Handle(<<save(r, 1, NewReport(t)), event(r, 1, "created"),
              enqueueEvent(r, 1), cascade>>)

\* Mutant: the draft/ready check is dropped.
LoadAny(r) == rows[r] # <<>>

\* loadEditableReport
LoadEditable(r) == rows[r] # <<>> /\ Editable(Latest(r).state)

\* Mutant: the VersionNo == 1 check is dropped.
DeleteAnyVersion(r) ==
  /\ LoadEditable(r)
  /\ Handle(<<[op |-> "delete", r |-> r], cascade>>)
  /\ UNCHANGED used

DeleteReport(r) ==
  /\ LoadEditable(r)
  /\ Len(rows[r]) = 1
  /\ Handle(<<[op |-> "delete", r |-> r], cascade>>)
  /\ UNCHANGED used

SaveSectionOf(r, t) ==
  LET v == Len(rows[r]) IN
  /\ LoadEditable(r)
  /\ Handle(<<save(r, v, SaveSection(Latest(r), t)),
              event(r, v, "section_saved"), enqueueEvent(r, v), cascade>>)
  /\ UNCHANGED used

\* fieldsOk: no error among the field and plausibility findings.
CheckReport(r, fieldsOk) ==
  LET v == Len(rows[r])
      hasErrors == ~ fieldsOk \/ EvaluateContinuity(r, Latest(r).data) # {}
  IN
  /\ LoadEditable(r)
  /\ Handle(<<save(r, v, MarkReady(Latest(r), hasErrors)),
              event(r, v, "health_check_result"), enqueueEvent(r, v)>>)
  /\ UNCHANGED used

\* handleAcknowledgeFinding: an audit event, queued at once, and nothing else.
AcknowledgeFinding(r) ==
  LET v == Len(rows[r])
      before == {i \in DOMAIN trail[r] : trail[r][i].type = "finding_acknowledged"}
  IN
  /\ LoadEditable(r)
  /\ Cardinality(before) < MaxFindings
  /\ Handle(<<event(r, v, "finding_acknowledged"), enqueueEvent(r, v)>>)
  /\ UNCHANGED used

\* Mutant: the version is saved and never enqueued.
SubmitUnqueued(r) ==
  LET v == Len(rows[r]) IN
  /\ rows[r] # <<>>
  /\ CanSubmit(Latest(r))
  /\ Handle(<<save(r, v, Submit(Latest(r))), event(r, v, SubmitEvent(v)),
              enqueueEvent(r, v), cascade>>)
  /\ UNCHANGED used

\* Mutant: no cascade after the submit.
SubmitUncascaded(r) ==
  LET v == Len(rows[r]) IN
  /\ rows[r] # <<>>
  /\ CanSubmit(Latest(r))
  /\ Handle(<<save(r, v, Submit(Latest(r))), event(r, v, SubmitEvent(v)),
              enqueueVersion(r, v), enqueueEvent(r, v)>>)
  /\ UNCHANGED used

SubmitReport(r) ==
  LET v == Len(rows[r]) IN
  /\ rows[r] # <<>>
  /\ CanSubmit(Latest(r))
  /\ Handle(<<save(r, v, Submit(Latest(r))), event(r, v, SubmitEvent(v)),
              enqueueVersion(r, v), enqueueEvent(r, v), cascade>>)
  /\ UNCHANGED used

\* Mutant: the correction keeps the version number it corrects.
CorrectInPlace(r) ==
  LET v == Len(rows[r]) IN
  /\ rows[r] # <<>>
  /\ v < MaxVersions
  /\ CanCorrect(Latest(r))
  /\ Handle(<<save(r, v, NewCorrection(Latest(r))),
              event(r, v, "correction_started"), enqueueEvent(r, v)>>)
  /\ UNCHANGED used

StartCorrection(r) ==
  LET v == Len(rows[r]) IN
  /\ rows[r] # <<>>
  /\ v < MaxVersions
  /\ CanCorrect(Latest(r))
  /\ Handle(<<save(r, v + 1, NewCorrection(Latest(r))),
              event(r, v, "correction_started"), enqueueEvent(r, v)>>)
  /\ UNCHANGED used

-----------------------------------------------------------------------------
(* Report statements. *)

\* Mutant: no trigger.
NeverLocked(r, v, row) == FALSE

\* SaveReport is an upsert; the reports_locked_after_submit trigger aborts
\* an update that would change the data of a committed version.
LockedAfterSubmit(r, v, row) ==
  Exists(r, v) /\ InChain(rows[r][v].state) /\ row.data # rows[r][v].data

SaveReport(p) ==
  LET s == Head(todo[p]) IN
  /\ Stmts(p, "save")
  /\ IF LockedAfterSubmit(s.r, s.v, s.row)
     THEN Return(p) /\ UNCHANGED rows
     ELSE /\ Then(p, <<>>)
          /\ rows' = [rows EXCEPT ![s.r] =
                        IF Exists(s.r, s.v) THEN [@ EXCEPT ![s.v] = s.row]
                                            ELSE Append(@, s.row)]
  /\ UNCHANGED <<trail, outbox, nextNo, cursors, noticeRows, remarkRows>>

AppendEvent(p) ==
  LET s == Head(todo[p]) IN
  /\ Stmts(p, "event")
  /\ trail' = [trail EXCEPT ![s.r] = Append(@, [v |-> s.v, type |-> s.type])]
  /\ Then(p, <<>>)
  /\ UNCHANGED <<rows, outbox, nextNo, cursors, noticeRows, remarkRows>>

\* EnqueueReportVersion and EnqueueReportAuditEvent: one transaction that
\* takes the next sequence number.
EnqueueOutboxItem(p) ==
  LET s == Head(todo[p])
      kind == IF s.op = "enqueueVersion" THEN "reportVersion"
                                         ELSE "reportAuditEvent"
  IN
  /\ Stmts(p, "enqueueVersion") \/ Stmts(p, "enqueueEvent")
  /\ outbox' = outbox \cup {[no |-> nextNo, kind |-> kind, r |-> s.r, v |-> s.v]}
  /\ nextNo' = nextNo + 1
  /\ Then(p, <<>>)
  /\ UNCHANGED <<rows, trail, cursors, noticeRows, remarkRows>>

\* DeleteReport's transaction; the outbox is not part of it.
DeleteRows(p) ==
  LET r == Head(todo[p]).r IN
  /\ Stmts(p, "delete")
  /\ rows' = [rows EXCEPT ![r] = <<>>]
  /\ trail' = [trail EXCEPT ![r] = <<>>]
  /\ noticeRows' = {i \in noticeRows : notices[i].r # r}
  /\ remarkRows' = {i \in remarkRows : remarks[i].r # r}
  /\ Then(p, <<>>)
  /\ UNCHANGED <<outbox, nextNo, cursors>>

\* runCascade loads the committed chain and decides whom to invalidate ...
RunCascade(p) ==
  /\ Stmts(p, "cascade")
  /\ Then(p, <<[op |-> "invalidate", flagged |-> Flagged]>>)
  /\ UNCHANGED store

\* ... and then writes the flagged reports one by one, in event time order.
\* The office is told only of versions that had left draft/ready.
InvalidateFlagged(p) ==
  LET flagged == Head(todo[p]).flagged IN
  /\ Stmts(p, "invalidate")
  /\ \/ flagged = {} /\ Then(p, <<>>)
     \/ \E c \in flagged :
          /\ \A d \in flagged : c.row.data <= d.row.data
          /\ Then(p, <<save(c.r, c.v, c.row), event(c.r, c.v, "invalidated")>>
                      \o (IF Editable(c.row.invFrom) THEN <<>>
                          ELSE <<enqueueVersion(c.r, c.v),
                                 enqueueEvent(c.r, c.v)>>)
                      \o <<[op |-> "invalidate", flagged |-> flagged \ {c}]>>)
  /\ UNCHANGED store

-----------------------------------------------------------------------------
(* RunSyncCycle: push, then pull; each phase runs whether or not the one   *)
(* before it failed.                                                       *)

\* buildOutboxItem fails for an item whose report is gone: its rows and its
\* events were deleted.  Such items are skipped and stay queued.
Hydrates(item) ==
  IF item.kind = "reportVersion" THEN Exists(item.r, item.v)
                                 ELSE trail[item.r] # <<>>

\* The version copies a batch carries, read from the reports table.
Payload(items) ==
  {[r |-> i.r, v |-> i.v, data |-> rows[i.r][i.v].data] :
     i \in {j \in items : j.kind = "reportVersion"}}

\* pushOutboxBatch up to the call.  The items are read one by one; the rows
\* of queued versions are locked, so when they are read makes no difference.
PushOutboxBatch(p) ==
  LET items == {i \in outbox : Hydrates(i)} IN
  /\ todo[p] = <<>>
  /\ phase[p] = "pull"
  /\ phase' = [phase EXCEPT ![p] = "push"]
  /\ todo' = [todo EXCEPT ![p] =
                IF items = {} THEN <<>>
                ELSE <<[op |-> "push", items |-> items,
                        payload |-> Payload(items)]>>]
  /\ UNCHANGED <<store, used, office, counters>>

LandedBy(items, payload) ==
  {c \in payload : \E i \in items : /\ i.kind = "reportVersion"
                                   /\ i.r = c.r /\ i.v = c.v}

\* Mutant: the vessel acks the whole batch although some items were rejected.
PushAcksRejected(p) ==
  LET items == Head(todo[p]).items
      payload == Head(todo[p]).payload
  IN
  /\ Stmts(p, "push")
  /\ \/ /\ landed' = landed \cup LandedBy(items, payload)
        /\ UNCHANGED lost
     \/ /\ lost < MaxLost
        /\ lost' = lost + 1
        /\ \E accepted \in SUBSET items :
             landed' = landed \cup LandedBy(accepted, payload)
  /\ Then(p, <<[op |-> "ackAll", items |-> items]>>)
  /\ UNCHANGED <<store, used, phase, notices, remarks, ops, aborts>>

\* The office acks every item.  If the call fails part-way or the office
\* rejects items it has landed only some, and the reply may get lost.
PushOutbox(p) ==
  LET items == Head(todo[p]).items
      payload == Head(todo[p]).payload
  IN
  /\ Stmts(p, "push")
  /\ \/ /\ landed' = landed \cup LandedBy(items, payload)
        /\ Then(p, <<[op |-> "ackAll", items |-> items]>>)
        /\ UNCHANGED lost
     \/ /\ lost < MaxLost
        /\ lost' = lost + 1
        /\ \E accepted \in SUBSET items :
             /\ landed' = landed \cup LandedBy(accepted, payload)
             /\ \/ Then(p, <<[op |-> "ackAll", items |-> accepted]>>)
                \/ Return(p)
  /\ UNCHANGED <<store, used, phase, notices, remarks, ops, aborts>>

\* AckOutboxItem for each accepted item in turn, and markReportSynced after
\* the ack of a report version.
AckOutboxItem(p) ==
  LET items == Head(todo[p]).items IN
  /\ Stmts(p, "ackAll")
  /\ \/ items = {} /\ Then(p, <<>>) /\ UNCHANGED outbox
     \/ \E i \in items :
          /\ \A j \in items : i.no <= j.no
          /\ outbox' = {j \in outbox : j.no # i.no}
          /\ Then(p, (IF i.kind = "reportVersion"
                      THEN <<[op |-> "markSynced", r |-> i.r, v |-> i.v]>>
                      ELSE <<>>)
                     \o <<[op |-> "ackAll", items |-> items \ {i}]>>)
  /\ UNCHANGED <<rows, trail, nextNo, cursors, noticeRows, remarkRows>>

MarkReportSynced(p) ==
  LET s == Head(todo[p]) IN
  /\ Stmts(p, "markSynced")
  /\ IF ~ Exists(s.r, s.v) THEN Return(p)
     ELSE Then(p, IF CanMarkSynced(rows[s.r][s.v])
                  THEN <<save(s.r, s.v, MarkSynced(rows[s.r][s.v])),
                         event(s.r, s.v, "synced")>>
                  ELSE <<>>)
  /\ UNCHANGED store

PullInboxBatch(p) ==
  /\ todo[p] = <<>>
  /\ phase[p] = "push"
  /\ phase' = [phase EXCEPT ![p] = "pull"]
  /\ todo' = [todo EXCEPT ![p] = <<[op |-> "pull", cur |-> cursors]>>]
  /\ UNCHANGED <<store, used, office, counters>>

\* The office returns what lies beyond the cursors, or the call fails.
PullInbox(p) ==
  LET cur == Head(todo[p]).cur
      next == [notice |-> Len(notices), remark |-> Len(remarks)]
  IN
  /\ Stmts(p, "pull")
  /\ \/ /\ Then(p, <<[op |-> "applyInbox", next |-> next],
                      [op |-> "notices", i |-> cur.notice + 1,
                       hi |-> next.notice],
                      [op |-> "remarks", i |-> cur.remark + 1,
                       hi |-> next.remark, new |-> {}]>>)
        /\ UNCHANGED lost
     \/ lost < MaxLost /\ lost' = lost + 1 /\ Return(p)
  /\ UNCHANGED <<store, used, phase, office, ops, aborts>>

\* ApplyInboxPull's transaction: the cursors are set whatever they were.
ApplyInboxPull(p) ==
  /\ Stmts(p, "applyInbox")
  /\ cursors' = Head(todo[p]).next
  /\ Then(p, <<>>)
  /\ UNCHANGED <<rows, trail, outbox, nextNo, noticeRows, remarkRows>>

\* The loop over the pulled notices: store, then apply, one after another.
EachNotice(p) ==
  LET s == Head(todo[p]) IN
  /\ Stmts(p, "notices")
  /\ Then(p, IF s.i > s.hi THEN <<>>
             ELSE <<[op |-> "storeNotice", i |-> s.i],
                    [op |-> "applyNotice", i |-> s.i],
                    [op |-> "notices", i |-> s.i + 1, hi |-> s.hi]>>)
  /\ UNCHANGED store

\* A notice equal to the latest one stored for its version adds no row; its
\* position counts as stored, for the table holds what it says.
InsertInvalidationNotice(p) ==
  /\ Stmts(p, "storeNotice")
  /\ noticeRows' = noticeRows \cup {Head(todo[p]).i}
  /\ Then(p, <<>>)
  /\ UNCHANGED <<rows, trail, outbox, nextNo, cursors, remarkRows>>

\* The notice names a version; the latest version is the one invalidated.
ApplyInvalidationNotice(p) ==
  LET n == notices[Head(todo[p]).i]
      v == Len(rows[n.r])
  IN
  /\ Stmts(p, "applyNotice")
  /\ Then(p, IF \/ rows[n.r] = <<>>
                \/ /\ Latest(n.r).state = "invalidated"
                   /\ Latest(n.r).rules = n.rules
             THEN <<>>
             ELSE <<save(n.r, v, Invalidate(Latest(n.r), n.rules)),
                    event(n.r, v, "invalidated")>>)
  /\ UNCHANGED store

\* The loop over the pulled remarks: SELECT EXISTS, then insert.  Those
\* found new are applied once all are inserted.  A remark here is a remark
\* set: the fields flagged by one reviewer action.
EachRemark(p) ==
  LET s == Head(todo[p]) IN
  /\ Stmts(p, "remarks")
  /\ Then(p, IF s.i > s.hi
             THEN <<[op |-> "applyRemarks", new |-> s.new]>>
             ELSE <<[op |-> "storeRemark", i |-> s.i],
                    [op |-> "remarks", i |-> s.i + 1, hi |-> s.hi,
                     new |-> IF s.i \in remarkRows THEN s.new
                             ELSE s.new \cup {s.i}]>>)
  /\ UNCHANGED store

InsertRemark(p) ==
  /\ Stmts(p, "storeRemark")
  /\ remarkRows' = remarkRows \cup {Head(todo[p]).i}
  /\ Then(p, <<>>)
  /\ UNCHANGED <<rows, trail, outbox, nextNo, cursors, noticeRows>>

\* applyRemarks walks a map, so the sets come in any order.  As for a
\* notice, the latest version is the one remarked, if it can be.
ApplyRemarks(p) ==
  LET new == Head(todo[p]).new IN
  /\ Stmts(p, "applyRemarks")
  /\ \/ new = {} /\ Then(p, <<>>)
     \/ \E i \in new :
          LET r == remarks[i].r
              v == Len(rows[r])
          IN Then(p, (IF rows[r] # <<>> /\ CanMarkRemarked(Latest(r))
                      THEN <<save(r, v, MarkRemarked(Latest(r))),
                             event(r, v, "remarked")>>
                      ELSE <<>>)
                     \o <<[op |-> "applyRemarks", new |-> new \ {i}]>>)
  /\ UNCHANGED store

-----------------------------------------------------------------------------
(* The office, seen from the vessel. *)

Landed(r, v) == \E c \in landed : c.r = r /\ c.v = v
LatestLanded(r, v) ==
  Landed(r, v) /\ \A c \in landed : c.r = r => c.v <= v

\* The office's cascade flags the latest version it holds of a report.
OfficeInvalidates(r, v, rules) ==
  /\ LatestLanded(r, v)
  /\ Len(notices) + Len(remarks) < MaxOffice
  /\ notices' = Append(notices, [r |-> r, v |-> v, rules |-> rules])
  /\ UNCHANGED <<store, used, todo, phase, landed, remarks, counters>>

OfficeRemarks(r, v) ==
  /\ LatestLanded(r, v)
  /\ Len(notices) + Len(remarks) < MaxOffice
  /\ remarks' = Append(remarks, [r |-> r, v |-> v])
  /\ UNCHANGED <<store, used, todo, phase, landed, notices, counters>>

\* A cancelled request, a failed statement or a power cut: whatever p had
\* not executed yet is never executed.  A power cut ends every process.
Abort(p) ==
  /\ todo[p] # <<>>
  /\ aborts < MaxAborts
  /\ aborts' = aborts + 1
  /\ Return(p)
  /\ UNCHANGED <<store, used, phase, office, ops, lost>>

-----------------------------------------------------------------------------
Request ==
  \E r \in Reports :
    \/ \E t \in Times : CreateReport(r, t) \/ SaveSectionOf(r, t)
    \/ \E ok \in BOOLEAN : CheckReport(r, ok)
    \/ SubmitReport(r)
    \/ StartCorrection(r)
    \/ AcknowledgeFinding(r)
    \/ DeleteReport(r)

\* One statement of process p on the vessel's store.
Execute(p) ==
  /\ \/ SaveReport(p) \/ AppendEvent(p) \/ EnqueueOutboxItem(p)
     \/ DeleteRows(p) \/ RunCascade(p) \/ InvalidateFlagged(p)
     \/ AckOutboxItem(p) \/ MarkReportSynced(p)
     \/ ApplyInboxPull(p) \/ EachNotice(p) \/ InsertInvalidationNotice(p)
     \/ ApplyInvalidationNotice(p) \/ EachRemark(p) \/ InsertRemark(p)
     \/ ApplyRemarks(p)
  /\ UNCHANGED <<used, phase, office, counters>>

Sync(p) ==
  PushOutboxBatch(p) \/ PushOutbox(p) \/ PullInboxBatch(p) \/ PullInbox(p)

Office ==
  \E r \in Reports, v \in 1..MaxVersions :
    \/ \E rules \in SUBSET RuleIDs \ {{}} : OfficeInvalidates(r, v, rules)
    \/ OfficeRemarks(r, v)

Next ==
  \/ Request
  \/ \E p \in Procs : Execute(p) \/ Abort(p)
  \/ \E p \in SyncProcs : Sync(p)
  \/ Office

\* The scheduler starts a cycle every interval, and the runtime runs every
\* goroutine: a process with a statement to execute executes it.
Fairness ==
  /\ \A p \in Procs : WF_vars(Execute(p))
  /\ \A p \in SyncProcs : WF_vars(Sync(p))

Spec == Init /\ [][Next]_vars
FairSpec == Spec /\ Fairness

-----------------------------------------------------------------------------
(* Properties. *)

StateOf(r, v) == IF Exists(r, v) THEN rows[r][v].state ELSE ""
Idle(p) == todo[p] = <<>>
Pending(p) == {todo[p][k] : k \in DOMAIN todo[p]}

\* A correction starts only from a committed version (NewCorrection's guard
\* under writeMu): whatever the sync processes write meanwhile, every
\* version of a report but its newest is committed.
HistoryCommitted ==
  \A r \in Reports : \A v \in DOMAIN rows[r] :
    v < Len(rows[r]) => InChain(rows[r][v].state)

\* A version that is in the outbox or at the office exists and is committed
\* on the vessel: no handler's late SaveReport turns it back into a draft and
\* DeleteReport never removes it.
OutIsCommitted ==
  /\ \A i \in outbox : i.kind = "reportVersion" => InChain(StateOf(i.r, i.v))
                                               /\ Exists(i.r, i.v)
  /\ \A c \in landed : Exists(c.r, c.v) /\ InChain(StateOf(c.r, c.v))

\* EnqueueReportVersion stores a reference and the row is read at push time
\* ("submitted versions are immutable, so there is nothing to duplicate"):
\* what the office landed is what the vessel still holds.
OfficeCopyFaithful ==
  \A c \in landed : Exists(c.r, c.v) /\ rows[c.r][c.v].data = c.data

\* markReportSynced runs on an office ack only: a synced version has landed.
SyncedHasLanded ==
  \A r \in Reports : \A v \in DOMAIN rows[r] :
    rows[r][v].state = "synced" => Landed(r, v)

\* StateSubmitted means "queued in the outbox": the version is queued, or
\* the process that queues it or records its ack is at work.
SubmittedIsQueued ==
  \A r \in Reports : \A v \in DOMAIN rows[r] :
    rows[r][v].state = "submitted" =>
      \/ \E i \in outbox : i.kind = "reportVersion" /\ i.r = r /\ i.v = v
      \/ \E p \in Procs : \E s \in Pending(p) :
           /\ s.op \in {"enqueueVersion", "markSynced", "save"}
           /\ s.r = r /\ s.v = v
           /\ s.op = "save" => s.row.state = "synced"

\* A submitted version reaches the office and leaves StateSubmitted.
SubmittedIsDelivered ==
  \A r \in Reports, v \in 1..MaxVersions :
    StateOf(r, v) = "submitted" ~>
      Landed(r, v) /\ StateOf(r, v) # "submitted"

\* Between requests cascade revalidation has nothing left to do: every
\* version of the committed chain that breaks a rule is recorded as
\* invalidated with exactly the rules it breaks.
CascadeSettled == Idle("handler") => Flagged = {}

\* The data of a committed version never changes, and the version never
\* goes away (reports_locked_after_submit; handleDeleteReport's guards).
CommittedDataLocked ==
  [][\A r \in Reports : \A v \in DOMAIN rows[r] :
       InChain(rows[r][v].state) =>
         v \in DOMAIN rows'[r] /\ rows'[r][v].data = rows[r][v].data]_vars

\* The report data of every version, and what the office holds of it, evolve
\* as ReportHistory allows.
History ==
  INSTANCE ReportHistory
    WITH versions <- [r \in Reports |-> [v \in DOMAIN rows[r] |->
                                          rows[r][v].data]],
         delivered <- landed
HistorySpec == History!HistSpec

=============================================================================
