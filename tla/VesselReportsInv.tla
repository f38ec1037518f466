--------------------------- MODULE VesselReportsInv ---------------------------
(***************************************************************************)
(* The inductive invariant behind the safety theorems of VesselReports.    *)
(* It says what each pending statement may rely on: which versions it      *)
(* refers to, that they still exist, and that no statement still to come   *)
(* turns a version the office knows back into a draft.                     *)
(***************************************************************************)
EXTENDS VesselReports

Elems(q) == {q[k] : k \in DOMAIN q}

IsCommitted(r, v) == Exists(r, v) /\ InChain(rows[r][v].state)
InOutbox(r, v) ==
  \E i \in outbox : i.kind = "reportVersion" /\ i.r = r /\ i.v = v
Out(r, v) == InOutbox(r, v) \/ Landed(r, v)
LandedReport(r) == \E c \in landed : c.r = r

HandlerOps == {"save", "event", "enqueueVersion", "enqueueEvent", "delete",
               "cascade", "invalidate"}
SyncOps == {"save", "event", "push", "ackAll", "markSynced", "pull",
            "applyInbox", "notices", "storeNotice", "applyNotice", "remarks",
            "storeRemark", "applyRemarks"}

\* The items process p still works on.
ItemsOf(s) == IF s.op \in {"push", "ackAll"} THEN s.items ELSE {}

-----------------------------------------------------------------------------
\* The office's streams speak of reports it has landed, and a pending
\* statement that refers to a stream refers to positions the stream has.
StreamsOK ==
  /\ \A i \in DOMAIN notices : LandedReport(notices[i].r)
  /\ \A i \in DOMAIN remarks : LandedReport(remarks[i].r)

StreamStmtOK(s) ==
  /\ s.op = "notices" => s.i >= 1 /\ s.hi <= Len(notices)
  /\ s.op \in {"storeNotice", "applyNotice"} => s.i \in DOMAIN notices
  /\ s.op = "remarks" => /\ s.i >= 1 /\ s.hi <= Len(remarks)
                         /\ s.new \subseteq DOMAIN remarks
  /\ s.op = "storeRemark" => s.i \in DOMAIN remarks
  /\ s.op = "applyRemarks" => s.new \subseteq DOMAIN remarks

UsedOK == \A r \in Reports : rows[r] # <<>> => r \in used

\* What is queued or landed is committed, and the office's copy is true.
OutOK ==
  /\ \A i \in outbox : i.kind = "reportVersion" => IsCommitted(i.r, i.v)
  /\ \A c \in landed : IsCommitted(c.r, c.v) /\ rows[c.r][c.v].data = c.data

SyncedOK ==
  \A r \in Reports : \A v \in DOMAIN rows[r] :
    rows[r][v].state = "synced" => Landed(r, v)

\* An outbox number identifies its item, in the table and in every batch.
NumbersOK ==
  /\ \A i \in outbox : i.no < nextNo
  /\ \A i, j \in outbox : i.no = j.no => i = j
NumberStmtOK(s) ==
  \A i \in ItemsOf(s) :
    i.no < nextNo /\ \A j \in outbox : i.no = j.no => i = j

\* A batch on its way refers to versions that are queued or landed and
\* carries their data; what is being acked has landed.
BatchStmtOK(s) ==
  /\ s.op = "push" =>
       /\ \A i \in s.items : i.kind = "reportVersion" =>
            /\ Out(i.r, i.v)
            /\ \E c \in s.payload : c.r = i.r /\ c.v = i.v
       /\ \A c \in s.payload :
            Out(c.r, c.v) /\ rows[c.r][c.v].data = c.data
  /\ s.op = "ackAll" =>
       \A i \in s.items : i.kind = "reportVersion" => Landed(i.r, i.v)
  /\ s.op = "markSynced" => Landed(s.r, s.v)

\* A sync process saves committed rows of landed reports only, never submits
\* one, and the save that records an ack is not one the trigger aborts.
SyncStmtOK(s) ==
  /\ s.op \in SyncOps
  /\ StreamStmtOK(s) /\ NumberStmtOK(s) /\ BatchStmtOK(s)
  /\ s.op = "save" => /\ InChain(s.row.state) /\ s.row.state # "submitted"
                      /\ Exists(s.r, s.v)
                      /\ LandedReport(s.r)
                      /\ s.row.state = "synced" =>
                           /\ Landed(s.r, s.v)
                           /\ s.row.data = rows[s.r][s.v].data

\* The statement the handler executes next.
HeadOK(s) ==
  /\ s.op = "save" =>
       /\ s.row.state # "synced"
       /\ InChain(s.row.state) => Exists(s.r, s.v)
       /\ Editable(s.row.state) =>
            /\ s.r \in used
            /\ ~ Out(s.r, s.v)
            /\ s.v = Len(rows[s.r]) \/ s.v = Len(rows[s.r]) + 1
            /\ s.v >= 1
            /\ s.v = Len(rows[s.r]) + 1 =>
                 \A v \in DOMAIN rows[s.r] : InChain(rows[s.r][v].state)
  /\ s.op = "delete" =>
       /\ Len(rows[s.r]) = 1
       /\ Editable(rows[s.r][1].state)
       /\ ~ LandedReport(s.r)
       /\ \A i \in outbox : i.kind = "reportVersion" => i.r # s.r

\* The versions that a statement of the handler will enqueue.
Promised(s) ==
  CASE s.op = "enqueueVersion" -> {<<s.r, s.v>>}
    [] s.op = "invalidate" -> {<<c.r, c.v>> : c \in s.flagged}
    [] OTHER -> {}

\* What the handler executes after its statement s.
RestOK(s, t) ==
  /\ t.op \notin {"save", "delete"}
  /\ s.op = "delete" \/ (s.op = "save" /\ Editable(s.row.state)) =>
       t.op \in {"event", "enqueueEvent", "cascade"}
  /\ \A x \in Promised(t) :
       /\ Exists(x[1], x[2])
       /\ \/ InChain(rows[x[1]][x[2]].state)
          \/ s.op = "save" /\ s.r = x[1] /\ s.v = x[2]
  /\ t.op = "invalidate" => \A c \in t.flagged : c.row.state = "invalidated"

HandlerOK ==
  todo["handler"] # <<>> =>
    LET s == Head(todo["handler"]) IN
    /\ HeadOK(s)
    /\ \A x \in Promised(s) : IsCommitted(x[1], x[2])
    /\ s.op = "invalidate" => \A c \in s.flagged : c.row.state = "invalidated"
    /\ \A t \in Elems(Tail(todo["handler"])) : RestOK(s, t)

PendingOK ==
  /\ \A s \in Pending("handler") : s.op \in HandlerOps
  /\ \A p \in SyncProcs : \A s \in Pending(p) : SyncStmtOK(s)

\* The whole: every statement still to be executed by a handler or a sync
\* process is one that the rows, the outbox and the office's copies allow.
IInv ==
  /\ TypeOK
  /\ UsedOK
  /\ StreamsOK
  /\ HistoryCommitted
  /\ OutOK
  /\ SyncedOK
  /\ NumbersOK
  /\ HandlerOK
  /\ PendingOK

-----------------------------------------------------------------------------
(* What it takes for a submitted version to be queued. *)

\* runCascade is the last thing a handler does.
CascadeOps == {"cascade", "invalidate"}
CascadeLast(q) == \A k \in DOMAIN q : q[k].op \in CascadeOps => k = Len(q)

\* A submit is followed by its enqueue.
Queues(s, r, v) == s.op = "enqueueVersion" /\ s.r = r /\ s.v = v
SubmitOK(q) ==
  (q # <<>> /\ Head(q).op = "save" /\ Head(q).row.state = "submitted") =>
    \E t \in Elems(Tail(q)) : Queues(t, Head(q).r, Head(q).v)

\* The next statement of p records the office's ack of a version.
Acks(p, r, v) ==
  /\ todo[p] # <<>>
  /\ LET s == Head(todo[p]) IN
     /\ s.r = r /\ s.v = v
     /\ s.op = "markSynced" \/ (s.op = "save" /\ s.row.state = "synced")

\* The handler has saved the version and is about to enqueue it.
Enqueues(r, v) ==
  /\ \A s \in Pending("handler") : s.op # "save"
  /\ \E s \in Pending("handler") : Queues(s, r, v)

Covered(r, v) ==
  InOutbox(r, v) \/ Enqueues(r, v) \/ \E p \in SyncProcs : Acks(p, r, v)

\* SubmittedIsQueued, as long as no request is cut.
QueueInv ==
  /\ CascadeLast(todo["handler"]) /\ SubmitOK(todo["handler"])
  /\ aborts = 0 =>
       \A r \in Reports : \A v \in DOMAIN rows[r] :
         rows[r][v].state = "submitted" => Covered(r, v)

-----------------------------------------------------------------------------
(* What it takes for a cascade to leave nothing to do. *)

Newest(r, v) == v \in Committed(r) /\ \A u \in Committed(r) : u <= v
View == ToValidation(ListCommittedChain)

\* What a cascade has decided to write, (r, v)'s row, is still what is true.
Current(r, v, row) ==
  /\ Newest(r, v)
  /\ row.data = rows[r][v].data
  /\ row.state = "invalidated" /\ row.rules = BrokenRules(View, r)

\* A cascade that has loaded the chain and decided, with t left to write.
Writing(q, t) ==
  /\ t.op = "invalidate"
  /\ \A c \in t.flagged : Current(c.r, c.v, c.row)
  /\ Head(q).op = "save" => Current(Head(q).r, Head(q).v, Head(q).row)
  /\ \A c \in Flagged :
       \/ \E d \in t.flagged : d.r = c.r
       \/ (Head(q).op = "save" /\ Head(q).r = c.r)

\* A handler that will not run a cascade changes no committed version.
Private(q) ==
  /\ \A t \in Elems(q) : t.op # "invalidate"
  /\ q # <<>> /\ Head(q).op = "save" =>
       /\ Editable(Head(q).row.state)
       /\ ~ IsCommitted(Head(q).r, Head(q).v)

\* No save of the handler is one the trigger aborts.
Unlocked(q) ==
  q # <<>> /\ Head(q).op = "save" =>
    LET s == Head(q) IN ~ LockedAfterSubmit(s.r, s.v, s.row)

\* CascadeSettled, on a vessel that does not sync, as long as no request is
\* cut: a cascade is to come, or is writing, or has nothing to do.
CascadeInv ==
  LET q == todo["handler"] IN
  /\ CascadeLast(q)
  /\ aborts = 0 =>
       /\ Unlocked(q)
       /\ \/ \E t \in Elems(q) : t.op = "cascade"
          \/ \E t \in Elems(q) : Writing(q, t)
          \/ Flagged = {} /\ Private(q)

=============================================================================
