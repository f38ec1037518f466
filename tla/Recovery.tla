------------------------------- MODULE Recovery -------------------------------
(***************************************************************************)
(* A vessel's database is taken back to a snapshot (vessel/httpapi/         *)
(* backup.go) or lost with its computer and rebuilt from what the office    *)
(* has (office/restorebundle, office/syncservice/restorebundle.go), while   *)
(* chat messages travel both ways and one report is corrected: what is on   *)
(* the two chat walls (vessel/httpapi/chat.go, office/httpapi/chat.go) and   *)
(* what of the report is aboard afterwards.                                 *)
(*                                                                         *)
(* Enrollment has what an enrollment is made of: here it is one step.  Of    *)
(* the statements of a submission, which VesselReports has, two are here:    *)
(* the report saved and the version queued.  Audit events, attachments and   *)
(* the config bundle are left out.  At the office, an insert into a stream   *)
(* draws its seq, and pulls and bundles see the row once it is committed.    *)
(***************************************************************************)
EXTENDS Integers, FiniteSets, Functions, SequencesExt

CONSTANTS
  Cycles,       \* sync cycles
  MaxEdits,     \* bound on requests about the report
  MaxMessages,  \* bound on chat messages
  MaxBundles,   \* bound on restore bundles an Admin asks for
  MaxRequests,  \* bound on all these together
  MaxFailures   \* bound on power cuts, lost calls, restored snapshots, lost computers

ASSUME CyclesAssumption == "import" \notin Cycles

VARIABLES
  db,        \* the vessel's database
  snapshot,  \* its one snapshot
  session,   \* the user who is logged in aboard
  post,      \* a chat message stored aboard and not yet queued
  submitting, \* a version saved as submitted and not yet queued
  work,      \* how far each cycle, and the import of a file, is
  chat,      \* chat_messages at the office: what drew each seq
  unsaid,    \* the seqs among them whose row is not committed
  receipts,  \* outbox_receipts at the office
  landed,    \* report_versions at the office: data by number
  commands,  \* restore_commands at the office: what drew each seq
  unasked,   \* the seqs among them whose row is not committed
  items, masters, authors,       \* ids: outbox items, users, messages' authors
  executed, restored,            \* history: commands executed, bundle last gone in
  unqueued, unsent,              \* history: messages, data of versions, never queued
  missed, skipped,               \* history: seqs of messages, of commands, not committed
                                 \* when a pull that moved the cursor past them read them
  edits, imports, failures       \* counters

vessel == <<db, snapshot, session, post, submitting>>
messages == <<chat, unsaid>>
orders == <<commands, unasked>>
office == <<chat, unsaid, receipts, landed, commands, unasked>>
ids == <<items, masters, authors>>
cut == <<unqueued, unsent>>
overtaken == <<missed, skipped>>
history == <<executed, restored, unqueued, unsent, missed, skipped>>
bounds == <<edits, imports, failures>>
vars == <<vessel, work, office, ids, history, bounds>>

None == [stage |-> "none"]
Rest == [stage |-> "rest"]
Workers == Cycles \cup {"import"}

\* A computer on which nothing has been set up.
Fresh == [ready |-> FALSE, master |-> 0, enrolled |-> FALSE, versions |-> <<>>, wall |-> {}, outbox |-> <<>>,
          chatCursor |-> 0, restoreCursor |-> 0]

\* A vessel that is set up, and whose report has reached the office.
Init ==
  /\ snapshot = None /\ session = 1 /\ post = 0 /\ submitting = 0
  /\ db = [Fresh EXCEPT !.ready = TRUE, !.master = 1, !.enrolled = TRUE,
                        !.versions = <<[data |-> 0, state |-> "synced"]>>]
  /\ landed = <<0>>
  /\ work = [w \in Workers |-> Rest]
  /\ chat = <<>> /\ unsaid = {} /\ receipts = {} /\ commands = <<>> /\ unasked = {}
  /\ items = 0 /\ masters = 1 /\ authors = <<>>
  /\ executed = {} /\ restored = <<>>
  /\ unqueued = {} /\ unsent = {} /\ missed = {} /\ skipped = {}
  /\ edits = 0 /\ imports = 0 /\ failures = 0

Put(f, k, v) == [x \in DOMAIN f \cup {k} |-> IF x = k THEN v ELSE f[x]]
Room == edits + Len(authors) + Len(commands) + imports < MaxRequests
Fails == failures < MaxFailures /\ failures' = failures + 1
Go(w, to) == work' = [work EXCEPT ![w] = to]

\* The positions of S, in ascending order.
InOrder(S) ==
  {q \in [1..Cardinality(S) -> S] : \A j, k \in DOMAIN q : j < k => q[j] < q[k]}

\* authenticatedUser: the session's user is one of this database.
LoggedIn == session # 0 /\ session = db.master

-----------------------------------------------------------------------------
(* Setting the vessel up, and who is logged in. *)

\* setupAlreadyComplete: until then the setup is open to anyone.
SetupComplete == db.master # 0

\* The data directory, the same one every time it is chosen.
SetupMode ==
  /\ ~SetupComplete /\ ~db.ready
  /\ db' = [db EXCEPT !.ready = TRUE]
  /\ UNCHANGED <<snapshot, session, post, submitting, work, office, ids, history, bounds>>

\* Enrollment at the office and its redemption aboard.
Enroll ==
  /\ db.ready /\ ~db.enrolled /\ (SetupComplete => LoggedIn)
  /\ db' = [db EXCEPT !.enrolled = TRUE]
  /\ UNCHANGED <<snapshot, session, post, submitting, work, office, ids, history, bounds>>

SetupMaster ==
  /\ db.ready /\ ~SetupComplete
  /\ masters' = masters + 1 /\ session' = masters + 1
  /\ db' = [db EXCEPT !.master = masters + 1]
  /\ UNCHANGED <<snapshot, post, submitting, work, office, items, authors, history, bounds>>

Login ==
  /\ SetupComplete /\ session' = db.master /\ session # db.master
  /\ UNCHANGED <<db, snapshot, post, submitting, work, office, ids, history, bounds>>

-----------------------------------------------------------------------------
(* The report. *)

Newest == IF DOMAIN db.versions = {} THEN 0 ELSE Max(DOMAIN db.versions)

\* StartCorrection, and the saves of its sections: data nobody wrote before.
\* It waits for a submission under way, as that waits for another (writeMu).
StartCorrection ==
  /\ LoggedIn /\ submitting = 0
  /\ Room /\ edits < MaxEdits /\ edits' = edits + 1
  /\ Newest # 0 /\ db.versions[Newest].state # "draft"
  /\ db' = [db EXCEPT !.versions = Put(@, Newest + 1, [data |-> edits', state |-> "draft"])]
  /\ UNCHANGED <<snapshot, session, post, submitting, work, office, ids, history,
                 imports, failures>>

Queued(body) == Append(db.outbox, [id |-> items + 1, body |-> body])

\* handleSubmitReport: the report is saved,
SubmitReport ==
  /\ LoggedIn /\ submitting = 0
  /\ Room /\ edits < MaxEdits /\ edits' = edits + 1
  /\ Newest # 0 /\ db.versions[Newest].state = "draft"
  /\ db' = [db EXCEPT !.versions = Put(@, Newest, [@[Newest] EXCEPT !.state = "submitted"])]
  /\ submitting' = Newest
  /\ UNCHANGED <<snapshot, session, post, work, office, ids, history, imports, failures>>

\* and the version queued.
EnqueueReportVersion ==
  /\ submitting # 0
  /\ db' = [db EXCEPT !.outbox = Queued([kind |-> "version", no |-> submitting])]
  /\ items' = items + 1 /\ submitting' = 0
  /\ UNCHANGED <<snapshot, session, post, work, office, masters, authors, history, bounds>>

\* What is submitted in a database and will not be queued, its handler gone.
Unsent(d, no) == IF no = 0 THEN {} ELSE {d.versions[no].data}

-----------------------------------------------------------------------------
(* The chat walls. *)

\* On the wire a message has no direction: who receives it knows it.
ChatMessageToDomain(id, direction) == [id |-> id, by |-> direction]
Row(id) == ChatMessageToDomain(id, authors[id])
OnWall(id) == \E row \in db.wall : row.id = id
AtOffice(id) == \E i \in DOMAIN chat : chat[i].id = id

NewChatMessage(by) ==
  Room /\ Len(authors) < MaxMessages /\ authors' = Append(authors, by)

\* handlePostChat aboard, first statement: about a report that is there.
InsertChatMessage ==
  /\ LoggedIn /\ post = 0 /\ Newest # 0
  /\ NewChatMessage("vessel")
  /\ post' = Len(authors')
  /\ db' = [db EXCEPT !.wall = @ \cup {[id |-> post', by |-> "vessel"]}]
  /\ UNCHANGED <<snapshot, session, submitting, work, office, items, masters, history,
                 bounds>>

EnqueueChatMessage ==
  /\ post # 0
  /\ db' = [db EXCEPT !.outbox = Queued([kind |-> "chat", message |-> post])]
  /\ items' = items + 1 /\ post' = 0
  /\ UNCHANGED <<snapshot, session, submitting, work, office, masters, authors, history,
                 bounds>>

\* handlePostChat at the office: the insert draws a seq,
PostFromOffice ==
  /\ NewChatMessage("office")
  /\ chat' = Append(chat, [id |-> Len(authors'), by |-> "office"])
  /\ unsaid' = unsaid \cup {Len(chat')}
  /\ UNCHANGED <<vessel, work, receipts, landed, orders, items, masters,
                 history, bounds>>

\* and the row is there once it is committed, or never, if it fails.
CommitMessage(i) ==
  /\ unsaid' = unsaid \ {i}
  /\ UNCHANGED <<vessel, work, chat, receipts, landed, orders, ids, history, bounds>>

\* The wall at the office.
Wall == {chat[i] : i \in DOMAIN chat \ unsaid}

-----------------------------------------------------------------------------
(* A cycle: push. *)

ReportVersionFromDomain(n, data) == [kind |-> "version", no |-> n, data |-> data]

Payload(item) ==
  [id |-> item.id,
   body |-> IF item.body.kind = "version"
            THEN ReportVersionFromDomain(item.body.no, db.versions[item.body.no].data)
            ELSE item.body]

BeginCycle(c) ==
  /\ work[c] = Rest /\ db.enrolled
  /\ Go(c, [stage |-> "push", open |-> TRUE,
            batch |-> [i \in DOMAIN db.outbox |-> Payload(db.outbox[i])]])
  /\ UNCHANGED <<vessel, office, ids, history, bounds>>

\* The insert of a message that is there already fails.
Lands(item) ==
  /\ item.id \notin receipts
  /\ item.body.kind = "chat" => ~AtOffice(item.body.message)

\* applyOutboxItem for the items at the places I, in turn, up to the receipts.
LandAll(batch, I) ==
  LET new == {i \in I : Lands(batch[i])}
      said == {i \in new : batch[i].body.kind = "chat"}
      Of(n) == {i \in new \ said : batch[i].body.no = n} IN
  /\ \E q \in InOrder(said) :
       chat' = chat \o [j \in DOMAIN q |->
                 ChatMessageToDomain(batch[q[j]].body.message, "vessel")]
  /\ landed' = [n \in DOMAIN landed \cup {batch[i].body.no : i \in new \ said} |->
                 IF Of(n) = {} THEN landed[n] ELSE batch[Max(Of(n))].body.data]

Ids(batch, I) == {batch[i].id : i \in I}

\* Mutant: the office stops at the first item it cannot land.
FirstOf(batch) ==
  LET bad == {i \in DOMAIN batch : batch[i].id \notin receipts /\ ~Lands(batch[i])} IN
  Ids(batch, {i \in DOMAIN batch : \A j \in bad : i < j})

\* What is acked: each item for itself.
AcceptedOf(batch) ==
  Ids(batch, {i \in DOMAIN batch : batch[i].id \in receipts \/ Lands(batch[i])})

\* The acked items leave the outbox; a version that was submitted is synced.
AckOutboxItems(ok) ==
  LET done == {i \in DOMAIN db.outbox : db.outbox[i].id \in ok}
      synced == {db.outbox[i].body.no :
                   i \in {j \in done : db.outbox[j].body.kind = "version"}} IN
  \E q \in InOrder(DOMAIN db.outbox \ done) :
    db' = [db EXCEPT
      !.outbox = [j \in DOMAIN q |-> db.outbox[q[j]]],
      !.versions = [n \in DOMAIN db.versions |->
         IF n \in synced /\ db.versions[n].state = "submitted"
         THEN [data |-> db.versions[n].data, state |-> "synced"] ELSE db.versions[n]]]

\* The whole call, its answer, and the acks; a closed database takes none.
PushOutbox(c) ==
  /\ work[c].stage = "push"
  /\ LET batch == work[c].batch
         ok == AcceptedOf(batch) IN
     /\ LandAll(batch, {i \in DOMAIN batch : batch[i].id \in ok})
     /\ receipts' = receipts \cup ok
     /\ IF work[c].open THEN AckOutboxItems(ok) ELSE UNCHANGED db
  /\ Go(c, IF work[c].open THEN [stage |-> "pull"] ELSE [stage |-> "report", ids |-> {}])
  /\ UNCHANGED <<snapshot, session, post, submitting, unsaid, orders, ids, history, bounds>>

\* Mutant: the vessel deletes what it has sent.
PushUnanswered(c) ==
  /\ Fails
  /\ work[c].stage = "push" /\ work[c].open
  /\ AckOutboxItems(Ids(work[c].batch, DOMAIN work[c].batch))
  /\ Go(c, [stage |-> "pull"])
  /\ UNCHANGED <<snapshot, session, post, submitting, office, ids, history, edits, imports>>

\* The call breaks off: some items have landed, one perhaps without its
\* receipt, and no answer arrives.  The cycle goes on to pull.
PushBreaksOff(c) ==
  /\ Fails
  /\ work[c].stage = "push" /\ work[c].open
  /\ LET batch == work[c].batch IN
     \E n \in 0..Len(batch), half \in {0, 1} :
       /\ n + half <= Len(batch)
       /\ LandAll(batch, 1..(n + half))
       /\ receipts' = receipts \cup (AcceptedOf(batch) \cap Ids(batch, 1..n))
  /\ Go(c, [stage |-> "pull"])
  /\ UNCHANGED <<vessel, unsaid, orders, ids, history, edits, imports>>

-----------------------------------------------------------------------------
(* Restore bundles. *)

\* Mutant: only the versions the report list shows.
BuildLatest ==
  [versions |-> Restrict(landed, {Max(DOMAIN landed)}), rows |-> Wall]

\* Every version of the report and its chat.
BuildBundle == [versions |-> landed, rows |-> Wall]
NoBundle == [versions |-> <<>>, rows |-> {}]

Asked == Room /\ Len(commands) + imports < MaxBundles

\* The commands past the cursor that are committed.
ListRestoreCommandsSince(cursor) == {i \in DOMAIN commands \ unasked : i > cursor}

\* handlePushRestoreBundle: the insert draws a seq,
QueueRestoreCommand ==
  /\ Asked
  /\ commands' = Append(commands, [applied |-> FALSE])
  /\ unasked' = unasked \cup {Len(commands')}
  /\ UNCHANGED <<vessel, work, messages, receipts, landed, ids, history, bounds>>

\* and the command is there once it is committed, or never.
CommitRestoreCommand(i) ==
  /\ unasked' = unasked \ {i}
  /\ UNCHANGED <<vessel, work, messages, receipts, landed, commands, ids, history, bounds>>

\* A bundle as of now, downloaded as a file.
GenerateRestoreBundle ==
  Go("import", [stage |-> "apply", bundle |-> BuildBundle, asOf |-> landed])

\* That file, imported aboard as far as
\* decryptRestoreBundle.
ImportRestoreBundle ==
  /\ LoggedIn /\ Asked /\ imports' = imports + 1
  /\ work["import"] = Rest
  /\ db.enrolled
  /\ GenerateRestoreBundle
  /\ UNCHANGED <<vessel, office, ids, history, edits, failures>>

\* SaveReport: the trigger lets no one change what has been submitted.
Saves(n, data) ==
  \/ n \notin DOMAIN db.versions
  \/ db.versions[n].state = "draft"
  \/ db.versions[n].data = data

\* The state it had when it was pushed.
ReportVersionToDomain(data) == [data |-> data, state |-> "submitted"]

Stopped(w) ==
  IF w = "import" THEN Go(w, Rest) ELSE Go(w, [work[w] EXCEPT !.stage = "stopped"])

\* The version the loop of applyRestoreBundle is at: they ascend.
SaveReport(w, n) ==
  LET left == work[w].bundle.versions IN
  IF Saves(n, left[n])
  THEN /\ db' = [db EXCEPT !.versions = Put(@, n, ReportVersionToDomain(left[n]))]
       /\ Go(w, [work[w] EXCEPT !.bundle = [@ EXCEPT !.versions = Restrict(left, DOMAIN left \ {n})]])
  ELSE Stopped(w) /\ UNCHANGED db

\* Then the messages, inserts that change nothing but the wall, in one step.
InsertRows(w) ==
  /\ db' = [db EXCEPT !.wall = @ \cup {row \in work[w].bundle.rows : ~OnWall(row.id)}]
  /\ Go(w, [work[w] EXCEPT !.stage = "applied"])

ApplyRestoreBundle(w) ==
  /\ work[w].stage = "apply"
  /\ IF DOMAIN work[w].bundle.versions = {} THEN InsertRows(w)
     ELSE SaveReport(w, Min(DOMAIN work[w].bundle.versions))
  /\ UNCHANGED <<snapshot, session, post, submitting, office, ids, history, bounds>>

\* The whole bundle is in.
FinishRestore(w) ==
  /\ work[w].stage = "applied"
  /\ restored' = work[w].asOf
  /\ IF w = "import"
     THEN Go(w, Rest) /\ UNCHANGED executed
     ELSE LET i == Min(work[w].todo) IN
          /\ executed' = executed \cup {i}
          /\ Go(w, [work[w] EXCEPT !.stage = "restore", !.todo = @ \ {i},
                                   !.ids = @ \cup {i}])
  /\ UNCHANGED <<vessel, office, ids, cut, overtaken, bounds>>

-----------------------------------------------------------------------------
(* A cycle: pull. *)

\* ListChatMessagesSince: what the office has written past the cursor and
\* committed.
Beyond(cursor) == {i \in DOMAIN chat \ unsaid : i > cursor /\ chat[i].by = "office"}

\* Each stream's rows, its cursor after them, and the numbers up to it whose
\* rows the pull could not see.
PullInbox(c) ==
  /\ work[c].stage = "pull"
  /\ LET new == Beyond(db.chatCursor)
         todo == ListRestoreCommandsSince(db.restoreCursor)
         next == Max(new \cup {db.chatCursor})
         last == Max(todo \cup {db.restoreCursor}) IN
     Go(c, [stage |-> "restore", ids |-> {},
            said |-> {ChatMessageToDomain(chat[i].id, "office") : i \in new},
            next |-> next, unsaid |-> (1..next) \cap unsaid,
            todo |-> todo, last |-> last, unasked |-> (1..last) \cap unasked,
            bundle |-> NoBundle, asOf |-> <<>>])
  /\ UNCHANGED <<vessel, office, ids, history, bounds>>

\* FetchRestoreBundle for the next command, built as of now.
FetchRestoreBundle(c) ==
  /\ work[c].stage = "restore" /\ work[c].todo # {}
  /\ Go(c, [work[c] EXCEPT !.stage = "apply", !.bundle = BuildBundle, !.asOf = landed])
  /\ UNCHANGED <<vessel, office, ids, history, bounds>>

\* ApplyInboxPull: messages and cursors in one transaction; the restore cursor
\* moves only if every command of the batch was executed.
ApplyInboxPull(c) ==
  /\ \/ work[c].stage = "restore" /\ work[c].todo = {}
     \/ work[c].stage = "stopped"
  /\ db' = [db EXCEPT
       !.wall = @ \cup {row \in work[c].said : ~OnWall(row.id)},
       !.chatCursor = work[c].next,
       !.restoreCursor = IF work[c].stage = "restore" THEN work[c].last ELSE @]
  /\ missed' = missed \cup work[c].unsaid
  /\ skipped' = IF work[c].stage = "restore" THEN skipped \cup work[c].unasked ELSE skipped
  /\ Go(c, [stage |-> "report", ids |-> work[c].ids])
  /\ UNCHANGED <<snapshot, session, post, submitting, office, ids, executed, restored, cut,
                 bounds>>

\* SyncStatus.
ReportStatus(c) ==
  /\ work[c].stage = "report"
  /\ commands' = [i \in DOMAIN commands |->
                    [commands[i] EXCEPT !.applied = @ \/ i \in work[c].ids]]
  /\ Go(c, Rest)
  /\ UNCHANGED <<vessel, messages, receipts, landed, unasked, ids, history, bounds>>

-----------------------------------------------------------------------------
(* Failures. *)

\* The pull, a fetch or the status call is lost.
LoseCall(c) ==
  /\ Fails
  /\ \/ /\ work[c].stage = "pull"
        /\ Go(c, [stage |-> "report", ids |-> {}])
     \/ /\ work[c].stage = "restore" /\ work[c].todo # {}
        /\ Stopped(c)
     \/ work[c].stage = "report" /\ Go(c, Rest)
  /\ UNCHANGED <<vessel, office, ids, history, edits, imports>>

\* The vessel's process stops: sessions and all that was under way are gone.
PowerCut ==
  /\ Fails
  /\ session' = 0 /\ post' = 0 /\ submitting' = 0
  /\ unqueued' = unqueued \cup {post} /\ unsent' = unsent \cup Unsent(db, submitting)
  /\ work' = [w \in Workers |-> Rest]
  /\ UNCHANGED <<db, snapshot, office, ids, executed, restored, overtaken, edits, imports>>

SnapshotTo ==
  snapshot' = [stage |-> "taken", db |-> db, post |-> post, submitting |-> submitting]

\* Or the Master's handleSnapshotNow; nothing before there is a directory.
RunNightlySnapshot ==
  /\ failures < MaxFailures /\ snapshot = None
  /\ db.ready /\ SnapshotTo
  /\ UNCHANGED <<db, session, post, submitting, work, office, ids, history, bounds>>

\* What is under way is left with a closed database: a cycle still reports
\* what it had executed.
CutOff(w) ==
  CASE work[w].stage = "push" -> [work[w] EXCEPT !.open = FALSE]
    [] w = "import" \/ work[w] = Rest -> Rest
    [] w \in Cycles /\ work[w].stage = "pull" -> [stage |-> "report", ids |-> {}]
    [] OTHER -> [stage |-> "report", ids |-> work[w].ids]

\* restoreFromSnapshot.
RestoreDatabase ==
  /\ Fails
  /\ LoggedIn /\ snapshot # None
  /\ db' = snapshot.db
  /\ post' = 0 /\ submitting' = 0
  /\ unqueued' = unqueued \cup {post, snapshot.post}
  /\ unsent' = unsent \cup Unsent(snapshot.db, snapshot.submitting)
  /\ restored' = <<>>
  /\ work' = [w \in Workers |-> CutOff(w)]
  /\ UNCHANGED <<snapshot, session, office, ids, executed, overtaken, edits, imports>>

\* The computer is lost, its snapshots with it; a new one is set up.
LoseVessel ==
  /\ Fails
  /\ db # Fresh
  /\ db' = Fresh /\ snapshot' = None /\ session' = 0 /\ post' = 0 /\ submitting' = 0
  /\ work' = [w \in Workers |-> Rest]
  /\ restored' = <<>>
  /\ UNCHANGED <<office, ids, executed, cut, overtaken, edits, imports>>

-----------------------------------------------------------------------------

CycleStep(c) ==
  \/ PushOutbox(c) \/ PullInbox(c) \/ FetchRestoreBundle(c)
  \/ ApplyRestoreBundle(c) \/ FinishRestore(c) \/ ApplyInboxPull(c) \/ ReportStatus(c)

Next ==
  \/ SetupMode \/ Enroll \/ SetupMaster \/ Login
  \/ StartCorrection \/ SubmitReport \/ EnqueueReportVersion
  \/ InsertChatMessage \/ EnqueueChatMessage
  \/ PostFromOffice \/ \E i \in unsaid : CommitMessage(i)
  \/ QueueRestoreCommand \/ \E i \in unasked : CommitRestoreCommand(i)
  \/ ImportRestoreBundle
  \/ ApplyRestoreBundle("import") \/ FinishRestore("import")
  \/ \E c \in Cycles : BeginCycle(c) \/ CycleStep(c) \/ PushBreaksOff(c) \/ LoseCall(c)
  \/ PowerCut \/ RunNightlySnapshot \/ RestoreDatabase \/ LoseVessel

Spec == Init /\ [][Next]_vars

\* runSyncScheduler starts a cycle again and again and sees it through.
Scheduler == \A c \in Cycles : WF_vars(BeginCycle(c)) /\ WF_vars(CycleStep(c))

\* A handler that has begun goes on, until it is cut.
FairSpec ==
  Spec /\ WF_vars(EnqueueReportVersion) /\ WF_vars(EnqueueChatMessage) /\ Scheduler

-----------------------------------------------------------------------------

Excused == unqueued \cup {post}

\* Each wall shows who wrote a message, what the vessel wrote is at the office
\* or queued for it, unless its request was cut before it was queued, and the
\* cursor passes a message that is not on the vessel's wall only if that one
\* had drawn its seq and was not committed when a pull read a later one: through
\* lost calls, restored snapshots, lost computers and restore bundles.
WallsAgree ==
  /\ \A row \in db.wall \cup ToSet(chat) : row = Row(row.id)
  /\ \A row \in db.wall : row.by = "vessel" =>
       \/ AtOffice(row.id) \/ row.id \in Excused
       \/ \E item \in ToSet(db.outbox) : item.body.kind = "chat" /\ item.body.message = row.id
  /\ \A i \in 1..db.chatCursor : chat[i].by = "office" => chat[i] \in db.wall \/ i \in missed

\* What the office had when it built a bundle is aboard once the bundle is in,
\* and stays; a command shown as applied was executed, and the restore cursor
\* passes one that was not only if it had drawn its seq and was not committed
\* when a pull read a later one.
RestoredIsWhole ==
  /\ \A n \in DOMAIN restored :
       n \in DOMAIN db.versions /\ db.versions[n].data = restored[n]
  /\ \A i \in DOMAIN commands : commands[i].applied => i \in executed
  /\ 1..db.restoreCursor \subseteq executed \cup skipped

CaughtUp ==
  /\ \A i \in DOMAIN chat \ unsaid :
       chat[i].by = "office" => chat[i] \in db.wall \/ i \in missed
  /\ \A row \in db.wall : row.by = "vessel" => AtOffice(row.id) \/ row.id \in Excused
  /\ \A n \in DOMAIN db.versions : db.versions[n].state # "draft" =>
       \/ n \in DOMAIN landed /\ landed[n] = db.versions[n].data
       \/ db.versions[n].data \in unsent

\* Once a vessel is enrolled for good, the office has what was submitted and
\* said aboard, unless the request was cut before it was queued, and the
\* vessel's wall has what the office said, unless its cursor went past the seq
\* before the message was committed.
MessagesArrive == <>[]db.enrolled => <>[]CaughtUp

=============================================================================
