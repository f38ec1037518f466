# OVL: TLA+ models and proofs

TLA+ modules of Open Voyage Log (`src/`), TLC configurations that check them on
small instances, and TLAPS proofs for all instances.

OVL is two Go programs. `ovl-vessel` runs on board: an HTTP API over SQLite,
where officers write reports. `ovl-office` runs ashore over Postgres: it
collects reports, re-checks them, has reviewers remark on them, and configures
the fleet. The vessel initiates all traffic: every interval, or when an officer
presses Sync now, it pushes its outbox, pulls its inbox, uploads attachments
and reports its status.

## 1. Inventory

What makes this code hard is not an algorithm but a habit: almost every store
call is an SQL statement or transaction of its own, and a handler, a sync cycle
or an RPC is a *list* of them. One mutex (`writeMu`, vessel/httpapi/server.go)
serialises the vessel's report handlers; nothing else is serialised, and a
process that stops leaves its list half executed.

| component | state | operations | talks to | hard because | correct if |
|---|---|---|---|---|---|
| report lifecycle, pkg/domain | state, fields, InvalidatedFrom/Rules of a version | save, ready, submit, sync, remark, invalidate, correct | handlers, inbox | a check made in one state used in another | edited only before submit, corrected only after |
| vessel report handlers and store | reports, report_events, outbox, sequence | create, save, check, acknowledge, submit, correct, delete, cascade | sync cycle, through the tables | stopped between statements; the cycle writes the same rows without the mutex | committed data is frozen, submitted means queued, the cascade leaves nothing unrecorded |
| vessel sync cycle | inbox_cursors, notices, remarks, phase | push, ack, mark synced, pull, store, apply | PushOutbox, PullInbox | two cycles, lost replies, stale loads | what left the vessel is what it holds; everything submitted arrives |
| office landing, cascade, review, streams | report_versions, audit events, receipts, notices, remarks | PushOutbox, runCascade, remark set, PullInbox | vessel; reviewers | no transaction, retransmission, sequences that commit out of order | acked means landed, notices say what is broken, cursors skip nothing |
| section locks and presence | lock table, subscriber channels | acquire, release, force release, sweep, stream | forms in browsers | table and broadcast under two mutexes; dropped events | a form shows the holder; a dead holder loses the section |
| attachments | rows on both sides, chunk table, staged and assembled files | upload, delete, query, chunk, assemble, promote | own RPCs within the cycle | files and tables change separately | the store holds the whole content or nothing; synced means stored |
| configuration at the office | schema versions, field policies, profiles, cadences, severities, bundles, assignments, groups | publish, save, compose, assign, regroup | the vessel's pull | read first, written later, one table after the other | no policy contradicts its schema; the strictest group wins |
| config sync | cursors, bundles aboard, status | pull, apply, restore, report back | PullInbox, SyncStatus | late answers, older bundles by other ways | the vessel ends with the bundle assigned last |
| validation engine, pkg/validation | none | continuity, field, plausibility, readiness rules | both sides | chain sorted by time, with ties; check now, cascade later | the check foretells the cascade |
| enrollment, sync credentials | codes, credential, token and DR key | issue, redeem, revoke | own RPC | several statements on either side of a call | one code buys one credential |
| vessel users | accounts, command queue, roster | queue, pull, apply, confirm; the Master's own changes | PullInbox, SyncStatus | applied before the cursor is saved; whole-row writes | the Master is never locked out; nothing is confirmed that was not done |
| office accounts and API keys | users, sessions, keys, activity log | login, change, deactivate, reset; revoke, delete; a call | HTTP, GraphQL, CSV | whole-row writes; a call outlives its key | a deactivated account stays out; every answer is on record |
| office reading side | read marks; otherwise only reads | report list, pages, CSV, notifications | landing | paging by offset over a changing list | a walk misses nothing; only what was shown is read |
| chat, backup, disaster recovery | walls, snapshots, restore bundles and commands | post, snapshot, restore, rebuild | outbox, PullInbox | rows go back while cursors and the office do not | a finished restore is whole; messages arrive |
| the rest | | voyage summary, sensors, web | | stateless or user interface | not modelled |

`PROJECT.json` lists every component with its status and every hazard with its
line and the properties that would catch it.

## 2. Modules

| module | models |
|---|---|
| `Lifecycle` | the methods of `domain.Report` and `domain.State` |
| `VesselReports` | handlers, report store, outbox, sync cycle and inbox of one vessel and one schema; the office is its environment |
| `ReportHistory` | the abstract specification: what vessel and office together promise of a report's versions; `VesselReports` implements it |
| `VesselReportsInv` | the inductive invariant of `VesselReports`, checked by a run and proved |
| `OfficeLanding` | the office's side of the same tables and streams; the vessel is its environment |
| `AttachmentUpload` | the attachments that share one content hash, from the vessel's rows to the office's content store |
| `SectionLocks` | lock table, sweeper, broadcast and form streams of one report |
| `Scoping` | how settings for the fleet, groups and vessels are narrowed to one vessel (office/compliance, fieldpolicy, configbundle) |
| `OfficeConfig` | what config managers author: schemas, policies, profiles, cadences, severities, bundles, assignments, groups |
| `ConfigSync` | extends `OfficeConfig` with one vessel that pulls, restores and reports back |
| `Validation` | the rule engine, as operators on plain data |
| `HealthCheck` | composes `OfficeConfig` and `Validation` with the form, the health check and the cascade of one vessel |
| `Enrollment` | codes, credential and keys on both sides, statement by statement |
| `VesselAccess` | extends `Enrollment` with the accounts on board, the office's commands and the snapshots |
| `OfficeAccounts` | the office's accounts, sessions and API keys |
| `OfficeDesk` | extends `OfficeAccounts` with report lists, notifications and reports written ashore |
| `Recovery` | chat and one report under snapshots, restore bundles and the loss of the vessel's computer |
| `MC...` | the finite instances: rule engine, outbox, schemas, requests, filters |
| `..._proofs` | the theorems about the module they are named after and, for three of them, one that belongs to it (section 4) |

### How state and steps correspond

* **A process is what it has still to execute.** `todo[p]` (or `cycle`,
  `setup`, `admin`, `request`, `call`, `work`) is a list of statements or a
  stage with what was read so far. The first step of an operation is its load
  and its checks: the guards are the code's early returns, a refused request is
  no step. Each further statement is one step, and one that writes back what an
  earlier one read carries the row it read.
* **Mutexes.** On the vessel the process `"handler"` is whoever holds `writeMu`;
  its statements never interleave with another handler's. `SyncProcs` and
  `Cycles` hold nothing: the interval scheduler and every Sync now are one each.
* **Failures.** `Abort`, `Stop`, `CallCut`, `StatementFails`, `Cut`, `Lose`, `LoseCall`,
  `PushBreaksOff`, `PowerCut` drop the rest of a list. `RestoreDatabase`
  puts the vessel's tables back to a snapshot, `LoseVessel` empties them.
* **Data.** In `VesselReports` a version's data is one event time, all that
  locking, history and uniqueness tell apart; the rule engine is the constant
  operator `BrokenRules(chain, r)`, of which nothing is assumed but its range.
  `Validation` has the rules themselves, on reports of integer amounts and
  opaque texts; a malformed text is a member of `illFormed`.
* **Order where the code has none.** A cascade, an ack loop and a remark loop
  unroll one element at a time, in the code's order or in any order where it
  walks a map. Where it takes the first of rows that no query orders, an `order`
  chosen by `\E` ranks the scopes; where it sorts by time alone, `Chains` and
  `CheckChains` are every order of the ties; where it sorts notifications
  unstably, `Feeds` are all the outcomes.
* **Streams.** Every table the vessel pulls from numbers its rows by an IDENTITY
  or a BIGSERIAL column, and no insert takes a lock. So an insert is two steps
  in every module: the number is drawn, and the row is seen after the commit, or
  never (`DrawSeq` and `CommitInsert` of remarks and notices in `OfficeLanding`,
  `PublishSchemaVersion` and `CommitSchemaVersion` in `OfficeConfig`,
  `QueueUserCommand` and `CommitUserCommand` in `VesselAccess`, `PostFromOffice`
  and `CommitMessage`, `QueueRestoreCommand` and `CommitRestoreCommand` in
  `Recovery`). The place in the sequence of numbers drawn is the number; what is
  committed is a set beside it (`inserted`, `queued`), or what is not
  (`unsaid`, `unasked`). Three are one step: bundles, which are composed one at
  a time and pulled by assignment and not by order; what the vessel itself
  pushes and never pulls (its own messages); and the notices and remarks that
  are the environment of `VesselReports`.
* **Files.** In `AttachmentUpload` `batch[p]` are the attachments a cycle has not
  begun with, `todo[p]` what it and the office execute for one. A file is an
  inode: `os.Create`, `os.Rename`
  and `os.Remove` act on names, writes on the inode a process has open. A staged
  chunk is good or bad; the hash is read in one step.
* **Secrets** are numbers in the order they are generated (`codes`,
  `exchanges`), passwords only who chose them. `OfficeAccounts` and
  `VesselAccess` write an account's row whole, as the store does.
* **History variables** serve the properties and no action reads them:
  `raced` and `missed` (`SectionLocks`), `overtaken` (`ConfigSync`,
  `VesselAccess`), `missed` and `skipped` (`Recovery`), which have the numbers a
  pull could not see below the cursor it returned, `calm` (`Enrollment`, `client.calm`
  in `OfficeDesk`), `done` and `refused` (`VesselAccess`), `barred`, `revoked`
  and `served` (`OfficeAccounts`), `opened` (`OfficeDesk`), `executed`,
  `restored`, `unqueued` and `unsent` (`Recovery`), `fresh` (`HealthCheck`).

Composition is by EXTENDS, layer on layer: the inner module's actions leave the
outer variables unchanged and the outer module adds its own. What lies between
two chains of modules is one step on the side that is not about it: publishing
and pulling a bundle in `HealthCheck`, an enrollment in `Recovery`, whose
statements are in `ConfigSync` and in `Enrollment`.

## 3. Runs

All with `tlc -workers 2`; each takes a few seconds to three minutes.

| run | question | instance |
|---|---|---|
| `requests` | does the committed chain record exactly what it breaks, between any two requests? (`CascadeSettled`) | two reports, two times, any seven requests, one finding acknowledged, no sync |
| `failures` | do the cycle's unprotected writes ever reopen or change what was submitted? (`OutIsCommitted`, `CommittedDataLocked`, `HistoryCommitted`, `OfficeCopyFaithful`, `IInv`, and refinement of `ReportHistory`) | one report, five requests, no finding acknowledged, one abort anywhere (a call not sent or a reply lost is one), one notice or remark |
| `delivery` | is a submitted version ever forgotten? (`SubmittedIsQueued`, `SyncedHasLanded`; with fairness `SubmittedIsDelivered`) | five requests, one lost call or rejected item |
| `office_push` | is what was acked landed, do notices say what is broken, does a cursor skip a row? (`AckedHasLanded`, `NoticesCurrent`, `PullMissesNothing`) | three versions of two reports and an audit event, pushed and repushed in any batches, a remark set on a field, pulls, one failure anywhere |
| `section_locks` | does a form show the holder, is a dead holder's lock freed? (`ViewAgrees`; `AbandonedLockIsFreed`) | two officers, two requests and their answers, the sweeper, one form with a channel of two |
| `attachments` | is the whole content stored or nothing, is only that confirmed? (`StoredIsWhole`, `SyncedIsStored`; `PendingIsSynced`) | two attachments of one content of two chunks, two failures |
| `config` | does a policy ever contradict its schema, a cursor pass a schema that is committed, a vessel go back? (`PolicyFitsSchema`, `PullMissesNoSchema`, `NeverOlderBundle`; `ConfigArrives`) | two schema versions, the second without one field and with another locked, committed in either order or never, two edits, two bundles, one cycle, one lost call, restore commands |
| `rules` | does the check foretell the cascade, are mandatory fields ever missing, do prefilled values continue the chain, how do groups combine? (`CheckedIsSound`, `SchemaMandatoryHolds`, `PrefillContinues`, `StrictestGroupWins`, `RuleIsWhole`) | a departure, an arrival, a departure and an arrival that lacks the mandatory field at the same time, in three reports of which none, one or two are submitted to begin with, policies, cadences and severities of two groups, four requests of office and officers |
| `enrollment` | can a used code be used again, do both sides agree once settled? (`UsedCodeStaysUsed`, `SettledAgrees`) | two codes, two exchanges at once and three in all, one cut |
| `access` | can the Master be locked out, is a command confirmed or skipped that was not tried? (`MasterStaysActive`, `CommandsAccountedFor`; `CommandsAreTried`, `RosterHeals`) | a Master and one officer, two commands (create the officer, deactivate the Master) queued at once or one after the other, one change aboard, one cycle, one cut, one restored snapshot |
| `office` | does a deactivated account come back, is an answer missing from the log, does a page walk miss a report, is something unseen marked read? (`AccountsHold`, `KeysAccountedFor`, `PagesMissNothing`, `ReadWasShown`) | two users, two requests, one key, a client paging over three reports by one or two, four steps of officials, two days |
| `recovery` | do the walls agree, is a restore whole, do messages arrive? (`WallsAgree`, `RestoredIsWhole`; `MessagesArrive`) | four requests in all, of up to four about a report, two messages, two bundles by command or by file; one power cut, lost call, restored snapshot or lost computer |

### Why the bounds suffice

* *Reports.* One suffices where a property is about one report: reports interact
  only through the cascade, which `requests` checks with two and `rules` with
  three. Two reports with one time are the smallest chain that breaks a rule, and
  a third after them is the smallest one judged by what a tie leaves open; five
  requests reach create, submit, correct, submit and a check, seven a correction
  that is checked before it is submitted.
* *Failures.* One abort and one notice already fall at every place of every
  list. A batch the office lands in part is in `delivery`, and with aborts in
  the proof. A power cut that ends several processes is several `Abort`s, and what
  two of them do to the proved properties needs no bound.
* *Processes.* Two of a kind are a pair of overlapping statements. Where a run
  has one cycle, what a second does is proved (`IInv`, for any set of cycles) or
  fails and is described below: that two cycles whose answers overtake each
  other keep `PullMissesNoSchema`, `NeverOlderBundle`, `CommandsAccountedFor`,
  `WallsAgree` and `RestoredIsWhole` is proved and in no run. `access` has no
  Admin who revokes the vessel between two calls of a cycle (`Admins = {}`);
  `MasterIsNeverLockedOut` and `EveryCommandAccountedFor` are for any.
* *Streams.* Two rows are one that draws its number first and one that is
  committed first: schema versions in `config`, commands in `access`, messages
  and restore commands in `recovery`. Each run reaches states in which a row was
  overtaken, and states in which one never is committed.
* *Office.* Two groups are one stricter and one laxer; two schema versions are
  one read and one published meanwhile; two bundles are one aboard and one
  newer. Pages of one and two over three reports have a boundary inside a tie.
* *Attachments.* Two chunks are a last one and one before it. `Stops` names the
  statements at which an upload may be stopped; the run leaves out those between
  the last chunk's row and the end of the clean-up (`Finishing` in the proofs),
  after which `SyncedIsStored` does not hold (see below). `StoredIsWhole` is
  proved for any `Stops`.
* *Time.* Ages of locks stop at `TTL + 1`, channels hold `Cap` events (16 in the
  code), the panel shows `Cap` notifications of `Lookback` days (50 and 14).
* *Requests.* `MaxRequests` bounds what officers and the office start in
  `recovery` all together: two messages and a correction that is submitted, two
  commands and two messages, or two corrections; each with one failure anywhere.

Runs check deadlock where the system never stops. `requests`, `attachments`,
`access`, `office`, `recovery` and `rules` do stop, once their bounds are used up.

### Fairness

Weak fairness of each process's statements: the Go runtime runs every
goroutine, SQLite's busy timeout lets every statement through. Weak fairness of
starting a cycle: the scheduler's timer (vessel/main.go). `SectionLocks` has it
of time and the sweep ticker, and of no form reading its stream. No fairness is
assumed of officers, Admins and reviewers, nor of calls succeeding: a bounded
number are lost. `CommandsAreTried`, `RosterHeals` and `MessagesArrive` suppose
that the vessel is let in from some time on, which is an Admin's decision.

### What holds only in part

Each of these was met while modelling. Where the code's own words say otherwise
they are cited. The properties above say what remains true.

**Vessel reports**

* Stopped between SaveReport and EnqueueReportVersion (reports.go:630, :644), or
  put back to a snapshot taken there, a submitted version is in no outbox,
  cannot be submitted again, and is never sent; domain/state.go:20 says "Locked
  on the vessel and queued in the outbox". `SubmittedIsQueued` is about runs
  without aborts; `MessagesArrive` leaves out such versions (`unsent`).
* applyInvalidationNotice (inbox.go:217, :228) loads and saves without `writeMu`
  and so overwrites a section an officer has just saved (server.go:46). It also
  loads the *latest* version: a notice about version 1 invalidates the draft of
  version 2; domain/state.go:43 says a report still being drafted is never
  invalidated.
* ApplyInboxPull commits the cursors (inbox.go:172) before notices and remarks
  are inserted (:177, :190): stopped in between, they are gone; :120 and
  00006_inbox.sql:30 say otherwise.
* markReportSynced (sync.go:410-418) loads and saves without the mutex: the
  cascade of a submit in between is overwritten and an invalidated version
  becomes synced, although :405 says it is left alone. Stopped between
  AckOutboxItem and markReportSynced (sync.go:384), a version that is at the
  office stays submitted for good.
* Two cycles may both find a remark absent (inbox.go:187) and both apply it.
* MarkRemarked (lifecycle.go:130) leaves InvalidatedFrom set, against report.go:33.
* Deleting a draft leaves its audit events in the outbox, where they can never
  be built (reports.go:177). No cascade takes an invalidation back, though :231
  suggests it.
* StartCorrection carries no attachments over to the new version.

**Office landing**

* An audit event is inserted and the call cut before its receipt
  (pushoutbox.go:79, :95), or two PushOutbox calls find no receipt at once: the
  retransmission inserts it again, against 00015_outbox_receipts.sql:5. A chat
  message retransmitted so is refused by its primary key in every later call and
  is never acked.
* A pull between two commits of one stream moves the cursor past a row that was
  numbered earlier, and that row is never sent. It is so of notices, remarks
  (`PullMissesNothing` holds only as long as one process at a time inserts into
  a stream), schema versions (schemaversions.go:20, `overtaken`), chat messages
  (chat.go:16, `missed`), user commands (usercommands.go:34, `overtaken`) and
  restore commands (restorecommands.go:31, `skipped`). What the properties about
  these four say is that a cursor passes nothing else; a command or a message
  so overtaken is never tried and never on the vessel's wall.
* A cascade that fails between state, event and notice leaves the version
  invalidated and the vessel untold (cascade.go:74).
* handleCreateRemarkSet inserts the remarks one by one and before it checks and
  writes the state (remarks.go:126); :76 says they land together.

**Locks and attachments**

* The sweep broadcasts after it has released `mu` (presence.go:89): its
  "unlocked" may follow the next holder's "locked". `raced` excludes those. A
  form that reconnects gets "locked" events only, so a missed "unlocked" is not
  corrected, as locks.go:198 says it is. `missed` excludes those.
* A form also takes the holder from a 409, from its one GET of the locks and
  from the 204 of its own force release (ReportForm.tsx:561, :367, :600). An
  answer that arrives after a later event about the section puts back what was:
  a late 409 shows a holder that has gone. `missed` excludes the section until
  the next event about it reaches the form.
* handleSaveSection asks for the holder and saves afterwards (reports.go:774).
* The last chunk's row stays when assembly fails (attachments.go:193): the next
  cycle finds nothing missing and confirms an attachment the office never stores.
  An empty file has no chunks and is confirmed at once. Two cycles that upload
  one content share the `.assembling` file: an empty one may be promoted
  (attachments.go:220), or an unverified one confirmed (:73).
* An attachment of a draft is pushed before the report is submitted; deleting it
  afterwards stays on the vessel.

**Configuration and rules**

* A vessel assigned an older bundle has a cursor beyond it and is never sent it
  (pullinbox.go:271); regrouping under the same bundle is never resolved again.
  `ConfigArrives` says: the assigned bundle or a newer one.
* A bundle is composed of one table after the other (configbundle.go:46-61) and
  may mix two states of the office. Renaming a group leaves the rows scoped to
  the old tag behind (vesselgroups.go:52-67). A schema published under a name
  pullSchemaVersions does not know fails every pull (pullinbox.go:228). What is
  pulled of schema versions is not used aboard.
* `OfficeConfig` simplifies two things of publications. A schema version's
  published_at, which says which is newest, is read before the insert draws its
  cursor: two at once may have them in opposite orders, and here never have. And
  one bundle at a time is composed, though nothing keeps two users apart.
* Reports with equal event times have no order (cascade.go:53,
  ListCommittedChain has no tie-break either): the check and the cascade may see
  different chains. Where the fleet's severities let a shared minute pass, a tie
  decides about later reports too: a report that was checked after one of two
  tied predecessors is flagged by its own submission if the cascade reads the
  other one last. `CheckedIsSound` holds as long as no two reports up to the
  checked one share a minute; the third report of `rules` is there to meet an
  earlier tie. `PrefillContinues` leaves out a last report that shares its minute.
* handleGetSchema serves the remaining fuels as they were, "unchanged", and
  carries forward what was consumed with them: without a bundle every field that
  has a value, with one those of the class carryForward (schemas.go:199-225). A
  form taken as it is served then has a continuity finding. The web form
  recomputes what remains when a consumption is entered, and the check is made
  on what is saved. `PrefillContinues` leaves out the fuels of which something
  that was consumed is carried, and a submitted report under correction.
* BDNMarkerFields and BunkeredAmounts are never set: the consumption schemes are
  never found exclusive, and any bunkering looks like a drift of the ROB. Both
  are in `Validation` as the code has them.

**Enrollment, accounts, commands**

* A redeem that has passed its check stores a live credential after a revoke
  (vessels.go:544), which :548-553 rules out. Two redeems of one code both
  succeed, and one that ends after a re-issue destroys the new code. Issuing
  again neither looks for a row nor revokes the credential, and wipes the DR key.
* Cut between UpsertEnrollment and UpsertVesselCredential the code is consumed
  and nothing bought; cut between SaveSyncCredential and SaveDRIdentity, or
  restored to a snapshot taken there, a vessel is let in whose DR key is another.
  `SettledAgrees` is about exchanges nothing overlapped or cut.
* User commands are applied before the cursor is saved (sync.go:287-296): after
  a cut they are applied again, and a create then fails. A lost confirmation
  leaves the command queued on the office's screen. After a restored snapshot
  they come again, the temporary password of a confirmed one emptied.
* Every update writes the whole row: a password change under way undoes a
  deactivation, aboard and at the office, whose server.go says a deactivated
  user is cut off at once. `AccountsHold` counts a deactivation as barring once
  no request that loaded the row before is under way. The office may demote the
  only Master; two first-run setups at once make two.
* A restore during a cycle closes its store: it reports an empty roster.
  `RosterHeals` says the next cycle puts it right.

**Reading and recovery**

* Notification ids name a vessel or a day: a later episode of an id is born
  read. A health evaluation that fails shows in the list as no findings.
* Of a list whose rows leave it or change their order between two pages, a walk
  by offset does miss rows (resolver.go:65). `PagesMissNothing` is about lists to
  which reports are only added meanwhile.
* The reviewed flag outlives a later remark or correction, the last report time
  counts superseded versions.
* Cut between InsertChatMessage and EnqueueChatMessage (chat.go:97) a message is
  only ever aboard, and a snapshot taken there keeps it so (`unqueued`).
* A restored snapshot forks the history: the next submission of version 2
  overwrites the one that has landed. After it the vessel has less than the
  bundle it had applied, and the history variable `restored` forgets it.
* A restore bundle overwrites a local draft; the versions it brings have the
  office's state and are never queued; chat of a report that never landed is in
  no bundle. Snapshots lie beside the database and are lost with the computer.
  A nightly snapshot from before the Master was created reopens the setup.
* RestoreDatabase copies the snapshot over the database file and then removes
  the -wal and -shm files of the old one (vessel/store/backup.go:45-56). Stopped
  within the copy the file is torn; stopped after it, the next Open may replay
  into the restored file a WAL that is of the other database. In `Recovery` the
  database is replaced in one step: a power cut falls before or after it.

## 4. Proofs

Eight modules of theorems, each about the specification of the module it is
named after (`VesselAccess_proofs` also about the one that module extends,
`OfficeConfig_proofs` about the two that extend it), for every value of the
constants that meets its assumptions. TLAPS checks every one to the last leaf.

| module | theorems beside its `Inductive` | assumed of the constants |
|---|---|---|
| `VesselReports_proofs` | `TypeCorrect`, `HistoryIsCommitted`, `QueuedAndLandedAreCommitted`, `OfficeCopiesAreFaithful`, `SyncedVersionsHaveLanded`, `CommittedDataIsLocked`, `Refinement`; `SubmittedVersionsAreQueued`, `CascadesSettle` | `"handler"` is no sync process, the rule engine returns rules, bounds are naturals |
| `OfficeLanding_proofs` | `AckedItemsHaveLanded`; `PullsMissNothing`, `NoticesAreCurrent` | outbox numbers are unique; outbox and fields are finite |
| `AttachmentUpload_proofs` | `StoredContentIsWhole`, `ConfirmedIsStored` | cycles are finitely many, `NoFile` is no inode |
| `SectionLocks_proofs` | `OpenFormsAgree` | none |
| `OfficeConfig_proofs` | of `ConfigSync`, `PoliciesFit`, `NoSchemaIsMissed`, `NoOlderBundle`; of `HealthCheck`, on `CheckInductive`, `ChecksForetellCascades`, `MandatoryFieldsAreThere`, `PrefilledValuesContinue`, `StrictestGroupAlwaysWins`, `RulesStayWhole` | requests are about the fleet, a group or a vessel; times, amounts and hours are integers; a vessel starts from finitely many versions that have their mandatory fields; what is consumed and what remains are entered in different fields; the form's unsaved report has an id of its own |
| `VesselAccess_proofs` | `MasterIsNeverLockedOut`, `EveryCommandAccountedFor`; of `Enrollment`, which it extends, `UsedCodesStayUsed`, `SettledRowsAgree` | commands create officers, never a Master (`OrdersAssumption`); the two about `Enrollment` need nothing |
| `Recovery_proofs` | `WallsAlwaysAgree`, `RestoresAreWhole` | the import is no sync cycle |
| `OfficeDesk_proofs` | `AccountsAlwaysHold`, `KeysAreAccountedFor`, `NothingReadUnseen`, `PagesAreWhole` | callers and reports are finitely many |

These theorems say under which behaviour of the system they hold. What happens
otherwise is described in section 3, "What holds only in part", and is no
property.

| theorem | holds | because |
|---|---|---|
| `SubmittedVersionsAreQueued` | while nothing was aborted | SaveReport and EnqueueReportVersion are two statements |
| `CascadesSettle` | while nothing was aborted, and with no cycle (`SyncProcs = {}`) | a cycle's save of a row it loaded earlier undoes an invalidation; any number of reports, versions and times, any rules |
| `PullsMissNothing` | while at most one PushOutbox call and at most one reviewer are at work (`[]Serial(Calls)`, `[]Serial(Reviewers)`) | a pull between two commits of one stream skips a row; notices are inserted by calls and remarks by reviewers, so the two may overlap |
| `NoticesAreCurrent` | while no statement failed, and at most one call is at work (`[]Serial(Calls)`) | the newer of two cascades may insert its notice first. A vessel pushes one batch and waits, but pressing Sync now starts a second cycle |
| `StoredContentIsWhole`, `ConfirmedIsStored` | while at most one cycle is in an upload of the content (`[]OneUpload`) | two share the `.assembling` file. The second also needs `Stops \cap Finishing = {}` and `ChunkCount > 0`: after a stopped assembly, and of an empty file, what is confirmed is not stored |

The theorems state a property some run checks and rest on an inductive
invariant, proved by one lemma per action or group of actions. Why the property
alone is not inductive, and what the invariant adds:

* **`VesselReports`.** A handler's pending save of a draft might hit a version
  that was landed meanwhile, a batch carries data read earlier, a cycle may hold
  a row it loaded before a submit. `HandlerOK`: a pending save of a draft is the
  *next* statement of the handler, and its version is neither queued nor landed.
  `SyncStmtOK`: a cycle saves only committed rows of reports the office has
  landed; what such a save can overwrite is a newer draft, never a committed
  predecessor. `BatchStmtOK`: a batch refers to what is queued or landed and
  carries its data, which the trigger `reports_locked_after_submit` keeps true.
  `NumbersOK`: an outbox number names one item for ever, so an ack that arrives
  twice, or in two cycles, removes nothing else. `SaveEffect` and `DeleteEffect`
  say what the only statements that change rows do. `Refinement` maps `versions`
  to the data of `rows` and `delivered` to `landed`, for any number of cycles
  and failures: `ReportHistory` is implemented.
* **`VesselReports`, queue and cascade.** `QueueInv`: a submitted version is in
  the outbox or landed, or its enqueueing is still on the handler's list; a
  reply acks nothing but what has landed. `CascadeInv`: a cascade is on the
  handler's list, or the writes it has found due are, each about rules its
  version still breaks, or nothing is flagged. What a cascade writes leaves the
  chain's data alone, so the flagged versions it has not come to stay flagged.
* **`OfficeLanding`.** A call executes a list, any part of which may fail and be
  skipped. `ListOK`: a receipt waits behind the landing of its own item and of
  no other, and never behind the next item, which is where a rejected item's
  call goes on. So what is recorded, and hence what is acked, has landed.
* **`OfficeLanding`, streams and notices.** `ShapeInv`: a commit is the next
  statement of its list, and what a cascade has still to write stands before
  every later item of the call. `StreamInv(q)`: a number that is drawn and not
  committed is beyond every row and every cursor of the stream, which one
  inserter keeps true. `NoticeInv`: a version that breaks rules has a notice
  that says so, or a call has still to look at it or to write that notice, and
  what it is to write are the rules broken now; `RowsInv` has the rows those
  rules are computed from.
* **`AttachmentUpload`.** `FilesInv`: before an open `.assembling` file is
  verified every chunk is copied (`CopiesFirst`), a promotion comes right after
  its verification (`PromotesVerified`), and what is about to be promoted is
  whole; the name of a stored file is never opened for writing again.
  `ConfirmInv`: all chunks recorded and nothing stored means an upload is in
  the middle of finishing; a chunk with a row is staged until the clean-up
  reaches the row; and a cycle that will mark an attachment has listed it and
  has still to bring whatever chunk is missing (`MarksListed`, `MarksCovered`,
  `MarksPromoted`), in the order the code has (`ChainOK`).
* **`SectionLocks`.** Lock table, events in flight, channels and views disagree
  for a while. `FlightTells`: an event not yet broadcast tells the holder, unless
  its section is raced over. `FormsTell`: unless a section is raced over or the
  form missed an event about it, the last event in the form's channel tells the
  holder, and where there is none its view does or the lock has run out. An
  answer that says something else than the lock is, when it arrives, makes the
  section one that was missed. `Apart` keeps closed forms empty, `AnswersFit`
  keeps answers with the open form that asked.
* **`ConfigSync`.** A save begun under one schema version, and a bundle being
  composed, carry rows read earlier: `PolicyInv` has every row, those read and
  those in bundles fit the version it is for. `SyncInv`: a cycle's cursor passes
  only what is held, comes in the same answer, or is noted in that answer as not
  committed (`gaps`), and no bundle that was ever in
  force is dropped. Two lemmas about least and greatest numbers serve the
  assignments and `LatestConfigBundle`.
* **`HealthCheck`.** Each property compares two readings of one thing that are
  made at different times. `DraftsInv`: a draft that is ready has its mandatory
  fields, and one that is ready with nothing changed since its check (`fresh`)
  passes a check made *now*, because all the check read, the bundle and the
  chain, is still what it was. `CommittedInv`: what is submitted came from such
  a draft, so it has the fields `BuiltIn` makes mandatory: `EvaluateFieldRules`
  asks for those before any policy is looked at (`EmptyMandatoryIsError`).
  `TablesInv` has the keys and values of the office's tables.
  `ChecksForetellCascades` then is about chains. Two lists of the same reports
  that are sorted by time agree up to the first shared minute: of the places
  where they differ, the least one has two reports with one time
  (`LeastNumber`). So the check and the cascade find the same reports before the
  checked one, and every continuity rule looks back from it, never ahead
  (`FindingsAgree`); the check inserts the draft by time, which gives one of the
  cascade's lists. `PrefilledValuesContinue`: the report that comes before the
  new one is the last submitted, and a fuel of which nothing that was consumed is
  carried forward has a sum of zeros; that it is zero follows of the definition
  of the community modules' fold by the least set on which it is not. `StrictestGroupAlwaysWins` and
  `RulesStayWhole`: the row that wins exists, is least in the order its rule
  compares by, and is taken whole (`WinnerIsStrictest`).
* **`Enrollment`.** A request still holds the code it will write, an exchange
  the code it has read. `Unwritten`: a code an Admin's request is about to write
  is in no row and with no other request or exchange. `Spent`: a code that was
  consumed, or has bought the credential, is not in the row. A cut only forgets.
  `CalmInv`: as long as exchanges were neither overlapped nor cut, at most one
  request or exchange is under way, the two sides agree where none is, and where
  one is they differ by what its stage has written.
* **`Recovery`.** A message exists as a row on either wall, as an item of the
  outbox, of the snapshot's outbox and of the batches under way, any of which
  may come back after a restore. `ItemsInv`: all copies of an item say the same
  message, and once it is received that message is at the office. `DbOK`, which
  the snapshot's database meets as well as the vessel's: a row of the vessel's
  own is at the office, is still to be sent by an item of *that* database, or
  was never queued because of a failure (`unqueued`); every message of the
  office up to the database's own cursor is a row or was overtaken (`missed`). `PulledOK` adds what a cycle
  is about to write. `RestoreOK` follows a bundle into the tables, for any
  number of cycles and imports at once: a version it has passed is aboard,
  committed and with the data the office had, which `SaveReport`'s trigger
  keeps; the commands up to a cursor have been executed or overtaken. That a
  commit adds to what the others read (`CommitsKeepIInv`), and that what a pull
  could not see is remembered until its cursor is saved, is what two inserts at
  once add to the proof.
* **`VesselAccess`.** `RowsInv`: the Master is active in every account row, in
  the snapshot's and in each row a request or cycle is about to write.
  `CommandsInv`: everything up to a cursor, saved, carried or in a snapshot,
  was executed, refused or overtaken, or is about to be; a number that a pull
  could not see stays in its answer (`gaps`) until the cursor is saved.
* **`OfficeDesk`.** `UsersInv`: no request that loaded a row before a
  deactivation is left that would write it back active (`barred` counts only
  those). `KeysInv`: the calls on a key that were served and those still to be
  served are no more than the log has; counting them needs finitely many
  callers. `ScreensInv`: a reply that is marked read or on a screen was shown.
  `PagesInv`: an undisturbed reading still finds all the rows it has to give,
  and each it has not given comes after at least as many rows as its offset. The
  place of a row on the list is the number of rows before it (`PlacesCount`, by
  counting finitely many reports), so new rows, which push old ones back, make a
  client meet a row twice and never skip one.

`IInv` of `VesselReports` is an invariant of the run `failures` too. The others
were checked by TLC on the instances of the runs, those of `AttachmentUpload`
also with two cycles, before they were proved.

**Only model-checked.** All liveness properties (`SubmittedIsDelivered`,
`AbandonedLockIsFreed`, `PendingIsSynced`, `ConfigArrives`, `CommandsAreTried`,
`RosterHeals`, `MessagesArrive`): the prover has no rule for fairness. Every
invariant and every action property a run checks has its theorem. Of `Validation` the
theorems use what `HealthCheck` depends on; that a drift of the remaining fuel is
computed right over a longer chain is what `rules` checks, on its amounts.

## 5. Not modelled, and why

* *Voyage summary, dashboard, positions, detail views*: derived on each request
  from what is modelled, stored nowhere.
* *Sensor and VMS clients, the sensor stub*: stateless calls to equipment.
* *Web front ends*: user interface. What a form keeps of a section is in
  `SectionLocks`, what it checks in `HealthCheck`.
* *Cryptography*: hashes, tokens and the encryption of restore bundles are
  modelled by who holds which secret, never by their bits.
* *Generated code* (protobuf, GraphQL) and *schema parsing*: no state. Of the
  conversions, `Recovery` models what they drop.
* *CSV*: which rows an export has is `OfficeDesk`'s report list; the format is
  left out.
* *Attachments and restores.* A restore bundle has none (restorebundle.go:33).
  What a snapshot and its restore copy of them is not modelled.
* *The schemas of the first start.* The office seeds its registry with the
  curated schemas, one after the other, before it serves (office/main.go:106).
  `OfficeConfig` starts from the empty registry and publishes these like others.
* *Resolving a remark* at the office changes one column nothing else reads.

Postgres and SQLite are modelled by the atomicity of statements and
transactions, by sequences and by the one trigger that matters.

## 6. Plan

1. Composition of `VesselReports` with `OfficeLanding` in place of its
   environment, which needs a coarser `OfficeLanding`: the two together have no
   instance TLC finishes.
2. Refinements: `OfficeDesk` and `VesselAccess` both promise an account store
   in which a deactivation lasts; one abstract specification could serve both.
