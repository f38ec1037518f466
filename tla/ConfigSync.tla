------------------------------ MODULE ConfigSync ------------------------------
(***************************************************************************)
(* How what OfficeConfig publishes reaches one vessel: the schema version   *)
(* and config bundle part of PullInbox (office/syncservice/pullinbox.go),   *)
(* ApplyInboxPull (vessel/store/inbox.go), the bundle of a restore command  *)
(* and the status report that ends a cycle (vessel/httpapi/sync.go).       *)
(*                                                                         *)
(* A cycle reads the cursors, the office answers from its tables in two     *)
(* reads, the vessel stores the answer and the cursors in one transaction, *)
(* then tells the office what it runs on.  Two cycles may be under way: the *)
(* scheduler's and a Sync now request.                                     *)
(***************************************************************************)
EXTENDS OfficeConfig

CONSTANTS
  Cycles,     \* its sync cycles that may be under way at once
  MaxLosses   \* bound on calls lost or failed

VARIABLES
  held,      \* schema_versions of the vessel
  running,   \* config_bundles of the vessel: [version_no -> document]
  cursors,   \* inbox_cursors, the two of them
  overtaken, \* history: schema cursors not committed yet when a pull that
             \* went past them read the table
  cycle,     \* how far each sync cycle is and what it carries
  reported,  \* vessel_sync_status at the office: the bundle reported last
  losses     \* counter for MaxLosses

sync == <<held, running, cursors, overtaken, cycle, reported, losses>>
vars == <<office, sync>>

Start == [schema |-> 0, bundle |-> 0]
Resting == [stage |-> "rest"]

Init ==
  /\ InitOffice
  /\ held = {} /\ running = <<>> /\ cursors = Start /\ overtaken = {}
  /\ cycle = [c \in Cycles |-> Resting]
  /\ reported = 0 /\ losses = 0

Assigned(order) == Resolve(assignments, order, Vessel, groups[Vessel])
DocumentOf(b) == ResolveFor(bundles[b], Vessel, groups[Vessel])
Row(b) == [d \in {b} |-> DocumentOf(d)]

\* INSERT ... ON CONFLICT DO NOTHING.
Insert(table, rows) ==
  [b \in DOMAIN table \cup DOMAIN rows |->
     IF b \in DOMAIN table THEN table[b] ELSE rows[b]]

\* LatestConfigBundle: the highest version_no, whenever it was received.
Runs == IF DOMAIN running = {} THEN 0
        ELSE CHOOSE b \in DOMAIN running : \A d \in DOMAIN running : d <= b

-----------------------------------------------------------------------------
(* One sync cycle. *)

Move(c, to) == cycle' = [cycle EXCEPT ![c] = to]

BeginPull(c) ==
  /\ cycle[c] = Resting
  /\ Move(c, [stage |-> "asked", since |-> cursors])
  /\ UNCHANGED <<office, held, running, cursors, overtaken, reported, losses>>

\* By cursor, of the rows that are committed.
ListSchemaVersionsSince(k) == {n \in inserted : n > k}

\* What the answer to a pull holds: `versions', the cursor after it, and the
\* numbers below that cursor whose rows it could not see.
AnswerSchemas(c, versions, next) ==
  Move(c, [stage |-> "schemas", versions |-> versions,
           gaps |-> (1..next) \ inserted,
           next |-> [cycle[c].since EXCEPT !.schema = next]])

\* Mutant: only the newest version is sent.
PullNewestOnly(c) ==
  /\ cycle[c].stage = "asked"
  /\ LET since == cycle[c].since.schema
         new == ListSchemaVersionsSince(since)
     IN IF new = {} THEN AnswerSchemas(c, {}, since)
        ELSE AnswerSchemas(c, {Newest(new)}, Newest(new))
  /\ UNCHANGED <<office, held, running, cursors, overtaken, reported, losses>>

\* pullSchemaVersions: every version past the cursor.
PullSchemaVersions(c) ==
  /\ cycle[c].stage = "asked"
  /\ LET since == cycle[c].since.schema
         new == ListSchemaVersionsSince(since)
     IN AnswerSchemas(c, new, IF new = {} THEN since ELSE Newest(new))
  /\ UNCHANGED <<office, held, running, cursors, overtaken, reported, losses>>

\* pullAssignedBundle: the assigned bundle, only if it is past the cursor.
PullAssignedBundle(c, order) ==
  /\ cycle[c].stage = "schemas"
  /\ LET b == Assigned(order)
         newer == b > cycle[c].next.bundle IN
     Move(c, [stage |-> "answered", versions |-> cycle[c].versions,
              gaps |-> cycle[c].gaps,
              bundles |-> IF newer THEN Row(b) ELSE <<>>,
              next |-> IF newer THEN [cycle[c].next EXCEPT !.bundle = b]
                       ELSE cycle[c].next])
  /\ UNCHANGED <<office, held, running, cursors, overtaken, reported, losses>>

\* ApplyInboxPull: insert what is not there, set the cursors.
ApplyInboxPull(c) ==
  /\ cycle[c].stage = "answered"
  /\ held' = held \cup cycle[c].versions
  /\ running' = Insert(running, cycle[c].bundles)
  /\ cursors' = cycle[c].next
  /\ overtaken' = overtaken \cup cycle[c].gaps
  /\ Move(c, [stage |-> "pulled"])
  /\ UNCHANGED <<office, reported, losses>>

\* The status call names the bundle the vessel runs on as it is sent.
SendStatus(c) ==
  /\ cycle[c].stage = "pulled"
  /\ Move(c, [stage |-> "status", bundle |-> Runs])
  /\ UNCHANGED <<office, held, running, cursors, overtaken, reported, losses>>

SyncStatus(c) ==
  /\ cycle[c].stage = "status"
  /\ reported' = cycle[c].bundle
  /\ Move(c, Resting)
  /\ UNCHANGED <<office, held, running, cursors, overtaken, losses>>

\* Mutant: the cursors are kept of an answer that is lost.
LoseAnswer(c) ==
  /\ losses < MaxLosses
  /\ cycle[c].stage # "rest"
  /\ cursors' = IF cycle[c].stage = "answered" THEN cycle[c].next ELSE cursors
  /\ Move(c, IF cycle[c].stage \in {"pulled", "status"} THEN Resting
             ELSE [stage |-> "pulled"])
  /\ losses' = losses + 1
  /\ UNCHANGED <<office, held, running, overtaken, reported>>

\* A failed pull still ends in a status call, a failed status call in nothing.
Lose(c) ==
  /\ losses < MaxLosses
  /\ cycle[c].stage # "rest"
  /\ Move(c, IF cycle[c].stage \in {"pulled", "status"} THEN Resting
             ELSE [stage |-> "pulled"])
  /\ losses' = losses + 1
  /\ UNCHANGED <<office, held, running, cursors, overtaken, reported>>

\* Outside a pull: inserted unless it is there.
ApplyConfigBundle(b) == running' = Insert(running, Row(b))

\* Mutant: the table holds one bundle, the one received last.
ApplyReplacing(order) ==
  /\ Assigned(order) # 0
  /\ running' = Row(Assigned(order))
  /\ UNCHANGED <<office, held, cursors, overtaken, cycle, reported, losses>>

\* applyRestoreBundle: a restore command's bundle holds the assigned config,
\* newer or not (resolvedConfigBundle).
ApplyRestoreBundle(order) ==
  /\ Assigned(order) # 0
  /\ ApplyConfigBundle(Assigned(order))
  /\ UNCHANGED <<office, held, cursors, overtaken, cycle, reported, losses>>

-----------------------------------------------------------------------------

CycleStep(c) ==
  \/ BeginPull(c) \/ PullSchemaVersions(c)
  \/ \E order \in Orders : PullAssignedBundle(c, order)
  \/ ApplyInboxPull(c) \/ SendStatus(c) \/ SyncStatus(c)

Next ==
  \/ Author /\ UNCHANGED sync
  \/ \E c \in Cycles : CycleStep(c) \/ Lose(c)
  \/ \E order \in Orders : ApplyRestoreBundle(order)

Fairness == \A c \in Cycles : WF_vars(CycleStep(c))

Spec == Init /\ [][Next]_vars
FairSpec == Spec /\ Fairness

-----------------------------------------------------------------------------
(* Properties. *)

Fits(row, n) == RuledBy(row) \subseteq Settable(schemas[n])

\* handleSaveFieldPolicy checks a request against the version it has read: a
\* publication in between must not let a rule for a locked or missing field
\* into a row, into a request that composes a bundle, or into a bundle, and
\* what the editor opens next rules only fields the newest version has.
PolicyFitsSchema ==
  /\ \A k \in DOMAIN policies : Fits(policies[k], k[2])
  /\ \A b \in DOMAIN bundles : \A s \in DOMAIN bundles[b].policies :
       Fits(bundles[b].policies[s], bundles[b].version)
  /\ composing.read # <<>> => \A s \in DOMAIN composing.read[1] :
       Fits(composing.read[1][s], composing.version)
  /\ inserted # {} => \A s \in Scopes :
       RuledBy(FieldPolicyOf(s)) \subseteq schemas[LatestSchemaVersion].fields

\* With lost calls and two cycles that overtake each other, the vessel's schema
\* cursor runs past a version it has not stored only if that version drew its
\* cursor and was not committed when a pull read a later one
\* (pullSchemaVersions, ListSchemaVersionsSince).
PullMissesNoSchema == 1..cursors.schema \subseteq held \cup overtaken

\* A late answer, a second cycle or a restore command never takes a vessel
\* back to an older bundle (LatestConfigBundle).
NeverOlderBundle == [][Runs' >= Runs]_vars

\* Once config managers pause, a vessel that goes on syncing runs on the
\* bundle assigned to it or a newer one, and the office knows: whatever call
\* is lost and however the bundles were assigned, reassigned and regrouped.
ConfigArrives ==
  []<>(reported = Runs /\ \E order \in Orders : Runs >= Assigned(order))
=============================================================================
