----------------------------- MODULE OfficeConfig -----------------------------
(***************************************************************************)
(* What config managers author at the office: schema versions, field       *)
(* policies, regulatory profiles, cadence rules, rule severities, the      *)
(* bundles composed of them and their assignment to vessels (office/httpapi *)
(* and office/store).  One schema name stands for the five, which never    *)
(* meet except in a bundle.                                                *)
(*                                                                         *)
(* Requests take no lock.  Saving a field policy reads the newest schema   *)
(* version and writes later; publishing a bundle reads one table after the *)
(* other and writes last.  A schema version draws its cursor as its insert *)
(* runs and is there for others when the insert is committed; its number   *)
(* is the cursor, and published_at, stamped just before and read only at    *)
(* the office, is taken to give the same order.  Two publications of a      *)
(* bundle do not overlap.                                                  *)
(***************************************************************************)
EXTENDS Scoping

CONSTANTS
  Vessels, Tags,
  Vessel,          \* the vessel whose configuration is followed
  Contents,        \* schema versions that may be published: [fields, mandatory]
  Vocabulary,      \* event types of the schema, none if it has no events
  \* what may be saved, each a set of <<scope, row>>
  PolicyRequests, ProfileSets, CadenceRules, SeverityRows,
  MaxSchemas, MaxEdits, MaxBundles  \* bounds

Scopes == ScopesOf(Vessels, Tags)
\* The orders a list query may return rows in, where it makes a difference.
Orders ==
  {[s \in Scopes |-> IF s.type = "group" THEN place[s.key] ELSE 0] :
     place \in Bijection(Tags, 1..Cardinality(Tags))}

ASSUME VesselAssumption == Vessel \in Vessels
ASSUME ContentsAssumption ==
  \A c \in Contents : IsFiniteSet(c.fields) /\ c.mandatory \subseteq c.fields
InScopes(requests) == \A r \in requests : r[1] \in Scopes
ASSUME RequestsAssumption ==
  /\ InScopes(PolicyRequests) /\ InScopes(ProfileSets)
  /\ InScopes(CadenceRules) /\ InScopes(SeverityRows)
\* In hours.
ASSUME CadenceAssumption ==
  \A r \in CadenceRules : r[2].maxGap \in Int /\ r[2].minInterval \in Int

VARIABLES
  schemas,      \* schema_versions of the schema: what drew each cursor
  inserted,     \* the versions whose row is committed
  policies,     \* field_policy_assignments: [<<scope, version>> -> row]
  profiles, cadence, severities,  \* the compliance tables: [scope -> row]
  bundles,      \* config_bundles, in publication order
  assignments,  \* bundle_assignments: [scope -> bundle number]
  groups,       \* the tags of each vessel
  saving,       \* the version a request to save a field policy has read
  composing,    \* the request that publishes a bundle, as far as it has read
  edits         \* counter for MaxEdits

compliance == <<profiles, cadence, severities>>
registry == <<schemas, inserted>>
office == <<registry, policies, compliance, bundles, assignments, groups,
            saving, composing, edits>>

Idle == [version |-> -1, read |-> <<>>]

InitOffice ==
  /\ schemas = <<>> /\ inserted = {} /\ policies = <<>>
  /\ profiles = <<>> /\ cadence = <<>> /\ severities = <<>>
  /\ bundles = <<>> /\ assignments = <<>>
  /\ groups \in [Vessels -> SUBSET Tags]
  /\ saving = 0 /\ composing = Idle /\ edits = 0

\* One row per scope: the upsert of every table.
Upsert(table, key, row) ==
  [k \in DOMAIN table \cup {key} |-> IF k = key THEN row ELSE table[k]]
UpsertPolicy(s, n, row) == policies' = Upsert(policies, <<s, n>>, row)
UpsertProfiles(s, ps) == profiles' = Upsert(profiles, s, ps)
UpsertCadence(s, c) == cadence' = Upsert(cadence, s, c)
UpsertSeverities(s, row) == severities' = Upsert(severities, s, row)
UpsertAssignment(s, b) == assignments' = Upsert(assignments, s, b)

\* Never changed again.
CreateConfigBundle(b) == bundles' = Append(bundles, b)

\* By published_at, of the rows there are: 0 if there is none.
Newest(versions) ==
  IF versions = {} THEN 0
  ELSE CHOOSE n \in versions : \A m \in versions : m <= n
LatestSchemaVersion == Newest(inserted)

\* No row is the empty row.
LoadFieldPolicy(s, n) ==
  IF <<s, n>> \in DOMAIN policies THEN policies[<<s, n>>] ELSE EmptyRow

Edit == edits < MaxEdits /\ edits' = edits + 1

-----------------------------------------------------------------------------
(* Requests. *)

\* CreateSchemaVersion, never of a version that is there (UNIQUE): the column's
\* IDENTITY gives the insert its number,
PublishSchemaVersion(c) ==
  /\ Len(schemas) < MaxSchemas
  /\ c \notin Range(schemas) /\ schemas' = Append(schemas, c)
  /\ UNCHANGED <<inserted, policies, compliance, bundles, assignments, groups,
                 saving, composing, edits>>

\* and others see the row once it is committed, or never, if it fails.
CommitSchemaVersion(n) ==
  /\ n \notin inserted
  /\ inserted' = inserted \cup {n}
  /\ UNCHANGED <<schemas, policies, compliance, bundles, assignments, groups,
                 saving, composing, edits>>

\* handleSaveFieldPolicy up to the request body: the newest version.
BeginSaveFieldPolicy ==
  /\ saving = 0 /\ inserted # {}
  /\ saving' = LatestSchemaVersion
  /\ UNCHANGED <<registry, policies, compliance, bundles, assignments, groups,
                 composing, edits>>

\* Mutant: the row is saved under the version that is newest by then.
SaveUnderNewest(s, req) ==
  /\ saving # 0
  /\ ~Refused(req, schemas[saving], Vocabulary)
  /\ Edit
  /\ UpsertPolicy(s, LatestSchemaVersion, RowFrom(req, schemas[saving]))
  /\ saving' = 0
  /\ UNCHANGED <<registry, compliance, bundles, assignments, groups, composing>>

SaveFieldPolicy(s, req) ==
  /\ saving # 0
  /\ ~Refused(req, schemas[saving], Vocabulary)
  /\ Edit
  /\ UpsertPolicy(s, saving, RowFrom(req, schemas[saving]))
  /\ saving' = 0
  /\ UNCHANGED <<registry, compliance, bundles, assignments, groups, composing>>

SaveProfileAssignment(s, ps) ==
  /\ Edit
  /\ UpsertProfiles(s, ps)
  /\ UNCHANGED <<registry, policies, cadence, severities, bundles, assignments,
                 groups, saving, composing>>

SaveCadenceRule(s, c) ==
  /\ Edit
  /\ c.minInterval > 0 /\ c.maxGap > 0
  /\ UpsertCadence(s, c)
  /\ UNCHANGED <<registry, policies, profiles, severities, bundles, assignments,
                 groups, saving, composing>>

\* SetSeverity refuses the hard rule, unknown rules and unknown severities.
HardRuleIDs == {"plausibility.consumptionSchemeExclusivity"}
SaveRuleSeverities(s, row) ==
  /\ Edit
  /\ DOMAIN row \cap HardRuleIDs = {} /\ Range(row) \subseteq Severity
  /\ UpsertSeverities(s, row)
  /\ UNCHANGED <<registry, policies, profiles, cadence, bundles, assignments,
                 groups, saving, composing>>

\* buildMigration: the row of the version before carried over to version n.
Migration(s, before, n) ==
  Migrate(LoadFieldPolicy(s, before), DiffSchemas(schemas[before], schemas[n]))

\* What the editor of scope s opens: the saved row of the newest version, or,
\* where that is empty, the migration of the previous one's.
FieldPolicyOf(s) ==
  LET n == LatestSchemaVersion
      before == Newest(inserted \ {n})
      saved == LoadFieldPolicy(s, n)
  IN IF saved = EmptyRow /\ before # 0 THEN Migration(s, before, n) ELSE saved

-----------------------------------------------------------------------------
(* Bundles. *)

PolicyRows(n) ==
  LET at == {k \in DOMAIN policies : k[2] = n}
  IN [s \in {k[1] : k \in at} |-> policies[<<s, n>>]]

BeginPublishBundle ==
  /\ composing = Idle
  /\ Len(bundles) < MaxBundles
  /\ composing' = [version |-> LatestSchemaVersion, read |-> <<>>]
  /\ UNCHANGED <<registry, policies, compliance, bundles, assignments, groups,
                 saving, edits>>

\* composeCurrentBundle's four list queries, one at a time.
ComposeRead ==
  /\ composing # Idle /\ Len(composing.read) < 4
  /\ composing' = [composing EXCEPT !.read = Append(@,
       <<PolicyRows(composing.version), profiles, cadence,
         severities>>[Len(@) + 1])]
  /\ UNCHANGED <<registry, policies, compliance, bundles, assignments, groups,
                 saving, edits>>

\* A bundle is a deep copy of the rows as they were read.
Compose(version, read, order) ==
  [version |-> version, order |-> order, policies |-> read[1],
   profiles |-> read[2], cadence |-> read[3], severities |-> read[4]]

PublishConfigBundle(order) ==
  /\ Len(composing.read) = 4
  /\ CreateConfigBundle(Compose(composing.version, composing.read, order))
  /\ composing' = Idle
  /\ UNCHANGED <<registry, policies, compliance, assignments, groups, saving,
                 edits>>

SaveBundleAssignment(s, b) ==
  /\ Edit
  /\ b \in DOMAIN bundles
  /\ UpsertAssignment(s, b)
  /\ UNCHANGED <<registry, policies, compliance, bundles, groups, saving,
                 composing>>

\* handleUpdateVessel's new tags, and the renaming or deletion of a group
\* (vessel by vessel in the code), which change the vessels' tags and none of
\* the rows keyed by a tag.
UpdateGroups(v, gs) ==
  /\ Edit
  /\ groups' = [groups EXCEPT ![v] = gs]
  /\ UNCHANGED <<registry, policies, compliance, bundles, assignments, saving,
                 composing>>

RenameVesselGroup(g, h) ==
  /\ Edit
  /\ groups' = [v \in Vessels |->
       IF g \in groups[v] THEN (groups[v] \ {g}) \cup {h} ELSE groups[v]]
  /\ UNCHANGED <<registry, policies, compliance, bundles, assignments, saving,
                 composing>>

DeleteVesselGroup(g) ==
  /\ Edit
  /\ groups' = [v \in Vessels |-> groups[v] \ {g}]
  /\ UNCHANGED <<registry, policies, compliance, bundles, assignments, saving,
                 composing>>

Author ==
  \/ \E c \in Contents : PublishSchemaVersion(c)
  \/ \E n \in DOMAIN schemas : CommitSchemaVersion(n)
  \/ BeginSaveFieldPolicy
  \/ \E r \in PolicyRequests : SaveFieldPolicy(r[1], r[2])
  \/ \E r \in ProfileSets : SaveProfileAssignment(r[1], r[2])
  \/ \E r \in CadenceRules : SaveCadenceRule(r[1], r[2])
  \/ \E r \in SeverityRows : SaveRuleSeverities(r[1], r[2])
  \/ BeginPublishBundle
  \/ ComposeRead
  \/ \E order \in Orders : PublishConfigBundle(order)
  \/ \E s \in Scopes, b \in DOMAIN bundles : SaveBundleAssignment(s, b)
  \/ \E v \in Vessels, gs \in SUBSET Tags : UpdateGroups(v, gs)
  \/ \E g, h \in Tags : RenameVesselGroup(g, h)
  \/ \E g \in Tags : DeleteVesselGroup(g)
=============================================================================
