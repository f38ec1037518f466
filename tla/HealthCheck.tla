------------------------------ MODULE HealthCheck ------------------------------
(***************************************************************************)
(* The officers' side of a configuration: the form, the health check and   *)
(* the cascade of one vessel for one schema (vessel/httpapi/reports.go,     *)
(* schemas.go, configbundle.go), with the tables of the office they are    *)
(* configured from.                                                        *)
(*                                                                         *)
(* ConfigSync says how a bundle comes aboard; here publishing, assigning   *)
(* and pulling it is the one step ApplyConfig.  VesselReports has the whole *)
(* life of a version; here a report has a committed version, a version     *)
(* being written, or both, and the rules are those of Validation.          *)
(***************************************************************************)
EXTENDS OfficeConfig, Validation

CONSTANTS
  ReportIDs,
  Entries,     \* what an officer may fill in: [event, time, num, str, illFormed]
  Histories,   \* the chains the vessel may start from, none of them flagged
  BuiltIn,     \* the schema compiled into the vessel, see Validation
  FuelTypes,   \* logAbstractFuelTypes, see LogAbstractConfig
  StandIn      \* the document a vessel without a bundle goes by

ASSUME EntriesAssumption ==
  \A d \in Entries : d.time \in Int /\ \A f \in DOMAIN d.num : d.num[f] \in Int
\* "new" stands for the id the form gives a report that is not saved yet.
ASSUME ReportsAssumption == "new" \notin ReportIDs
\* Every version in a history has passed a check.
ASSUME HistoriesAssumption ==
  \A h \in Histories :
    /\ DOMAIN h \subseteq ReportIDs /\ IsFiniteSet(DOMAIN h)
    /\ \A id \in DOMAIN h : h[id] \in Entries /\ \A f \in BuiltIn.mandatory : ~IsEmpty(h[id], f)
ASSUME BuiltInAssumption == BuiltIn.mandatory \subseteq BuiltIn.fields
\* What is consumed and what remains are entered in fields of their own.
ASSUME FuelAssumption ==
  /\ Since \notin DOMAIN FuelTypes
  /\ \A rob \in DOMAIN FuelTypes :
       /\ IsFiniteSet(FuelTypes[rob])
       /\ FuelTypes[rob] \cap ({Since} \cup DOMAIN FuelTypes) = {}

VARIABLES
  document,   \* the bundle in force aboard
  committed,  \* the chain: [report -> its latest submitted version]
  broken,     \* InvalidatedRules of the committed versions flagged so far
  draft       \* the versions being written: [report -> [data, state, fresh]]

\* fresh: nothing the check looked at has changed since (a history variable).
aboard == <<document, committed, broken, draft>>
checkVars == <<office, aboard>>

ValidationConfig ==
  [LogAbstractConfig(FuelTypes) EXCEPT !.severities = document.severities]

ReportOf(id, data) ==
  [id |-> id, event |-> data.event, time |-> data.time, num |-> data.num,
   str |-> data.str, illFormed |-> data.illFormed]
ChainOf(c) == {ReportOf(id, c[id]) : id \in DOMAIN c}

CheckInit ==
  /\ schemas \in {<<c>> : c \in Contents} /\ inserted = {1}
  /\ policies = <<>> /\ profiles = <<>> /\ cadence = <<>> /\ severities = <<>>
  /\ bundles = <<>> /\ assignments = <<>>
  /\ groups \in [Vessels -> SUBSET Tags]
  /\ saving = 0 /\ composing = Idle /\ edits = 0
  /\ document = StandIn
  /\ committed \in Histories /\ broken = <<>> /\ draft = <<>>

\* A request of an officer; it counts against MaxEdits like one of the office.
Request == Edit /\ UNCHANGED <<registry, policies, compliance, bundles,
                               assignments, groups, saving, composing>>

-----------------------------------------------------------------------------
(* Health check and cascade. *)

\* evaluateReport.  Ties of the chain come out of the database in any order.
EvaluateReport(r, chain) ==
  EvaluateFieldRules(r, BuiltIn, document.policy, document.events)
    \cup EvaluatePlausibilityRules(r, ValidationConfig)
    \cup FindingsIn(r, chain, ValidationConfig)

\* runCascade over the committed chain c: a flag is set, never taken back.
RunCascade(c) ==
  \E chain \in Chains(ChainOf(c)) :
    broken' = Revalidate(chain, ValidationConfig) @@ broken

\* What was checked against another chain or another bundle is stale.
Stale(d) == [id \in DOMAIN d |-> [d[id] EXCEPT !.fresh = FALSE]]

\* Mutant: saving a section of a ready report leaves it ready.
SaveStaysReady(id, data) ==
  /\ Request
  /\ id \in DOMAIN committed => id \in DOMAIN draft
  /\ draft' = Upsert(draft, id,
       IF id \in DOMAIN draft THEN [draft[id] EXCEPT !.data = data]
       ELSE [data |-> data, state |-> "draft", fresh |-> FALSE])
  /\ RunCascade(committed)
  /\ UNCHANGED <<document, committed>>

\* A form saved, section by section in the code: a report begun or edited.
SaveSection(id, data) ==
  /\ Request
  /\ id \in DOMAIN committed => id \in DOMAIN draft
  /\ draft' = Upsert(draft, id, [data |-> data, state |-> "draft", fresh |-> FALSE])
  /\ RunCascade(committed)
  /\ UNCHANGED <<document, committed>>

CheckReport(id) ==
  /\ Request
  /\ id \in DOMAIN draft
  /\ LET r == ReportOf(id, draft[id].data) IN
     \E chain \in CheckChains(r, ChainOf(committed)) :
       draft' = [draft EXCEPT ![id] =
         IF HasErrors(EvaluateReport(r, chain))
         THEN [data |-> draft[id].data, state |-> "draft", fresh |-> FALSE]
         ELSE [data |-> draft[id].data, state |-> "ready", fresh |-> TRUE]]
  /\ UNCHANGED <<document, committed, broken>>

\* Nothing is checked again; the new version starts without a flag.
SubmitReport(id) ==
  /\ Request
  /\ id \in DOMAIN draft /\ draft[id].state = "ready"
  /\ committed' = Upsert(committed, id, draft[id].data)
  /\ draft' = Stale(Restrict(draft, DOMAIN draft \ {id}))
  /\ \E chain \in Chains(ChainOf(committed')) :
       broken' = Revalidate(chain, ValidationConfig)
                   @@ Restrict(broken, DOMAIN broken \ {id})
  /\ UNCHANGED document

StartCorrection(id) ==
  /\ Request
  /\ id \in DOMAIN committed \ DOMAIN draft
  /\ draft' = Upsert(draft, id,
       [data |-> committed[id], state |-> "draft", fresh |-> FALSE])
  /\ UNCHANGED <<document, committed, broken>>

\* Publish, assign, pull: the tables as they are now, for this vessel.
ApplyConfig(order) ==
  /\ document' = ResolveFor(
       [version |-> LatestSchemaVersion, order |-> order,
        policies |-> PolicyRows(LatestSchemaVersion), profiles |-> profiles,
        cadence |-> cadence, severities |-> severities],
       Vessel, groups[Vessel])
  /\ draft' = Stale(draft)
  /\ UNCHANGED <<office, committed, broken>>

-----------------------------------------------------------------------------
(* The form a new report starts from (handleGetSchema). *)

\* Mutant: the list is taken in the order of the chain.
FirstSubmitted ==
  LET latest == {r \in ChainOf(committed) : r.id \notin DOMAIN draft}
      Time(r) == r.time
  IN Least(latest, Time)

\* lastSubmittedReport: reports whose latest version is submitted, the last of
\* them by event time.
LastSubmitted ==
  LET latest == {r \in ChainOf(committed) : r.id \notin DOMAIN draft}
      Age(r) == -r.time
  IN Least(latest, Age)

\* A field whose last value is carried forward, if it is not computed: one of
\* that class, or, without a bundle (version 0), any that has no class.
Carried(f) == IF f \in DOMAIN document.prefill
              THEN document.prefill[f] = "carryForward" ELSE document.version = 0

\* The values of a new report opened now, after `last': the hours since and the
\* remaining fuels are computed, what was consumed and all else is carried.
Prefill(last, now) ==
  [id |-> "new", event |-> "", time |-> now, illFormed |-> {},
   str |-> Restrict(last.str, {f \in DOMAIN last.str : Carried(f)}),
   num |-> [f \in {Since} \cup {g \in DOMAIN last.num :
                                g \in DOMAIN FuelTypes \/ Carried(g)} |->
              IF f = Since THEN now - last.time ELSE last.num[f]]]

-----------------------------------------------------------------------------

Configure ==
  \/ BeginSaveFieldPolicy
  \/ \E r \in PolicyRequests : SaveFieldPolicy(r[1], r[2])
  \/ \E r \in ProfileSets : SaveProfileAssignment(r[1], r[2])
  \/ \E r \in CadenceRules : SaveCadenceRule(r[1], r[2])
  \/ \E r \in SeverityRows : SaveRuleSeverities(r[1], r[2])
  \/ \E v \in Vessels, gs \in SUBSET Tags : UpdateGroups(v, gs)
  \/ \E g, h \in Tags : RenameVesselGroup(g, h)
  \/ \E g \in Tags : DeleteVesselGroup(g)

CheckNext ==
  \/ Configure /\ UNCHANGED aboard
  \/ \E id \in ReportIDs : \/ \E data \in Entries : SaveSection(id, data)
                           \/ CheckReport(id) \/ SubmitReport(id)
                           \/ StartCorrection(id)
  \/ \E order \in Orders : ApplyConfig(order)

CheckSpec == CheckInit /\ [][CheckNext]_checkVars

-----------------------------------------------------------------------------
(* Properties. *)

\* The health check and the cascade are two readings of one chain: a report
\* that is ready, and submitted before the chain or the bundle changes, is not
\* invalidated by its own submission (handleCheckReport, handleSubmitReport),
\* unless an accepted tie, its own or earlier, leaves the chain up to it open.
CheckedIsSound ==
  \A id \in {x \in DOMAIN draft : draft[x].state = "ready" /\ draft[x].fresh} :
    LET r == ReportOf(id, draft[id].data)
        others == {o \in ChainOf(committed) : o.id # id}
        upTo == {o \in others \cup {r} : o.time <= r.time}
    IN (\A o, p \in upTo : o.time = p.time => o = p) =>
         \A chain \in Chains(others \cup {r}) :
           id \notin DOMAIN Revalidate(chain, ValidationConfig)

\* However policies are authored, for whatever version, and whenever a bundle
\* arrives, no report is committed without the fields the vessel's own schema
\* makes mandatory, and none of them is missing for a profile.
SchemaMandatoryHolds ==
  \A r \in ChainOf(committed) :
    /\ \A f \in BuiltIn.mandatory : ~IsEmpty(r, f)
    /\ LET missing == EvaluateRegulatoryReadiness(r, BuiltIn, document.profiles,
                        document.policy, document.events)
       IN \A p \in DOMAIN missing : missing[p] \cap BuiltIn.mandatory = {}

\* The values a new report is prefilled with continue the chain they are
\* checked against, unless a submitted report is being corrected: the hours
\* always do, and a remaining fuel does unless what the last report consumed of
\* it is carried forward with it (handleGetSchema).
PrefillContinues ==
  (DOMAIN committed \cap DOMAIN draft = {} /\ committed # <<>>) =>
    LET now == 1 + CHOOSE t \in {r.time : r \in ChainOf(committed)} :
                     \A r \in ChainOf(committed) : r.time <= t
    IN \A last \in LastSubmitted :
         LET r == Prefill(last, now) IN
         (\A o \in ChainOf(committed) : o.time = last.time => o = last) =>
           \A chain \in CheckChains(r, ChainOf(committed)) :
             /\ EvaluateTimeChain(r, Before(r.id, chain), ValidationConfig) = {}
             /\ \A x \in EvaluateROBContinuity(r, Before(r.id, chain),
                                               ValidationConfig) :
                  \E f \in FuelTypes[x.field] : Carried(f) /\ Number(last, f) # 0

Live == PolicyRows(LatestSchemaVersion)
GroupRows(t, gs) == {s \in DOMAIN t : s.type = "group" /\ s.key \in gs}
NoVesselRow(t) == VesselScope(Vessel) \notin DOMAIN t

\* Among the groups of a vessel the strictest setting wins: no group's cadence,
\* severity or field state is stricter than what the vessel gets, whatever
\* groups it is in (office/compliance, office/fieldpolicy).
StrictestGroupWins ==
  \A gs \in SUBSET Tags :
    /\ NoVesselRow(cadence) => \A s \in GroupRows(cadence, gs) :
         ~StricterCadence(cadence[s], EffectiveCadence(cadence, Vessel, gs))
    /\ NoVesselRow(severities) =>
         \A s \in GroupRows(severities, gs) : \A id \in DOMAIN severities[s] :
           SeverityRank(EffectiveSeverities(severities, Vessel, gs)[id])
             <= SeverityRank(severities[s][id])
    /\ NoVesselRow(Live) => \A order \in Orders :
         LET eff == EffectiveFieldPolicy(Live, order, Vessel, gs).policy IN
         \A s \in GroupRows(Live, gs) : \A f \in DOMAIN Live[s].policy :
           f \in DOMAIN eff /\ StateRank(eff[f]) >= StateRank(Live[s].policy[f])
    /\ \A s \in GroupRows(profiles, gs) :
         profiles[s] \subseteq EffectiveProfiles(profiles, Vessel, gs)

\* A field's state and the events it is narrowed to come from one scope, never
\* the state of one group on the events of another (EffectiveFieldPolicy).
RuleIsWhole ==
  LET Same(x, y, f) == /\ f \in DOMAIN x <=> f \in DOMAIN y
                       /\ f \in DOMAIN x => x[f] = y[f]
  IN \A gs \in SUBSET Tags, order \in Orders :
       LET eff == EffectiveFieldPolicy(Live, order, Vessel, gs) IN
       \A f \in RuledBy(eff) : \E s \in DOMAIN Live :
         /\ CoversVessel(s, Vessel, gs)
         /\ Same(eff.policy, Live[s].policy, f)
         /\ Same(eff.events, Live[s].events, f)
=============================================================================
