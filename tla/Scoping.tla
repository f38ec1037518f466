------------------------------- MODULE Scoping -------------------------------
(***************************************************************************)
(* How the office narrows settings made for the fleet, for groups and for  *)
(* single vessels down to one vessel: office/compliance,                   *)
(* office/fieldpolicy and the assignment part of office/configbundle.      *)
(*                                                                         *)
(* A table has at most one row per scope, so it is a function whose domain *)
(* is a set of scopes.  No list query orders its rows: where the code      *)
(* takes the first of several, `order' ranks the scopes as they came.      *)
(***************************************************************************)
EXTENDS Integers, FiniteSets, Functions, SequencesExt

Fleet == [type |-> "fleet", key |-> "all"]
GroupScope(g) == [type |-> "group", key |-> g]
VesselScope(v) == [type |-> "vessel", key |-> v]
ScopesOf(vs, gs) ==
  {Fleet} \cup {GroupScope(g) : g \in gs} \cup {VesselScope(v) : v \in vs}

CoversVessel(s, v, gs) ==
  \/ s.type = "fleet"
  \/ s.type = "vessel" /\ s.key = v
  \/ s.type = "group" /\ s.key \in gs

\* vessel > group > fleet: the scopes of S that count for v, all of one type.
MostSpecific(S, v, gs) ==
  LET Covering(t) == {s \in S : s.type = t /\ CoversVessel(s, v, gs)}
  IN IF Covering("vessel") # {} THEN Covering("vessel")
     ELSE IF Covering("group") # {} THEN Covering("group")
     ELSE Covering("fleet")

\* The elements of S of least rank.
Least(S, rank(_)) == {s \in S : \A t \in S : rank(s) <= rank(t)}
First(S, order) == LET at(s) == order[s] IN CHOOSE s \in Least(S, at) : TRUE

-----------------------------------------------------------------------------
(* Regulatory profiles, cadence and rule severities (office/compliance). *)

Severity == {"error", "warning", "info"}
SeverityRank(s) == CASE s = "error" -> 0 [] s = "warning" -> 1 [] OTHER -> 2

EffectiveProfiles(t, v, gs) ==
  UNION {t[s] : s \in {x \in DOMAIN t : CoversVessel(x, v, gs)}}

DefaultCadence == [maxGap |-> 12, minInterval |-> 24]
StricterCadence(a, b) ==
  \/ a.maxGap < b.maxGap
  \/ a.maxGap = b.maxGap /\ a.minInterval < b.minInterval
EffectiveCadence(t, v, gs) ==
  LET rules == {t[s] : s \in MostSpecific(DOMAIN t, v, gs)}
  IN IF rules = {} THEN DefaultCadence
     ELSE CHOOSE c \in rules : \A d \in rules : ~StricterCadence(d, c)

\* Mutant: the most lenient severity wins.
LenientSeverities(t, v, gs) ==
  LET For(id) == MostSpecific({s \in DOMAIN t : id \in DOMAIN t[s]}, v, gs)
      ids == {id \in UNION {DOMAIN t[s] : s \in DOMAIN t} : For(id) # {}}
      lenience(x) == -SeverityRank(x)
  IN [id \in ids |-> CHOOSE x \in Least({t[s][id] : s \in For(id)}, lenience) : TRUE]

\* Rule by rule; a rule nobody sets keeps the engine's own default.
EffectiveSeverities(t, v, gs) ==
  LET For(id) == MostSpecific({s \in DOMAIN t : id \in DOMAIN t[s]}, v, gs)
      ids == {id \in UNION {DOMAIN t[s] : s \in DOMAIN t} : For(id) # {}}
  IN [id \in ids |->
        CHOOSE x \in Least({t[s][id] : s \in For(id)}, SeverityRank) : TRUE]

-----------------------------------------------------------------------------
(* Field policies (office/fieldpolicy).  A row holds overrides only:       *)
(* [policy, events, prefill], each a function on the fields it overrides.  *)

EmptyRow == [policy |-> <<>>, events |-> <<>>, prefill |-> <<>>]
FieldState ==
  {"hidden", "optional", "recommended", "companyMandatory", "schemaMandatory"}
AllEvents == "*"

\* SetPolicy, SetEvents and SetPrefillClass, for each entry of a request
\* about a schema version [fields, mandatory]: entries for fields the schema
\* locks or does not have are skipped, except in prefill.
Settable(schema) == schema.fields \ schema.mandatory
RowFrom(req, schema) ==
  [policy  |-> Restrict(req.policy, DOMAIN req.policy \cap Settable(schema)),
   events  |-> Restrict(req.events,
                 {f \in DOMAIN req.events \cap Settable(schema) :
                    req.events[f] # {} /\ AllEvents \notin req.events[f]}),
   prefill |-> Restrict(req.prefill,
                 {f \in DOMAIN req.prefill : req.prefill[f] # "none"})]
\* What the handler refuses with 400 instead of saving.
Refused(req, schema, vocabulary) ==
  LET listed == DOMAIN req.events \cap Settable(schema)
  IN \/ \E f \in DOMAIN req.policy \cap Settable(schema) :
          req.policy[f] \notin FieldState \ {"schemaMandatory"}
     \/ vocabulary = {} /\ listed # {}
     \/ \E f \in listed : AllEvents \notin req.events[f]
                          /\ ~(req.events[f] \subseteq vocabulary)

StateRank(st) ==
  CASE st = "hidden" -> 0 [] st = "recommended" -> 2
    [] st = "companyMandatory" -> 3 [] OTHER -> 1

RuledBy(row) == DOMAIN row.policy \cup DOMAIN row.events

\* The one scope whose whole rule for f applies: among groups the strictest
\* state, a rule that only narrows events last, the first of equals.
WinningRule(t, order, v, gs, f) ==
  LET S == MostSpecific({s \in DOMAIN t : f \in RuledBy(t[s])}, v, gs)
      laxity(s) == IF f \in DOMAIN t[s].policy
                   THEN -StateRank(t[s].policy[f]) ELSE 1
  IN First(Least(S, laxity), order)

\* A prefill class comes from the first group that has one, apart from the rule.
PrefillScope(t, order, v, gs, f) ==
  First(MostSpecific({s \in DOMAIN t : f \in DOMAIN t[s].prefill}, v, gs), order)

\* Mutant: the events of a field come from the first scope that has some.
EventsApart(t, order, v, gs) ==
  LET covering == {s \in DOMAIN t : CoversVessel(s, v, gs)}
      ruled == UNION {RuledBy(t[s]) : s \in covering}
      Win(f) == t[WinningRule(t, order, v, gs, f)]
      Narrow(f) ==
        First(MostSpecific({s \in DOMAIN t : f \in DOMAIN t[s].events}, v, gs), order)
  IN [policy |->
        [f \in {g \in ruled : g \in DOMAIN Win(g).policy} |-> Win(f).policy[f]],
      events |-> [f \in UNION {DOMAIN t[s].events : s \in covering} |->
                    t[Narrow(f)].events[f]],
      prefill |-> <<>>]

EffectiveFieldPolicy(t, order, v, gs) ==
  LET covering == {s \in DOMAIN t : CoversVessel(s, v, gs)}
      ruled == UNION {RuledBy(t[s]) : s \in covering}
      Win(f) == t[WinningRule(t, order, v, gs, f)]
  IN [policy |->
        [f \in {g \in ruled : g \in DOMAIN Win(g).policy} |-> Win(f).policy[f]],
      events |->
        [f \in {g \in ruled : g \in DOMAIN Win(g).events} |-> Win(f).events[f]],
      prefill |->
        [f \in UNION {DOMAIN t[s].prefill : s \in covering} |->
           t[PrefillScope(t, order, v, gs, f)].prefill[f]]]

DiffSchemas(before, after) ==
  [added |-> after.fields \ before.fields,
   removed |-> before.fields \ after.fields]

\* Carried over to the next version of a schema: minus the removed fields.
Migrate(row, diff) ==
  LET Kept(f) == Restrict(f, DOMAIN f \ diff.removed) IN
  [policy |-> Kept(row.policy), events |-> Kept(row.events),
   prefill |-> Kept(row.prefill)]

-----------------------------------------------------------------------------
(* What a field is to the officer: pkg/validation/policy.go. *)

AppliesTo(events, f, e) ==
  \/ e = "" \/ f \notin DOMAIN events
  \/ events[f] = {} \/ AllEvents \in events[f] \/ e \in events[f]

\* relevant: the curated schema ties f to some regulatory profile.
StateFor(policy, f, mandatory, relevant) ==
  IF mandatory THEN "schemaMandatory"
  ELSE IF f \in DOMAIN policy THEN policy[f]
  ELSE IF relevant THEN "recommended" ELSE "optional"

\* Mutant: applicability is looked at before the schema.
EventsFirst(policy, events, f, mandatory, relevant, e) ==
  IF ~AppliesTo(events, f, e) THEN "hidden"
  ELSE StateFor(policy, f, mandatory, relevant)

StateForEvent(policy, events, f, mandatory, relevant, e) ==
  IF ~mandatory /\ ~AppliesTo(events, f, e) THEN "hidden"
  ELSE StateFor(policy, f, mandatory, relevant)

-----------------------------------------------------------------------------
(* Which bundle a vessel is assigned (office/configbundle/assignment.go). *)

Resolve(assignments, order, v, gs) ==
  LET S == MostSpecific(DOMAIN assignments, v, gs)
  IN IF S = {} THEN 0 ELSE assignments[First(S, order)]

\* The vessel's own flat document (ResolveFor).
ResolveFor(b, v, gs) ==
  LET eff == EffectiveFieldPolicy(b.policies, b.order, v, gs)
  IN [version |-> b.version, policy |-> eff.policy, events |-> eff.events,
      prefill |-> eff.prefill,
      profiles |-> EffectiveProfiles(b.profiles, v, gs),
      maxGap |-> EffectiveCadence(b.cadence, v, gs).maxGap,
      severities |-> EffectiveSeverities(b.severities, v, gs)]
=============================================================================
