------------------------------ MODULE Validation ------------------------------
(***************************************************************************)
(* The rule engine both sides run (pkg/validation), on plain data.         *)
(*                                                                         *)
(* A report is [id, event, time, num, str, illFormed]: its numeric and its *)
(* text values by field, a field in neither being empty, and the fields    *)
(* whose value has the right type and the wrong form.  A schema is         *)
(* [fields, mandatory, kind, relevance], relevance giving each field what  *)
(* the profiles make of it.  Times and amounts are integers: a tolerance   *)
(* is the largest difference that passes.                                  *)
(***************************************************************************)
EXTENDS Scoping

NoReport == [id |-> "none"]
AbsDiff(a, b) == IF a < b THEN b - a ELSE a - b
Number(r, f) == IF f \in DOMAIN r.num THEN r.num[f] ELSE 0
TextIs(r, f, S) == f \in DOMAIN r.str /\ r.str[f] \in S
IsEmpty(r, f) == f \notin DOMAIN r.num /\ (f \notin DOMAIN r.str \/ r.str[f] = "")

\* Findings are sets of [rule, field, severity].
Finding(id, f, sev) == [rule |-> id, field |-> f, severity |-> sev]
HasErrors(fs) == \E x \in fs : x.severity = "error"
SeverityOf(cfg, id, deflt) ==
  IF id \in DOMAIN cfg.severities THEN cfg.severities[id] ELSE deflt
\* The finding of a rule of the report as a whole, if it is broken.
When(broken, cfg, id, f, deflt) ==
  IF broken THEN {Finding(id, f, SeverityOf(cfg, id, deflt))} ELSE {}

-----------------------------------------------------------------------------
(* Configurations, without the severities of a bundle. *)

\* Pairs of stages that alternate; the spellings of one stage are alike.
DefaultEventGroups ==
  {<<{"Arrival", "ArrivalSTS"}, {"Departure", "DepartureSTS"}>>,
   <<{"BOSP", "BeginOfSeaPassage", "FAOP", "FullAheadOnPassage"},
     {"EOSP", "EndOfSeaPassage"}>>,
   <<{"BeginOfShifting"}, {"EndOfShifting"}>>,
   <<{"Begin canal passage"}, {"End canal passage"}>>,
   <<{"Begin Anchoring/Drifting"}, {"End Anchoring/Drifting"}>>,
   <<{"Begin fuel change over"}, {"End fuel change over"}>>,
   <<{"Begin of deviation"}, {"End of deviation"}>>,
   <<{"Entering special area"}, {"Leaving special area"}>>,
   <<{"Beginofoffhire"}, {"Endofoffhire"}>>}

\* Tolerances of 0.1 h and 0.5 t, in whole hours and tonnes.  Nothing names a
\* bunker delivery note field, so that scheme is never recognised.
DefaultConfig ==
  [timeTolerance |-> 0, robTolerance |-> 0, speedMin |-> 0, speedMax |-> 30,
   groups |-> DefaultEventGroups, severities |-> <<>>, series |-> <<>>,
   fuelFields |-> {}, bdnFields |-> {}]

\* fuelTypes: of each remaining-on-board field, the consumer fields it feeds.
LogAbstractConfig(fuelTypes) ==
  [DefaultConfig EXCEPT !.series = fuelTypes,
                        !.fuelFields = UNION Range(fuelTypes)]

-----------------------------------------------------------------------------
(* Fields. *)

StateOf(r, s, policy, events, f) ==
  StateForEvent(policy, events, f, f \in s.mandatory,
                DOMAIN s.relevance[f] # {}, r.event)

CheckFieldFormat(r, s, f) ==
  IF f \notin (IF s.kind[f] = "number" THEN DOMAIN r.num ELSE DOMAIN r.str)
  THEN {Finding("field.type", f, "error")}
  ELSE IF f \in r.illFormed THEN {Finding("field.format", f, "error")} ELSE {}

EvaluateFieldRules(r, s, policy, events) ==
  LET Required(f) ==
        CASE StateOf(r, s, policy, events, f)
               \in {"schemaMandatory", "companyMandatory"} ->
               {Finding("field.required", f, "error")}
          [] StateOf(r, s, policy, events, f) = "recommended" ->
               {Finding("field.required", f, "warning")}
          [] OTHER -> {}
  IN UNION {IF IsEmpty(r, f) THEN Required(f) ELSE CheckFieldFormat(r, s, f) :
              f \in {g \in s.fields :
                       StateOf(r, s, policy, events, g) # "hidden"}}

\* The fields each enabled profile still misses; a profile none of whose
\* fields is shown is left out.
EvaluateRegulatoryReadiness(r, s, enabled, policy, events) ==
  LET shown == {f \in s.fields : StateOf(r, s, policy, events, f) # "hidden"}
      Of(p) == {f \in shown : p \in DOMAIN s.relevance[f]}
  IN [p \in {q \in enabled : Of(q) # {}} |->
        {f \in Of(p) : s.relevance[f][p] = "needed" /\ IsEmpty(r, f)}]

-----------------------------------------------------------------------------
(* Plausibility. *)

TimeElapsedFields ==
  {"Sailing", "Anchoring", "DP", "Ice", "Maneuvering", "Waiting",
   "Loading_Unloading", "Drifting"}
Since == "Time_Since_Previous_Report"

TimeBucketSum(r, cfg) ==
  LET filled == TimeElapsedFields \cap DOMAIN r.num IN
  When(/\ Since \in DOMAIN r.num /\ filled # {}
       /\ AbsDiff(MapThenSumSet(LAMBDA f : r.num[f], filled), r.num[Since])
            > cfg.timeTolerance,
       cfg, "plausibility.timeBucketSum", Since, "warning")

\* Speed is distance over hours, compared without dividing.
ImpliedSpeed(r, cfg) ==
  When(/\ {"Distance", "Sailing"} \subseteq DOMAIN r.num
       /\ r.num["Sailing"] > 0
       /\ \/ r.num["Distance"] < cfg.speedMin * r.num["Sailing"]
          \/ r.num["Distance"] > cfg.speedMax * r.num["Sailing"],
       cfg, "plausibility.impliedSpeed", "Distance", "warning")

NoDistanceStationary(r, cfg) ==
  When(/\ Number(r, "Distance") > 0
       /\ \/ TextIs(r, "Mode", {"InPort"})
          \/ /\ {Since, "Anchoring"} \subseteq DOMAIN r.num
             /\ r.num[Since] > 0
             /\ r.num["Anchoring"] >= r.num[Since] - cfg.timeTolerance,
       cfg, "plausibility.noDistanceStationary", "Distance", "warning")

\* Always an error.  Neither side passes a lookup of bunker reports.
ConsumptionSchemeExclusivity(r, cfg) ==
  IF /\ \E f \in cfg.fuelFields : ~IsEmpty(r, f)
     /\ \E f \in cfg.bdnFields : ~IsEmpty(r, f)
  THEN {Finding("plausibility.consumptionSchemeExclusivity", "", "error")}
  ELSE {}

PositionRequired(r, cfg) ==
  When(/\ TextIs(r, "Mode", {"AtSea", "Sailing"})
       /\ \/ ~({"Latitude_Degree", "Longitude_Degree"} \subseteq DOMAIN r.num)
          \/ ~({"Latitude_North_South", "Longitude_East_West"}
                 \subseteq DOMAIN r.str),
       cfg, "plausibility.positionRequired", "", "warning")

PositionConsistency(r, cfg) ==
  LET Outside(f, limit) ==
        f \in DOMAIN r.num /\ r.num[f] \notin 0..limit
      Hemisphere(f, S) == f \in DOMAIN r.str /\ r.str[f] \notin S
      broken == {f \in {"Latitude_Degree"} : Outside(f, 90)}
         \cup {f \in {"Longitude_Degree"} : Outside(f, 180)}
         \cup {f \in {"Latitude_Minutes", "Longitude_Minutes"} : Outside(f, 59)}
         \cup {f \in {"Latitude_North_South"} : Hemisphere(f, {"N", "S"})}
         \cup {f \in {"Longitude_East_West"} : Hemisphere(f, {"E", "W"})}
  IN {Finding("plausibility.positionConsistency", f,
        SeverityOf(cfg, "plausibility.positionConsistency", "error")) :
        f \in broken}

EvaluatePlausibilityRules(r, cfg) ==
  TimeBucketSum(r, cfg) \cup ImpliedSpeed(r, cfg)
    \cup NoDistanceStationary(r, cfg) \cup ConsumptionSchemeExclusivity(r, cfg)
    \cup PositionRequired(r, cfg) \cup PositionConsistency(r, cfg)

-----------------------------------------------------------------------------
(* Continuity.  A chain is a sequence of reports by event time. *)

EvaluateTimeChain(r, prev, cfg) ==
  When(/\ prev # NoReport /\ Since \in DOMAIN r.num
       /\ AbsDiff(r.num[Since], r.time - prev.time) > cfg.timeTolerance,
       cfg, "continuity.timeChain", Since, "warning")

\* cfg.series: the fields consumption is entered in, by remaining-on-board field.
EvaluateROBContinuity(r, prev, cfg) ==
  LET Used(rob) == MapThenSumSet(LAMBDA f : Number(r, f), cfg.series[rob])
  IN IF prev = NoReport THEN {}
     ELSE UNION {When(AbsDiff(r.num[rob], prev.num[rob] - Used(rob))
                        > cfg.robTolerance,
                      cfg, "continuity.robContinuity", rob, "warning") :
            rob \in DOMAIN cfg.series \cap DOMAIN r.num \cap DOMAIN prev.num}

\* The reports of a chain that share their minute with another.
SharedMinute(chain) ==
  {chain[i].id : i \in {j \in DOMAIN chain : \E k \in DOMAIN chain \ {j} :
                          chain[k].time = chain[j].time}}

\* The reports that do not alternate with the last of their group: each group
\* is <<stage 0, stage 1>>, the event types of its two stages.
OutOfOrder(chain, cfg) ==
  LET Same(g, i, j) == \E n \in 1..2 : {chain[i].event, chain[j].event} \subseteq g[n]
      Staged(g, i) == chain[i].event \in g[1] \cup g[2]
      Repeats(g, j) ==
        \E i \in 1..(j - 1) : Same(g, i, j) /\ \A k \in (i + 1)..(j - 1) : ~Staged(g, k)
  IN {chain[j].id : j \in {k \in DOMAIN chain :
                             \E g \in cfg.groups : Repeats(g, k)}}

OfChain(id, chain, cfg) ==
  When(id \in OutOfOrder(chain, cfg), cfg, "continuity.eventOrdering", "",
       "warning")
  \cup When(id \in SharedMinute(chain), cfg, "continuity.timestampUniqueness",
            "", "error")

Position(id, chain) == CHOOSE i \in DOMAIN chain : chain[i].id = id
Before(id, chain) ==
  IF Position(id, chain) = 1 THEN NoReport ELSE chain[Position(id, chain) - 1]

FindingsIn(r, chain, cfg) ==
  EvaluateTimeChain(r, Before(r.id, chain), cfg)
    \cup EvaluateROBContinuity(r, Before(r.id, chain), cfg)
    \cup OfChain(r.id, chain, cfg)

\* The orders a set of reports may be sorted into: ties come out either way.
Chains(S) ==
  {q \in SetToSeqs(S) :
     \A i, j \in DOMAIN q : i < j => q[i].time <= q[j].time}

\* EvaluateContinuity: the committed chain, the report's own earlier version
\* replaced, the report last among those of its minute.
CheckChains(r, committed) ==
  {q \in Chains({o \in committed : o.id # r.id} \cup {r}) :
     \A i \in DOMAIN q : q[i].time = r.time => i <= Position(r.id, q)}

\* Revalidate: the rules each report breaks with the severity error.
Revalidate(chain, cfg) ==
  LET broken == [i \in DOMAIN chain |->
                   {x.rule : x \in {y \in FindingsIn(chain[i], chain, cfg) :
                                      y.severity = "error"}}]
  IN [id \in {chain[i].id : i \in {j \in DOMAIN chain : broken[j] # {}}} |->
        broken[Position(id, chain)]]
=============================================================================
