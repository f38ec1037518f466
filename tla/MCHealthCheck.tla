---------------------------- MODULE MCHealthCheck ----------------------------
(* HealthCheck for TLC: one vessel in up to two groups; a field the vessel's *)
(* schema locks and the office's newer one leaves free; reports that depart, *)
(* arrive and depart again, the last one without the mandatory field.       *)
EXTENDS HealthCheck

ROB == "HFO_ROB"
MCFields == {Since, ROB, "Voyage_From"}
MCContents == {[fields |-> MCFields, mandatory |-> {}]}
MCBuiltIn ==
  [fields |-> MCFields, mandatory |-> {"Voyage_From"},
   kind |-> [f \in MCFields |-> IF f = "Voyage_From" THEN "text" ELSE "number"],
   relevance |-> [f \in MCFields |-> IF f = Since THEN <<>> ELSE "mrv" :> "needed"]]
MCFuelTypes == ROB :> {"ME_Consumption_HFO", "Boiler_Consumption_HFO"}
MCStandIn ==
  [version |-> 0, policy |-> (ROB :> "recommended"), events |-> <<>>,
   prefill |-> <<>>, profiles |-> {"mrv"}, maxGap |-> 12, severities |-> <<>>]

Entry(event, time, since, rob, used, from) ==
  [event |-> event, time |-> time, illFormed |-> {},
   num |-> (Since :> since) @@ (ROB :> rob)
             @@ (IF used = 0 THEN <<>> ELSE "ME_Consumption_HFO" :> used),
   str |-> IF from = "" THEN <<>> ELSE "Voyage_From" :> from]
Departed == Entry("Departure", 1, 0, 9, 0, "Oslo")
Arrived == Entry("Arrival", 2, 1, 8, 1, "Oslo")
MCHistories == {<<>>, "r1" :> Departed, ("r1" :> Departed) @@ ("r2" :> Arrived)}
MCEntries ==
  {Departed, Arrived,
   Entry("Departure", 3, 1, 8, 0, "Oslo"), Entry("Arrival", 3, 1, 8, 1, "")}

Row(policy, events) == [policy |-> policy, events |-> events, prefill |-> <<>>]
MCPolicyRequests ==
  {<<GroupScope("a"), Row("Voyage_From" :> "recommended",
                          "Voyage_From" :> {"Departure"})>>,
   <<GroupScope("b"), Row("Voyage_From" :> "companyMandatory", <<>>)>>,
   <<VesselScope("v"), [Row(ROB :> "hidden", <<>>)
        EXCEPT !.prefill = "ME_Consumption_HFO" :> "carryForward"]>>,
   <<Fleet, Row(ROB :> "schemaMandatory", <<>>)>>}
MCProfileSets == {<<Fleet, {"mrv"}>>}
MCCadenceRules ==
  {<<GroupScope("a"), [maxGap |-> 12, minInterval |-> 6]>>,
   <<GroupScope("b"), [maxGap |-> 10, minInterval |-> 2]>>}
MCSeverityRows ==
  {<<GroupScope("a"), "continuity.timeChain" :> "error">>,
   <<GroupScope("b"), ("continuity.timeChain" :> "warning")
                        @@ ("continuity.timestampUniqueness" :> "warning")>>}
=============================================================================
