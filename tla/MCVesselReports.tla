--------------------------- MODULE MCVesselReports ---------------------------
(* VesselReports for TLC, under the default rule configuration: of the     *)
(* continuity rules only timestamp uniqueness has error severity.          *)
EXTENDS VesselReportsInv

\* EvaluateTimestampUniqueness
MCBrokenRules(chain, r) ==
  IF \E s \in DOMAIN chain \ {r} : chain[s] = chain[r]
  THEN {"timestampUniqueness"} ELSE {}

=============================================================================
