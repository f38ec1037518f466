--------------------------- MODULE MCOfficeLanding ---------------------------
(* OfficeLanding for TLC: two reports with one event time, the second      *)
(* corrected to another one, and an audit event.                           *)
EXTENDS OfficeLanding

MCItems ==
  {[no |-> 1, kind |-> "reportVersion", r |-> "a", v |-> 1, data |-> 1],
   [no |-> 2, kind |-> "reportAuditEvent", r |-> "a", v |-> 1, data |-> 1],
   [no |-> 3, kind |-> "reportVersion", r |-> "b", v |-> 1, data |-> 1],
   [no |-> 4, kind |-> "reportVersion", r |-> "b", v |-> 2, data |-> 2]}

\* EvaluateTimestampUniqueness
MCBrokenRules(chain, r) ==
  IF \E s \in DOMAIN chain \ {r} : chain[s] = chain[r]
  THEN {"timestampUniqueness"} ELSE {}

=============================================================================
