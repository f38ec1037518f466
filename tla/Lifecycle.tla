------------------------------ MODULE Lifecycle ------------------------------
(***************************************************************************)
(* One report version and its lifecycle, as pkg/domain defines it.  A row  *)
(* keeps what the other modules tell apart:                                *)
(*   data    - the report's event time, standing for all its report data   *)
(*             (event type, event time and fields change together, and are *)
(*             locked together once the version is submitted);             *)
(*   state, invFrom, rules - State, InvalidatedFrom and InvalidatedRules.  *)
(* Timestamps and actors of the version are left out.  The rule identifiers*)
(* of a version form a set: the engine records them in one fixed order.    *)
(* Every operator below is the effect of the method of the same name; the  *)
(* method's precondition is the matching Can... operator.                  *)
(***************************************************************************)
EXTENDS Naturals

CONSTANTS Times,     \* the event times a report may carry (minute resolution)
          RuleIDs    \* the continuity rules of pkg/validation/continuity.go

ASSUME TimesAssumption == Times \subseteq Nat

\* StatePushed is declared by the code and never assigned.
State == {"draft", "ready", "submitted", "synced", "pushed", "remarked",
          "invalidated"}

Row == [data: Times, state: State, invFrom: State \cup {""},
        rules: SUBSET RuleIDs]

Editable(s) == s \in {"draft", "ready"}
InChain(s) == ~ Editable(s)

NewReport(t) ==
  [data |-> t, state |-> "draft", invFrom |-> "", rules |-> {}]

\* A save that changes nothing leaves a ready report ready.
SaveSection(row, t) ==
  IF t = row.data THEN row
  ELSE [row EXCEPT !.data = t,
                   !.state = IF @ = "ready" THEN "draft" ELSE @]

MarkReady(row, hasErrors) ==
  [row EXCEPT !.state = IF hasErrors THEN "draft" ELSE "ready"]

CanSubmit(row) == row.state = "ready"
Submit(row) == [row EXCEPT !.state = "submitted"]
SubmitEvent(v) == IF v > 1 THEN "resubmitted" ELSE "submitted"

CanMarkSynced(row) == row.state = "submitted"
MarkSynced(row) == [row EXCEPT !.state = "synced"]

\* invFrom and rules survive the transition.
CanMarkRemarked(row) == InChain(row.state)
MarkRemarked(row) == [row EXCEPT !.state = "remarked"]

\* Valid from every state; a second invalidation only replaces the rules.
Invalidate(row, broken) ==
  [row EXCEPT !.state = "invalidated",
              !.invFrom = IF row.state = "invalidated" THEN @ ELSE row.state,
              !.rules = broken]

\* Mutant: a correction may be started on a draft.
CanCorrectAny(row) == TRUE

CanCorrect(row) == InChain(row.state)
NewCorrection(row) == NewReport(row.data)

=============================================================================
