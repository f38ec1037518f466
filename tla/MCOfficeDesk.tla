----------------------------- MODULE MCOfficeDesk -----------------------------
(* OfficeDesk for TLC: an Admin, a clerk and one client of the data API, who  *)
(* reads three reports of two vessels, of which one is enrolled.              *)
EXTENDS OfficeDesk

MCRoleSets == {AllRoles, {"viewer"}}
MCVesselOf == 1 :> "aurora" @@ 2 :> "aurora" @@ 3 :> "borealis"
MCSymmetry == Permutations(Requests)
MCFilters ==
  {[group |-> Unscoped, state |-> "any"],
   [group |-> "tankers", state |-> "submitted"]}

=============================================================================
