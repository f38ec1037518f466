---------------------------- MODULE MCVesselAccess ----------------------------
(* VesselAccess for TLC: a Master and one officer, whom the office may create *)
(* and the vessel deactivate.  The office asks to deactivate the Master.       *)
EXTENDS VesselAccess

MCOrders ==
  {[action |-> "create", name |-> "mate", role |-> "officer"],
   [action |-> "setActive", name |-> "captain", active |-> FALSE]}

MCRequests ==
  {[action |-> "setActive", name |-> "mate", active |-> FALSE],
   [action |-> "password", name |-> "captain"]}

=============================================================================
