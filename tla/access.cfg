SPECIFICATION FairSpec
CONSTANTS
  Admins = {}
  Setups = {setup1}
  Cycles = {scheduler}
  MaxCodes = 1
  MaxExchanges = 1
  MaxCuts = 1
  Names = {"captain", "mate"}
  Master = "captain"
  Crew = {"officer"}
  Orders <- MCOrders
  Requests <- MCRequests
  MaxCommands = 2
  MaxChanges = 1
  MaxRestores = 1
INVARIANT MasterStaysActive CommandsAccountedFor
CHECK_DEADLOCK FALSE
PROPERTY CommandsAreTried RosterHeals
