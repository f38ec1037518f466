SPECIFICATION Spec
CONSTANTS
  Users = {"admin", "clerk"}
  RoleSets <- MCRoleSets
  Requests = {request1, request2}
  Keys = {key1}
  Groups = {"tankers"}
  Callers = {client1}
  MaxSteps = 4
  Vessels = {"aurora", "borealis"}
  Enrolled = {"aurora"}
  Reports = {1, 2, 3}
  VesselOf <- MCVesselOf
  Founder = "admin"
  Landed = {1, 2}
  Filters <- MCFilters
  Limits = {0, 1}
  DefaultLimit = 2
  MaxLimit = 2
  MaxGap = 0
  Lookback = 0
  Cap = 2
  MaxDays = 1
INVARIANT AccountsHold KeysAccountedFor PagesMissNothing ReadWasShown
SYMMETRY MCSymmetry
CHECK_DEADLOCK FALSE
