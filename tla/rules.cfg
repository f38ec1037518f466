SPECIFICATION CheckSpec
CONSTANTS
  Vessels = {"v"}
  Vessel = "v"
  Tags = {"a", "b"}
  Contents <- MCContents
  Vocabulary = {"Arrival", "Departure"}
  PolicyRequests <- MCPolicyRequests
  ProfileSets <- MCProfileSets
  CadenceRules <- MCCadenceRules
  SeverityRows <- MCSeverityRows
  MaxSchemas = 1
  MaxEdits = 4
  MaxBundles = 0
  ReportIDs = {"r1", "r2", "r3"}
  Entries <- MCEntries
  Histories <- MCHistories
  BuiltIn <- MCBuiltIn
  FuelTypes <- MCFuelTypes
  StandIn <- MCStandIn
INVARIANT CheckedIsSound SchemaMandatoryHolds PrefillContinues StrictestGroupWins RuleIsWhole
CHECK_DEADLOCK FALSE
