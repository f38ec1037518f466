SPECIFICATION FairSpec
CONSTANTS
  Vessels = {"v"}
  Vessel = "v"
  Tags = {}
  Contents <- MCContents
  Vocabulary = {}
  PolicyRequests <- MCPolicyRequests
  ProfileSets = {}
  CadenceRules = {}
  SeverityRows = {}
  MaxSchemas = 2
  MaxEdits = 2
  MaxBundles = 2
  Cycles = {"c"}
  MaxLosses = 1
INVARIANT PolicyFitsSchema PullMissesNoSchema
PROPERTY NeverOlderBundle ConfigArrives
