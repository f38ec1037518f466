SPECIFICATION FairSpec
CONSTANTS
  Reports = {r1}
  Times = {1}
  RuleIDs = {"timestampUniqueness"}
  SyncProcs = {scheduler}
  BrokenRules <- MCBrokenRules
  MaxVersions = 2
  MaxOps = 5
  MaxFindings = 0
  MaxOffice = 0
  MaxAborts = 0
  MaxLost = 1
INVARIANT SubmittedIsQueued SyncedHasLanded
PROPERTY SubmittedIsDelivered
