SPECIFICATION Spec
CONSTANTS
  Reports = {r1, r2}
  Times = {1, 2}
  RuleIDs = {"timestampUniqueness"}
  SyncProcs = {}
  BrokenRules <- MCBrokenRules
  MaxVersions = 2
  MaxOps = 7
  MaxFindings = 1
  MaxOffice = 0
  MaxAborts = 0
  MaxLost = 0
INVARIANT CascadeSettled
CHECK_DEADLOCK FALSE
