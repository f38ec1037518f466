SPECIFICATION Spec
CONSTANTS
  Reports = {r1}
  Times = {1, 2}
  RuleIDs = {"timestampUniqueness"}
  SyncProcs = {scheduler}
  BrokenRules <- MCBrokenRules
  MaxVersions = 2
  MaxOps = 5
  MaxFindings = 0
  MaxOffice = 1
  MaxAborts = 1
  MaxLost = 0
INVARIANT OutIsCommitted HistoryCommitted OfficeCopyFaithful IInv
PROPERTY CommittedDataLocked HistorySpec
