SPECIFICATION Spec
CONSTANTS
  Items <- MCItems
  Calls = {push}
  Reviewers = {reviewer}
  Fields = {f}
  Times = {1, 2}
  RuleIDs = {"timestampUniqueness"}
  PushStates = {"submitted", "invalidated"}
  BrokenRules <- MCBrokenRules
  MaxSets = 1
  MaxFailures = 1
INVARIANT AckedHasLanded NoticesCurrent PullMissesNothing
