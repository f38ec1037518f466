SPECIFICATION FairSpec
CONSTANTS
  Cycles = {scheduler}
  MaxEdits = 4
  MaxMessages = 2
  MaxBundles = 2
  MaxRequests = 4
  MaxFailures = 1
INVARIANT WallsAgree RestoredIsWhole
PROPERTY MessagesArrive

CHECK_DEADLOCK FALSE
