SPECIFICATION FairSpec
CONSTANTS
  Rows = {a1, a2}
  Cycles = {scheduler}
  ChunkCount = 2
  NoFile = NoFile
  Stops = {"list", "has", "register", "missing", "chunk", "get", "write", "record", "mark"}
  MaxFailures = 2
CHECK_DEADLOCK FALSE
INVARIANT StoredIsWhole SyncedIsStored
PROPERTY PendingIsSynced
