SPECIFICATION Spec
CONSTANTS
  FileTypes = {"LOG"}
  FullWrites = FALSE
  MaxLength = 3
  MaxChanges = 3
  MaxSequence = 6
  MaxSyncFaults = 1
  MaxLoadFaults = 1
  TornHeaders = TRUE
  None = None
  Torn = Torn
INVARIANTS
  SyncedIsDurable
  LogCoversUntilFailure
