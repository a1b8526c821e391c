SPECIFICATION Spec
CONSTANTS
  FileTypes = {"PRIMARY", "ALTERNATE"}
  FullWrites = TRUE
  MaxLength = 2
  MaxChanges = 2
  MaxSequence = 6
  MaxSyncFaults = 1
  MaxLoadFaults = 0
  TornHeaders = FALSE
  None = None
  Torn = Torn
INVARIANTS
  TypeOK
  SyncedIsDurable
PROPERTIES
  DurableSpec
