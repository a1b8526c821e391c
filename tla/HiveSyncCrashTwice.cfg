SPECIFICATION Spec
CONSTANTS
  FileTypes = {"LOG"}
  FullWrites = FALSE
  MaxLength = 2
  MaxChanges = 2
  MaxSequence = 6
  MaxSyncFaults = 0
  MaxLoadFaults = 0
  TornHeaders = TRUE
  None = None
  Torn = Torn
INVARIANTS
  NoTornBlock
