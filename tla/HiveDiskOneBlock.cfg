SPECIFICATION DiskSpec
CONSTANTS
  HBLOCK = 10
  MaxBlocks = 2
  Requests = {28, 60}
  Storage = "Stable"
INVARIANTS
  DiskTypeOK
  StaleBlocksAreDirty
  FreeListsExact
