SPECIFICATION DiskSpec
CONSTANTS
  HBLOCK = 6
  MaxBlocks = 3
  Requests = {28, 100}
  Storage = "Stable"
INVARIANTS
  StaleBlocksAreDirty
