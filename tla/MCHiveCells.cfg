SPECIFICATION Spec
CONSTANTS
  HBLOCK = 7
  MaxBlocks = 3
  Requests = {28, 60, 124}
  Storage = "Volatile"
INVARIANTS
  TypeOK
  CellsTileBins
  FreeListsExact
  FreeCellsCoalesced
  GrowsOrFailsOnlyWhenFull
PROPERTIES
  HeapSpec
