CONSTANTS
  StableKey = 1
  VolatileKey = 10
  StableCells = {2, 3, 4, 5, 6}
  VolatileCells = {11, 12, 13}
  Names = {n1, n2, n3}
  LengthOf <- MCLengthOf
  Empty = "empty"
  EntrySize = 8
  Batch = 2
  MaxCalls = 3
  HCELL_NIL = HCELL_NIL
  None = None
  Void = Void
SPECIFICATION Spec
SYMMETRY SymmetricNames
CHECK_DEADLOCK FALSE
INVARIANT DataFits
