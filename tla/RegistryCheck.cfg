SPECIFICATION Spec
CONSTANTS
  Trees <- MCTrees
  RootCell = 1
  Names <- MCNames
  Outside <- MCOutside
  BlockList <- MCBlockList
  HBLOCK_SIZE = 3
  CallerFlags <- MCFlags
  CMP_REGISTRY_MAX_LEVELS_TREE_DEPTH = 6
CHECK_DEADLOCK FALSE
INVARIANTS
  TypeOK
  VerdictIsRight
  ChangesAreMarked
  OnlyDamagedKeysLost
PROPERTIES
  CheckEnds
