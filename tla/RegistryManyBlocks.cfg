SPECIFICATION Spec
CONSTANTS
  StableCells <- Stables
  VolatileCells <- Volatiles
  RootCell = 1
  HCELL_NIL = HCELL_NIL
  ControlSet001 = ControlSet001
  CurrentControlSet = CurrentControlSet
  UserNames = {Key}
  BlockOf <- OwnBlocks
  Foreign = TRUE
  MaxSessions = 2
  MaxChanges = 3
  MaxFailures = 0
  None = None
CHECK_DEADLOCK FALSE
INVARIANTS
  DescriptorsSigned
