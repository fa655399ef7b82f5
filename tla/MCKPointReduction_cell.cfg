SPECIFICATION Spec
CONSTANTS
  Unit = 12
  Crystals <- MCUnusualCells
  Grids <- MCSmallGrid
CHECK_DEADLOCK FALSE
INVARIANTS
  OperationsFormGroup
