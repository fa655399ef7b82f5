SPECIFICATION Spec
CONSTANTS
  Unit = 12
  Crystals <- MCCrystals
  Grids <- MCGrids
CHECK_DEADLOCK FALSE
INVARIANTS
  KPointTypeOK
  WeightIsClassSize
  
  SymmetrizedSumIsFullSum
  OperationsFormGroup
