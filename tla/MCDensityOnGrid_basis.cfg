SPECIFICATION Spec
CONSTANTS
  Unit = 4
  None = None
  Cells <- MCDiamondCells
  Ratios <- MCDefaultRatio
  FftGrids <- MCDefaultGrid
  MAX_FFT_DIM = 1024
CHECK_DEADLOCK FALSE
INVARIANTS
  BasisIsCutoffSphere
