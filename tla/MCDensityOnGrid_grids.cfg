SPECIFICATION Spec
CONSTANTS
  Unit = 4
  None = None
  Cells <- MCCells
  Ratios <- MCRatios
  FftGrids <- MCFftGrids
  MAX_FFT_DIM = 8
CHECK_DEADLOCK FALSE
INVARIANTS
  GridTypeOK
  DefaultGridDoesNotAlias
  SymmetrizedIsGroupAverage
  SymmetrizedDensityIsInvariant
