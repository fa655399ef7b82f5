SPECIFICATION Spec
CONSTANTS
  None = None
  State <- MCState
  BlockOf <- MCBlockOf
  Level <- MCLevel
  Frame <- MCFrame
  BandCounts <- MCBandCounts
CHECK_DEADLOCK FALSE
INVARIANTS
  SubspaceTypeOK
  ResultsAreEigenpairs
  WrongSetNeedsCrossing
PROPERTIES
  NaNSeedStays
