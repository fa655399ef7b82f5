SPECIFICATION Spec
CONSTANTS
  NaN = NaN
  Infinity = Infinity
  Unset = Unset
  None = None
  NKpoints = 2
  MaxIter = 2
  ConvThreshold = 1
  EnergyThreshold = 2
  DeltaLevels <- MCDeltaLevels
  EnergyLevels <- MCEnergyLevels
CHECK_DEADLOCK FALSE
INVARIANTS
  TypeOK
  HamiltonianIsCurrent
  WarmStartIsPreviousIterate
  EigensolverErrorIsNotSwallowed
  WarnedAtMostOnce
