SPECIFICATION Spec
CONSTANTS
  NaN = NaN
  Infinity = Infinity
  Unset = Unset
  None = None
  NKpoints = 1
  MaxIter = 3
  ConvThreshold = 1
  EnergyThreshold = 2
  DeltaLevels <- MCDeltaLevels
  EnergyLevels <- MCEnergyLevels
CHECK_DEADLOCK FALSE
INVARIANTS
  ConvergedIsGenuine
  FailureIsHonest
PROPERTIES
  Implements
  Terminates
