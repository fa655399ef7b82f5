SPECIFICATION Spec
CONSTANTS
  NaN = NaN
  Infinity = Infinity
  None = None
  Unit = 1000
  BetaStart = 30
  Norms <- MCNorms
  Modes <- MCModes
  Histories = {0, 1, 2, 3}
  Periods = {1, 2, 3}
  Coefficients <- MCCoefficients
  MaxCalls = 6
CHECK_DEADLOCK FALSE
INVARIANTS
  MixerTypeOK
  HistoryIsRecent
  MixConservesElectrons
  BetaStaysInRange
  MixPanicsOnlyWithoutHistory
PROPERTIES
  GrowthNeverRaisesBeta
  RestoreIsEarned
