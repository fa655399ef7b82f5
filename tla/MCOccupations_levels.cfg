SPECIFICATION Spec
CONSTANTS
  NaN = NaN
  Infinity = Infinity
  None = None
  KPoints <- MCKPoints
  Bands = {1}
  Weight <- MCWeight
  Energies <- MCEnergies
  NElectrons <- MCNElectrons
  Magnetizations <- MCMagnetizations
  Margin = 20
  MaxSteps = 200
CHECK_DEADLOCK FALSE
INVARIANTS
  OccupationTypeOK
  BracketHolds
  LevelCarriesTheElectrons
  DensityHoldsTheCountedElectrons
  NaNReachesDensityIfSmeared
