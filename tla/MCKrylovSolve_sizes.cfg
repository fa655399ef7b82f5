SPECIFICATION KrylovSpec
CONSTANTS
  Problems <- MCProblems
  MaxRestarts = 2
CHECK_DEADLOCK FALSE
INVARIANTS
  KrylovTypeOK
  FaerAssertionHolds
  CeilingChain
  RestartHasRoom
  BandsOrError
PROPERTY
  SolveReturns
