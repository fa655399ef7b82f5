SPECIFICATION KrylovSpec
CONSTANTS
  Problems <- MCSmallProblems
  MaxRestarts = 1
CHECK_DEADLOCK FALSE
INVARIANT FaerAssertionHolds
