SPECIFICATION FairSpec
CONSTANTS
  N = 1
  A = 1
  MaxSteps = 2
  Slots = {w1}
  InFlight = FALSE
  Validates = FALSE
  Checkpoints = FALSE
  MayExhaust = FALSE
  MaxFailures = 0
  MaxCrashes = 0
PROPERTIES
  RefitReached
CHECK_DEADLOCK FALSE
