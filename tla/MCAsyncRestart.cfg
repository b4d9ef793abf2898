SPECIFICATION Spec
CONSTANTS
  N = 2
  A = 1
  MaxSteps = 2
  Slots = {w1, w2}
  InFlight = FALSE
  Validates = FALSE
  Checkpoints = TRUE
  MayExhaust = FALSE
  MaxFailures = 0
  MaxCrashes = 1
CONSTRAINT Relevant
VIEW Outlook
SYMMETRY SlotSymmetry
INVARIANTS
  StragglersCounted
  WatermarkIsProgress
  NoOverfill
PROPERTIES
  Promise
CHECK_DEADLOCK FALSE
