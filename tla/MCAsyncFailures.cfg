SPECIFICATION Spec
CONSTANTS
  N = 2
  A = 1
  MaxSteps = 1
  Slots = {w1, w2}
  InFlight = TRUE
  Validates = TRUE
  Checkpoints = FALSE
  MayExhaust = TRUE
  MaxFailures = 1
  MaxCrashes = 0
SYMMETRY SlotSymmetry
INVARIANTS
  WindowKept
  ReservationsTracked
CHECK_DEADLOCK FALSE
