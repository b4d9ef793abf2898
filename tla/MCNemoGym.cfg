SPECIFICATION GymSpec
CONSTANTS
  None = None
  NumRows = 3
  MaxAttempts = 2
INVARIANT
  FailedRowIsMasked
