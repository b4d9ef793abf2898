SPECIFICATION Spec
CONSTANTS
  N = 2
  MaxAge = 1
  Sizes = {2, 3}
  MaxStep = 2
  MaxArrivals = 3
INVARIANTS
  ReadyMeansSamplable
  RestoreKeepsNearest
  RestoredIsUsable
  NoPartialTargets
PROPERTY
  LastChanceKept
