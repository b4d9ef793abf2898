SPECIFICATION Spec
CONSTANTS
  KeepTopK = 1
  MaxStep = 3
  MaxSaves = 4
  MaxMetric = 2
  MayResave = TRUE
INVARIANTS
  SavesAreWhole
  ResumeLoadable
  BestLoadable
PROPERTY
  NewestKept
