SPECIFICATION FairSpec
CONSTANTS
  P = 2
  G = 2
  Batches = 2
  MaxEpochs = 2
  MaxSteps = 5
  MaxGenBatches = 1
  Ranks = {r1, r2}
  SavePeriod = 3
  ValPeriod = 2
  ValAtStart = TRUE
  ValAtEnd = TRUE
  Configs <- Both
  MaxCrashes = 1
INVARIANTS
  OnPolicy
  ColumnsThere
  RowsOwned
  PromptsAccounted
PROPERTIES
  Promise
  EveryLaunchEnds
CHECK_DEADLOCK FALSE
