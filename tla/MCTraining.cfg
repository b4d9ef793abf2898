SPECIFICATION FairSpec
CONSTANTS
  Configs <- Jobs
  Batches = 4
  MaxEpochs = 2
  MaxSteps = 7
  ValPeriod = 2
  ValAtStart = TRUE
  ValAtEnd = TRUE
  SavePeriod = 3
  MaxGenBatches = 1
  PPOEpochs = 2
  MaxRestarts = 2
INVARIANTS
  SharesGPUs
  OnNewestWeights
  EveryBatchOnce
  CheckpointWhole
PROPERTIES
  PromiseKept
  EveryJobEnds
CHECK_DEADLOCK FALSE
