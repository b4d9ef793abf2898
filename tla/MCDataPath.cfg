SPECIFICATION DataSpec
CONSTANTS
  None = None
  Nothing = Nothing
  Jobs <- MCJobs
  PromptLens = {1, 5}
  MaxSeqLen = 5
  MaxNewTokens = 2
  MaxTurns = 2
  Answers <- MCAnswers
  MaxSamples = 3
  MaxFaults = 1
  Capacity = 18
  MaxPerBin <- NoLimit
  MaxTokens = 18
  RoundTo = 2
  RolloutCalls <- MCRolloutCalls
  DatasetCalls <- MCDatasetCalls
  FourRowCalls <- MCFourRowCalls
  RowLens = {9, 7, 4, 2}
  Scorings <- MCScorings
  Fleets <- MCFleets
  NewTokens = 2
  ContextLen = 4
  HttpTries = 2
  MaxGenFaults = 4
  Transfers <- MCTransfers
  Gpus = 2
  AlignTo = 2
  NumBuffers = 2
  FlushTries = 2
  MaxXferFaults = 2
  Silent = Silent
  Deployments <- MCDeployments
  MasterPorts = {1, 2, 3}
  PlacementTries = 2
  MaxSetupFaults = 1
  Lessons <- MCLessons
  Texts <- MCTexts
  Distillations <- MCDistillations
  Logit <- MCLogit
INVARIANTS
  ConversationsSound
  RowsAnswered
  PackedWhole
  TokensInPlace
  WeightsWhole
  EveryoneInPlace
  AdvantagesSound
  LossesWhole
PROPERTIES
  PromiseOfRollouts
