SPECIFICATION FairSpec
CONSTANTS
  None = None
  RoleOrder <- Order
  Daemons <- GymOnly
  HasDeployment = TRUE
  Users = {"ann", "bob"}
  Specs = {"old", "new"}
  Commands <- Lines
  MaxCommands = 3
INVARIANTS
  ClustersWhole
PROPERTIES
  LeavesAlone
  EveryCommandEnds
CHECK_DEADLOCK FALSE
