SPECIFICATION FairSpec
CONSTANTS
  MaxFlowlets = 4
  MaxInstances = 2
  MaxRequests = 4
  Careful = TRUE
INVARIANTS
  TypeOK
  SuspendedMeansParked
  OneGroupSize
PROPERTIES
  DoneMeansDone
  TerminalOnceStarted
  Answered
  AliveRuns
CHECK_DEADLOCK FALSE
