SPECIFICATION Spec
CONSTANTS
  MaxFlowlets = 4
  MaxInstances = 2
  MaxRequests = 3
  Careful = FALSE
INVARIANT OneGroupSize
CHECK_DEADLOCK FALSE
