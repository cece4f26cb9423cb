SPECIFICATION Spec
CONSTANTS
  MaxFlowlets = 2
  MaxInstances = 2
  MaxRequests = 2
  Careful = TRUE
INVARIANT FlowStateIsTrue
CHECK_DEADLOCK FALSE
