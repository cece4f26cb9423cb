SPECIFICATION Spec
CONSTANTS
  MaxFlowlets = 3
  MaxInstances = 2
  MaxRequests = 3
  Careful = TRUE
PROPERTY TerminalStates
CHECK_DEADLOCK FALSE
