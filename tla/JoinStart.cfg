SPECIFICATION Spec
CONSTANTS
    k1 = k1
    JoinTypes = {0}
    MaxTs = 3
    Keys = {k1}
    MaxTuples = 4
INVARIANT NoneLeftBehind
CHECK_DEADLOCK FALSE
