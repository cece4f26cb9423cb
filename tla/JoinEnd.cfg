SPECIFICATION Spec
CONSTANTS
    k1 = k1
    JoinTypes = {0}
    MaxTs = 4
    Keys = {k1}
    MaxTuples = 6
INVARIANT CompleteAtEnd
CHECK_DEADLOCK FALSE
