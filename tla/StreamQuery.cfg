SPECIFICATION Spec
CONSTANTS
    N = 2
    MaxAggrs = 2
    SlowFlush = 2
    Groups = {1, 3}
    MaxEpoch = 3
    MaxPackets = 3
    MaxClocks = 1
INVARIANTS TypeOK PacketsCountedOnce ResultIsFinal ResultsInOrder EndIsReported
CHECK_DEADLOCK FALSE
