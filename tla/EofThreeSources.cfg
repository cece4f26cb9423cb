SPECIFICATION Spec
CONSTANTS
    N = 3
    MaxAggrs = 1
    SlowFlush = 1
    Groups = {1}
    MaxEpoch = 2
    MaxPackets = 3
    MaxClocks = 0
INVARIANT PacketsCountedOnce
CHECK_DEADLOCK FALSE
