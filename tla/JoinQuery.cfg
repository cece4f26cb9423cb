SPECIFICATION Spec
CONSTANTS
    k1 = k1
    k2 = k2
    JoinTypes = {0, 1, 2, 3}
    MaxTs = 3
    Keys = {k1, k2}
    MaxTuples = 5
SYMMETRY Symmetry
INVARIANTS TypeOK ResultsAreMatches CompleteBelow
CHECK_DEADLOCK FALSE
