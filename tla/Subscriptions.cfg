SPECIFICATION FairSpec
CONSTANTS
    App = {a1, a2}
    MaxStreams = 3
    MaxAllocs = 3
INVARIANTS TypeOK RunsWhileSubscribed OneResultPerCall
PROPERTY CallsAnswered
CHECK_DEADLOCK FALSE
