SPECIFICATION Spec
CONSTANTS
    App = {a1, a2}
    MaxStreams = 3
    MaxAllocs = 3
INVARIANT OneResultToPrint
CHECK_DEADLOCK FALSE
