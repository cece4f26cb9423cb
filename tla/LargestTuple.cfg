\* A tuple of MAXTUPLESZ bytes, whose header SPACETOWRITE does not count.
SPECIFICATION Spec
CONSTANTS
    N = 1
    MaxTupleSz = 3
    Header = 2
    RingHeader = 1
    End = 10
    Sizes = {2, 3}
    MaxPosts = 5
    Placements = {{}}
    Wire = 1
    SendResults = {"sent"}
INVARIANT NoOverwrite
CHECK_DEADLOCK FALSE
