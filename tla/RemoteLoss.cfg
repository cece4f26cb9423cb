\* A subscriber on another host, as Linux builds send to it.
SPECIFICATION Spec
CONSTANTS
    N = 1
    MaxTupleSz = 3
    Header = 1
    RingHeader = 1
    End = 10
    Sizes = {2}
    MaxPosts = 4
    Placements = {{1}}
    Wire = 1
    SendResults = {"error"}
PROPERTIES NothingLost
CHECK_DEADLOCK FALSE
