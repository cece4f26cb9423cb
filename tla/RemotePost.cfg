\* A subscriber on another host: its ring buffer fills up under one post.
SPECIFICATION FairSpec
CONSTANTS
    N = 1
    MaxTupleSz = 3
    Header = 1
    RingHeader = 1
    End = 10
    Sizes = {2}
    MaxPosts = 4
    Placements = {{1}}
    Wire = 1
    SendResults = {"sent", "error"}
PROPERTIES EveryPostReturns
CHECK_DEADLOCK FALSE
