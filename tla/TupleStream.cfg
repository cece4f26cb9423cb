\* One stream, two subscribers that may be remote; a ring of four slots.
SPECIFICATION FairSpec
CONSTANTS
    N = 2
    MaxTupleSz = 3
    Header = 1
    RingHeader = 1
    End = 10
    Sizes = {2}
    MaxPosts = 5
    Placements = {{}, {1}}
    Wire = 1
    SendResults = {"sent", "error"}
INVARIANTS TypeOK NoOverwrite
PROPERTIES ImplementsMulticast PostReturns
\* The bounded number of posts ends, and a post to a full remote ring never does.
CHECK_DEADLOCK FALSE
