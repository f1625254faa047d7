\* Fair threads.
CONSTANTS
    Depth = 2
    Items = {1, 2}
    Null = Null
    SecondaryIds = {}
    Destroyable = FALSE
    Outcomes = {"kSuccess"}
    MaxRequests = 2
SPECIFICATION FairSpec
CHECK_DEADLOCK FALSE
PROPERTIES
    FramesAreConsumed
