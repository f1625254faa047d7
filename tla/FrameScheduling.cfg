\* The UI, vsync and raster threads, fair, with frames that are resubmitted and a
\* shell that may be destroyed at any point.
CONSTANTS
    Depth = 2
    Items = {1, 2, 3}
    Null = Null
    SecondaryIds = {flows, pointer}
    Destroyable = TRUE
    Outcomes = {"kSuccess", "kDiscarded", "kResubmit"}
    MaxRequests = 4
SPECIFICATION FairSpec
CHECK_DEADLOCK FALSE
INVARIANTS
    FrameRequestAccounting
    AwaitedOnce
    SlotAccounting
    SignalAccounting
PROPERTIES
    RequestsAreAnswered
    NotifiedFramesAreConsumed
    FramesInOrder
    ImplementsBoundedQueue
