\* The shell is destroyed while the animator holds a continuation.
CONSTANTS
    Depth = 2
    Items = {1, 2}
    Null = Null
    SecondaryIds = {}
    Destroyable = TRUE
    Outcomes = {"kSuccess"}
    MaxRequests = 3
SPECIFICATION Spec
CHECK_DEADLOCK FALSE
INVARIANTS
    DroppedContinuationIsNotConsumed
