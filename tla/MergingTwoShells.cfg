\* Two shells that share their threads, with frames that merge and unmerge them,
\* while their surfaces are destroyed and created again.
CONSTANTS
    Shells = {s1, s2}
    LeaseTerm = 2
    Trees = {1, 2, 3}
    ViewTrees = {1}
    Depth = 2
    MaxDestroys = 2
SPECIFICATION Spec
CHECK_DEADLOCK FALSE
INVARIANTS
    MergedTogether
    RasterizesOnOwner
    DisabledHoldsConfiguration
