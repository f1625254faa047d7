\* Two shells: the lease of one runs out while the other keeps its own.
CONSTANTS
    Shells = {s1, s2}
    LeaseTerm = 2
    Trees = {1, 2, 3}
    ViewTrees = {1}
    Depth = 2
    MaxDestroys = 0
SPECIFICATION Spec
CHECK_DEADLOCK FALSE
INVARIANTS
    LeaseIsPositiveWhenMerged
