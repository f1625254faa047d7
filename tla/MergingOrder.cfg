\* One shell: a frame that merges the threads while a newer one is pushed.
CONSTANTS
    Shells = {s1}
    LeaseTerm = 2
    Trees = {1, 2}
    ViewTrees = {1}
    Depth = 2
    MaxDestroys = 0
SPECIFICATION Spec
CHECK_DEADLOCK FALSE
PROPERTIES
    TreesInOrder
