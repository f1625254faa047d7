\* One shell: a surface created and destroyed before its frame is drawn.
CONSTANTS
    Shells = {s1}
    LeaseTerm = 2
    Trees = {1, 2}
    ViewTrees = {2}
    Depth = 2
    MaxDestroys = 2
SPECIFICATION Spec
CHECK_DEADLOCK FALSE
INVARIANTS
    ConfigurationHeldWhileWaiting
