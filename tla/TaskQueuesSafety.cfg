\* Three queues merge and unmerge in every order that leaves the UI queue an owner.
CONSTANTS
    platform = platform
    ui = ui
    raster = raster
    Queues = {platform, ui, raster}
    Unmerged = Unmerged
    MergePairs <- PairsSparingUi
    UiQueues = {ui}
    Terminable = {}
    Posters = {p1}
    MaxTasks = 2
    MaxTime = 1
    MaxOps = 3
SPECIFICATION Spec
SYMMETRY PlatformAndRaster
CHECK_DEADLOCK FALSE
INVARIANTS
    TypeOK
    MergeInv
    NoLostWakeUp
    TasksKeepTheirOrder
