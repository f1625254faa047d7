\* The queues the raster thread merger merges, with fair loops.  Both loops may
\* terminate, merged or not, while tasks are posted.
CONSTANTS
    platform = platform
    ui = ui
    raster = raster
    Queues = {platform, raster}
    Unmerged = Unmerged
    MergePairs <- RasterIntoPlatform
    UiQueues = {platform}
    Terminable = {platform, raster}
    Posters = {p1}
    MaxTasks = 2
    MaxTime = 1
    MaxOps = 3
SPECIFICATION FairSpec
CHECK_DEADLOCK FALSE
INVARIANTS
    TaskAccounting
PROPERTIES
    ImplementsDelivery
    EveryTaskIsTaken
