\* The components of the engine with their fair threads.  What the environment asks
\* is bounded, and each component comes to rest when it has been used up.
CONSTANTS
    w1 = w1
    w2 = w2
    p1 = p1
    Workers = {w1, w2}
    Posters = {p1}
    PoolTasks = {j1, j2, j3}
    ShellIds = {s1, s2}
    Methods = {"kScreenshot", "kGetSkSLs", "kRunInView"}
    MaxEvents = 3
    MaxDraws = 4
    BatchLimit = 2
    MaxPackets = 4
    MaxVsyncTasks = 3
    Objects = {o1, o2, o3}
    MaxSwitches = 3
SPECIFICATION EngineSpec
CHECK_DEADLOCK FALSE
INVARIANTS
    NobodySleeps
    PoolTaskAccounting
    ShellSafety
    TimingsAreKept
    WaiterIsNotified
    PacketsAreHeldInOrder
    ObjectsAreAccountedFor
PROPERTIES
    PoolProgress
    ShellProgress
    FramesAreAnnounced
    PacketsGoOn
    ObjectsAreReleased
