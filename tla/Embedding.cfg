\* The components between engine and embedder with their fair threads, one shell,
\* and bounds on what the environment asks.
CONSTANTS
    Shells = {s1}
    LeaseTerm = 2
    Trees = {1, 2, 3, 4}
    ViewTrees = {1, 3}
    Depth = 2
    MaxDestroys = 2
    MaxMessages = 3
    Pool = {t1, t2}
    MaxPushes = 4
    Capacities = {0, 1, 2}
    Sizes = {1, 2}
    MaxResizes = 5
    MaxFrames = 2
    Abilities = {a1, a2}
    Entries = {n1, n2}
    Cached = {a1, a2, n2}
    CachedEngine = ce
SPECIFICATION EmbeddingSpec
CHECK_DEADLOCK FALSE
INVARIANTS
    SuspendedWhenDestroyed
    MessagesTakeTurns
    ChannelSafety
    ResizedWindowIsShown
    ShellRendersToItsView
    EngineServesItsHost
PROPERTIES
    FramesAreDrawn
    EachMessageIsAnswered
    BacklogIsDrained
    ResizeEndsWithItsFrame
