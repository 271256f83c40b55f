CONSTANTS
    Sinks = {k1}
    GopCount = 2
    MaxFramesPerGop = 2
    MaxFrames = 6
SPECIFICATION FairSpec
CHECK_DEADLOCK FALSE
INVARIANTS
    CacheIsRecent
    FramesInOrder
PROPERTIES
    StopSeenAtNextFrame
