CONSTANTS
    MaxChunks <- Chunks
    IdleTimeout = 1
    HighWater = 1
    MaxFrames = 2
    MaxReplies = 2
    Frames <- AllFrames
    GidLen = 8
    Wait = 2
    Idle = 2
    PayloadLimit = 1
SPECIFICATION RelaysSpec
PROPERTY IdleMeansIdle
CHECK_DEADLOCK FALSE
