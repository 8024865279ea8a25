CONSTANTS
    MaxChunks <- Chunks
    IdleTimeout = 1
    HighWater = 1
    MaxFrames = 2
    MaxReplies = 2
    Frames <- AllFrames
    GidLen = 8
    Wait = 2
    Idle = 2
    PayloadLimit = 1
SPECIFICATION RelaysSpec
INVARIANTS AllTypesOK BillingExact DoneMeansStopped SentAsMeant FramesIntact
PROPERTIES EofDelivered TcpEnds RelayEnds StopsBoth
CHECK_DEADLOCK FALSE
