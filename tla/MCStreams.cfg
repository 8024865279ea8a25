CONSTANTS
    HeaderParts <- TwoParts
    Script <- Bytes
    Scripts <- Blocks
    ReadSize = 2
    BufLimit = 9
    MaxRecord = 9
    MaxExtra = 1
    Kinds = {"app", "empty", "handshake", "ccs", "alert"}
    Noise <- NoiseToken
    Sizes <- Boundaries
    MaxChunks = 2
SPECIFICATION BothSpec
INVARIANTS BothTypeOK SequenceHolds EofMeansAll ClientReads SafeChunks
PROPERTIES NothingHeldBack ImplementsByteStream
CHECK_DEADLOCK FALSE
