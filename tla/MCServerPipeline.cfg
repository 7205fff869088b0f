CONSTANTS
    HeaderLen = 2
    Cap = 3
    MaxRecv = 3
    BandDivisor = 3
    BandBase = 1
    MaxFrameLen = 15
    MinLog = 1
    MaxLog = 5
    LogHeadroom = 1
    Streams <- MCStreams
SPECIFICATION PipelineSpec
INVARIANTS
    CutAtBoundaries
    DecompressedWithinCap
    NoMessageLeftWaiting
    BufferBounded
    NoSilentTruncation
    NoAmplification
PROPERTIES
    OwnMessagesPass
    EventuallyAnswered
CHECK_DEADLOCK FALSE
