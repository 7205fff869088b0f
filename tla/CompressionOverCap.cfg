CONSTANTS
    HeaderLen = 2
    Cap = 3
    BandDivisor = 3
    BandBase = 1
    MaxFrameLen = 15
    MinLog = 1
    MaxLog = 5
    LogHeadroom = 1
    Streams <- MCWideStreams
SPECIFICATION Spec
INVARIANT OverCapIsResourceExhausted
CHECK_DEADLOCK FALSE
