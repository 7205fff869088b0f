CONSTANTS
    HeaderLen = 2
    Cap = 3
    MaxRecv = 3
    BandDivisor = 3
    BandBase = 1
    MaxFrameLen = 15
    MinLog = 1
    MaxLog = 5
    LogHeadroom = 1
    Streams <- MCLegitimate
SPECIFICATION PipelineSpec
INVARIANT LegitimateMessagesPass
CHECK_DEADLOCK FALSE
