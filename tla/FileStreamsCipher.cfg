SPECIFICATION BodySpec
CONSTANTS
    Volume <- Volumes
    Plain <- Segs
    PlainSize = 16
    Unreadable <- Headers
    Probes = 20
    Block = 2
    ReadBlocks = 4
    SkipChunk = 3
    Room = {1, 3, 20}
    Ranges <- RangeHeaders
INVARIANT BodyIsPlaintext
CHECK_DEADLOCK FALSE
