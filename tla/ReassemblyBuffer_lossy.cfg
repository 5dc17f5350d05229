\* Both modes; chunks lost, reordered and duplicated; a buffer that overflows.
SPECIFICATION MCSpec
CONSTANTS
    ReorderTimeout = 1
    PruneFactor = 2
    MaxBufferChunks = 2
    MaxId = 2
    MaxReceptions = 4
INVARIANTS BufferTypeOK NothingForwardedTwice StatisticsAddUp
PROPERTIES SkipsOnlyAfterTimeout ReceivedChunksAreForwarded
