\* Packets through one tunnel direction, channels of one chunk.
SPECIFICATION FairSpec
CONSTANTS
    Links = {l1, l2}
    MinChunkSize = 3
    MaxChunkSize = 7
    BdpMultiplier = 100
    NoChunk = NoChunk
    ChannelCapacity = 1
    MaxPackets = 3
    Sizes = {1}
    Bdps = {2, 7}
INVARIANTS TunnelTypeOK IdsFollowReading ChunkSizeBounded NoneLostInside
PROPERTY PacketsArriveOrAreLost
