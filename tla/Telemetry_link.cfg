\* One endpoint's tasks, two links.
SPECIFICATION FairSpec
CONSTANTS
    ByteBase = 8
    Jsons = {}
    NoPacket = NoPacket
    Links <- MCLinks
    Alpha = 20
    Window = 2
    HighRtt = 2
    MaxHistory = 1
    NoSnapshot = NoSnapshot
    MaxDatagram = 79
    NothingSent = NothingSent
    Payloads <- MCPayloads
    PacketSizes = {2}
    Datagrams <- MCDatagrams
    Probes <- MCProbes
    Times <- MCTimes
    MaxEvents = 2
    MaxAge = 3
INVARIANTS TelemetryTypeOK WhatIsSentDecodes WindowsAddUp MetricsAddUp RttWithinSamples
PROPERTY SentIsReported
