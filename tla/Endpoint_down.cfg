\* Chunks scheduled while a link is Down.
SPECIFICATION MCSpec
CONSTANTS
    Links = {0, 1}
    Ceiling = 2
    MaxRate <- MCMaxRate
    MinStep = 1
    PacketBytes = 3
    MinRateFraction = 10
    MaxRateChange = 50
    CongestionThreshold = 12
    CongestionReduction = 87
    GrowthFactor = 100
    LossMinPackets = 0
    LossDecay = 1
    LossThreshold = 50
    LossDownThreshold = 120
    LossThresholdMultiplier = 2
    DownTimeout = 1
    ProbeRecoveryCount = 1
    TapaEnabled = FALSE
    CrossLinkCheck = FALSE
    AcceleratedRecovery = FALSE
    IdleThreshold = 20
    HeavyThreshold = 70
    MinConfidence = 25
    RecoveryDecay = 75
    ConfiguredWeight <- MCConfiguredWeight
    CursorModulus = 2
    NoLink = NoLink
    WeightUnit = 2
    MaxTx = 1
    MaxRx = 1
    MaxAcc = 1
    Receivers = {0}
PROPERTY DownLinkGetsNoChunk
