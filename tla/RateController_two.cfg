\* Two links under load: cross-link correlation.
SPECIFICATION MCSpec
SYMMETRY Symmetry
CONSTANTS
    Links = {l1, l2}
    Ceiling = 4
    MaxRate <- MCMaxRate
    MinStep = 2
    PacketBytes = 3
    MinRateFraction = 10
    MaxRateChange = 50
    CongestionThreshold = 12
    CongestionReduction = 87
    GrowthFactor = 100
    LossMinPackets = 0
    LossDecay = 2
    LossThreshold = 50
    LossDownThreshold = 120
    LossThresholdMultiplier = 2
    DownTimeout = 0
    ProbeRecoveryCount = 0
    TapaEnabled = TRUE
    CrossLinkCheck = TRUE
    AcceleratedRecovery = TRUE
    IdleThreshold = 20
    HeavyThreshold = 77
    MinConfidence = 25
    RecoveryDecay = 75
    MaxTx = 1
    MaxRx = 0
    MaxReported = 1
    MaxReportedTx = 0
    MaxAcc = 1
PROPERTIES CrossLinkVeto ImplementsPathHealth
