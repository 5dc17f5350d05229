\* An idle link with a loss it measured long ago.
SPECIFICATION FairSpec
CONSTANTS
    Links = {l1}
    Ceiling = 8
    MaxRate <- MCMaxRate
    MinStep = 2
    PacketBytes = 3
    MinRateFraction = 10
    MaxRateChange = 50
    CongestionThreshold = 12
    CongestionReduction = 87
    GrowthFactor = 100
    LossMinPackets = 2
    LossDecay = 2
    LossThreshold = 50
    LossDownThreshold = 120
    LossThresholdMultiplier = 2
    DownTimeout = 1
    ProbeRecoveryCount = 3
    TapaEnabled = TRUE
    CrossLinkCheck = TRUE
    AcceleratedRecovery = TRUE
    IdleThreshold = 20
    HeavyThreshold = 70
    MinConfidence = 25
    RecoveryDecay = 75
    MaxTx = 2
    MaxRx = 0
    MaxReported = 2
    MaxReportedTx = 0
    MaxAcc = 4
PROPERTY OldProblemsFade
