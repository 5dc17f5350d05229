\* One link, both directions, idle or under heavy load, every path state, fair probes.
SPECIFICATION FairSpec
CONSTANTS
    Links = {l1}
    Ceiling = 6
    MaxRate <- MCMaxRate
    MinStep = 2
    PacketBytes = 5
    MinRateFraction = 10
    MaxRateChange = 50
    CongestionThreshold = 12
    CongestionReduction = 87
    GrowthFactor = 100
    LossMinPackets = 1
    LossDecay = 2
    LossThreshold = 50
    LossDownThreshold = 120
    LossThresholdMultiplier = 2
    DownTimeout = 1
    ProbeRecoveryCount = 3
    TapaEnabled = TRUE
    CrossLinkCheck = TRUE
    AcceleratedRecovery = TRUE
    IdleThreshold = 20
    HeavyThreshold = 70
    MinConfidence = 25
    RecoveryDecay = 75
    MaxTx = 1
    MaxRx = 1
    MaxReported = 1
    MaxReportedTx = 1
    MaxAcc = 2
INVARIANTS TypeOK RateInBounds
PROPERTIES RateStepCapped RecoversAgainAndAgain ImplementsPathHealth
