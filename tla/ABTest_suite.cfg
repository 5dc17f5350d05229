\* Three tests, with a variant B or without; phases of two ticks, cooldowns of one.
SPECIFICATION FairSpec
CONSTANTS
    low = low
    mid = mid
    high = high
    None = None
    Values = {low, mid, high}
    Configs <- MCConfigs
    PhaseDuration = 2
    CooldownDuration = 1
    Samples = {0, 100}
    MaxSamples = 1
    MaxTests = 3
INVARIANTS SuiteTypeOK TestsRunInOrder OnlyTheLastMissing WinnerBeatsBaseline
PROPERTIES OwnSamplesOnly TestsInTimeComplete
