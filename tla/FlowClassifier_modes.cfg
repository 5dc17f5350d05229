\* Two flows on two links whose bandwidths change.
SPECIFICATION MCSpec
CONSTANTS
    Flows = {f1, f2}
    Links = {0, 1}
    Bandwidths <- MCBandwidths
    SingleLinkThreshold = 66
    MultiLinkThreshold = 90
    MonitorDuration = 2
    FlowWindow = 2
    FlowExpiry = 3
    SampleLife = 2
    MultiLink = MultiLink
    Sizes = {1, 3}
    MaxBytes = 4
SYMMETRY Symmetry
INVARIANT ClassifierTypeOK
PROPERTIES ModeHolds DemandDecides
