\* Three links, every vector of weights 0..2, more than two full cycles.
SPECIFICATION MCSpec
CONSTANTS
    Links = {0, 1, 2}
    ConfiguredWeight <- MCConfiguredWeight
    CursorModulus = 16
    NoLink = NoLink
    MaxWeight = 2
    MaxTurns = 13
INVARIANTS SchedTypeOK FairShares
PROPERTY WeightlessNotChosen
