\* Two callers, valid and invalid changes, edits of the file, crashes.
SPECIFICATION CallsSpec
SYMMETRY Symmetry
CONSTANTS
    Callers = {k1, k2}
    Configs <- MCConfigs
    Values <- MCValues
    Torn = Torn
    NoCall = NoCall
INVARIANTS ConfigTypeOK StoredAlwaysValid
PROPERTY AloneMeansDone
