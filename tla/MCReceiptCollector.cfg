\* Two commands at a time and room for two runs, so that a third is turned away.
SPECIFICATION FairSpec
CONSTANTS
    Wrappers = {w1, w2}
    MaxRuns = 2
    Contents = {d1, d2}
    Baseline = d1
    Incomplete = incomplete
    MaxEdits = 1
    WalkMayFail = FALSE

INVARIANT CollectorTypeOK
INVARIANT ReceiptsAreWhole

PROPERTY RecordsFrozen
PROPERTY SealReturns
CHECK_DEADLOCK FALSE
