SPECIFICATION Spec
CONSTANTS
    Instances = {i1, i2}
    Conns = {k1, k2}
    Days = {1, 2, 6, 8, 28, 29}
    FirstDate <- LateJanuary2028
    MaxMonth <- Early2028
    OldParts <- Maintained
    MaxDepth = 2
    MaxLosses = 1
    NULL = NULL
SYMMETRY Symmetry
INVARIANTS
    TypeOK
    OneMaintainer
    RetentionKept
    CoveredWhenDone
    AddsAbove
CHECK_DEADLOCK FALSE
