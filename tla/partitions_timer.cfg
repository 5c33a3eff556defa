SPECIFICATION Spec
CONSTANTS
    Instances = {i1}
    Conns = {k1}
    Days = {1, 2, 6, 8, 28, 29}
    FirstDate <- LateJanuary2028
    MaxMonth <- Early2028
    OldParts <- Maintained
    MaxDepth = 2
    MaxLosses = 0
    NULL = NULL
PROPERTY OnSchedule
CHECK_DEADLOCK FALSE
