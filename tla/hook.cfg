SPECIFICATION Spec
CONSTANTS
    Specs = {s1, s2}
    NULL = NULL
    MaxLost = 2
INVARIANTS
    TypeOK
    LimitHolds
    TestsTheSavedSpec
