SPECIFICATION Spec
CONSTANTS
    i1 = i1
    i2 = i2
    c1 = c1
    c2 = c2
    c3 = c3
    Instances = {i1, i2}
    Calls = {c1, c2}
    JobKeys <- MCJobKeys
    JobKey <- MCJobKey
    Inner <- NoInner
    NULL = NULL
    MaxCrashes = 1
SYMMETRY InstanceSymmetry
VIEW WithoutHistory
INVARIANTS
    ToldIsTrue
    DispatcherHasHandler
CHECK_DEADLOCK FALSE
PROPERTY ImplementsDelivery
