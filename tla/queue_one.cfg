SPECIFICATION FairSpec
CONSTANTS
    i1 = i1
    i2 = i2
    c1 = c1
    c2 = c2
    c3 = c3
    Instances = {i1}
    Calls = {c1, c2, c3}
    JobKeys <- MCJobKeys
    JobKey <- MCJobKey
    Inner <- OneInner
    NULL = NULL
    MaxCrashes = 1
INVARIANTS
    TypeOK
    CommitsInOrder
PROPERTY Returned
CHECK_DEADLOCK FALSE
