SPECIFICATION Spec
CONSTANTS
    Sessions = {s1}
    Requests = {r1, r2}
    Instances = {i1, i2}
    Ips = {}
    NULL = NULL
    Isolation = "READ COMMITTED"
    TTL <- MCTTL
    Offset <- OneAhead
    DbOffset = 0
    MaxNow = 1
SYMMETRY RequestSymmetry
PROPERTIES OnlyTwinsAreRefused ImplementsChain
