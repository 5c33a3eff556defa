SPECIFICATION Spec
CONSTANTS
    Sessions = {s1}
    Requests = {r1, r2}
    Instances = {i1}
    Ips = {}
    NULL = NULL
    Isolation = "REPEATABLE READ"
    TTL <- MCTTL
    Offset <- NoOffset
    DbOffset = 0
    MaxNow = 2
INVARIANTS WinnerIsFound
