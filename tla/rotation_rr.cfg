SPECIFICATION Spec
CONSTANTS
    Sessions = {s1}
    Requests = {r1, r2}
    Instances = {i1}
    Ips = {ip1}
    NULL = NULL
    Isolation = "REPEATABLE READ"
    TTL <- MCTTL
    Offset <- NoOffset
    DbOffset = 0
    MaxNow = 3
SYMMETRY RequestSymmetry
INVARIANTS TypeOK IdempotentReplies OneOpenEnd DeliveredIsStored
    DeletedSessionGetsNothing RetryMeetsNoConflict
