SPECIFICATION Spec
CONSTANTS
    root = root
    clerk = clerk
    Calls = {c1, c2}
    Workers = {x1, x2}
    MaxFaults = 2
    Leavers = {root}
    MaxRedelivered = 1
    Staff = {root, clerk}
    StaffRow <- MCStaffRow
    Requests <- MCRequests
    NULL = NULL
SYMMETRY Symmetry
INVARIANTS
    TypeOK
    CreationTold
    LoginIdUnique
    RefusedForReason
    SignInTold
    LatestDevice
    BarredStaysOut
    NoDeadlock
CHECK_DEADLOCK FALSE
