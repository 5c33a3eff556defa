SPECIFICATION FairSpec
CONSTANTS
    Requests = {r1}
    Forms = {"json", "empty", "one", "array", "fields"}
    Replies = {"object", "json", "text", "buffer", "stream", "nothing"}
    NULL = NULL
INVARIANTS
    TypeOK
    RowTellsResponse
    RowTellsRequest
PROPERTY InterceptedIsLogged
CHECK_DEADLOCK FALSE
