\* Two clients, one that waits for its answers and one that does not.
CONSTANTS
    MaxId = 2
    MaxReq = 2
    Patient = {0}
SPECIFICATION BmFairSpec
INVARIANTS
    NoThreadOutlivesItsClient
    TotalIsExact
PROPERTIES
    ServesRequests
    ShutdownCompletes
    LeaverIsDeleted
    RequestAnswered
