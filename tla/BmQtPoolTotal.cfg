\* One connection, one request whose length and body may arrive apart.
CONSTANTS
    MaxId = 1
    MaxReq = 1
    Patient = {0}
    PoolSize = 1
SPECIFICATION BmSpec
INVARIANTS
    PrintsRequestsHandled
