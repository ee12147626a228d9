\* Two pool threads and one connection, over which no two of them can meet in
\* the map: pipelined requests below, at and above what the buffer takes, cut
\* anywhere, an accept that fails, an end of input at any moment.
CONSTANTS
    Threads = {t1, t2}
    MaxId = 1
    MaxReq = 2
    ReqSizes = {1, 2, 3}
    BufMax = 2
    RespSize = 2
    AcceptErrors = TRUE
SPECIFICATION FairSpec
INVARIANTS
    StoredIsOwned
    HandlerSeesOneRequest
    ResponsesInOrder
PROPERTIES
    ServesRequests
    ShutdownCompletes
    RequestAnswered
