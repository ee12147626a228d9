\* Two connections and no requests: the accepts and the disconnections alone.
CONSTANTS
    Threads = {t1, t2}
    MaxId = 2
    MaxReq = 0
    ReqSizes = {1}
    BufMax = 2
    RespSize = 2
    AcceptErrors = FALSE
    OptionErrors = FALSE
SPECIFICATION BmFairSpec
PROPERTIES
    DisconnectedIsRemoved
