\* Two pool threads, two connections with two requests each and a third
\* listening; options that fail.
CONSTANTS
    Threads = {t1, t2}
    MaxId = 2
    MaxReq = 2
    ReqSizes = {1}
    BufMax = 2
    RespSize = 2
    AcceptErrors = FALSE
    OptionErrors = TRUE
SPECIFICATION BmSpec
SYMMETRY ThreadSymmetry
INVARIANTS
    TypeOK
    OneChainPerSession
    AcceptChain
    OwnedIsStored
    TotalIsExact
