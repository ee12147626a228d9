\* Two clients with a request or two each.
CONSTANTS
    Clients = {c1, c2}
    None = None
    Rude = {c1}
    MaxJobs = 2
    MaxJunk = 1
    AcceptErrors = TRUE
SPECIFICATION FairSpec
INVARIANTS
    AnswerIsOwn
    MapIsExact
    SilencedByBrokenPipe
PROPERTIES
    RequestsAnswered
    LeaversAreErased
    ShutdownCompletes
\* The programs really end.
CHECK_DEADLOCK FALSE
