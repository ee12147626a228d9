\* Three requests of either program, typed or sent on a response, with transfers
\* that leave a part of a message behind.
CONSTANTS
    MaxJobs = 3
    Torn = TRUE
SPECIFICATION FairSpec
INVARIANTS
    EveryWaitIsTimed
    ResponseIsOwn
PROPERTIES
    ExchangeEnds
    ShutdownCompletes
