\* Three connections for two threads; one peer waits for its answers.
CONSTANTS
    MaxId = 3
    MaxReq = 1
    Patient = {0}
    PoolSize = 2
SPECIFICATION BmFairSpec
INVARIANTS
    NoClientOutlivesServer
    PrintsEveryCount
PROPERTIES
    EnterEndsIt
