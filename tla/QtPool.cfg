\* Two connections take turns on one thread, with up to three requests each; one
\* peer waits for its answers, the other does not.
CONSTANTS
    MaxId = 2
    MaxReq = 3
    Patient = {0}
    PoolSize = 1
SPECIFICATION FairSpec
INVARIANTS
    NoClientOutlivesServer
PROPERTIES
    ServesRequests
    ShutdownCompletes
    ThreadIsReleased
