\* One listening process and two that connect; the first of them runs any of
\* the programs, and the user may interrupt one process.
CONSTANTS
    Servers = {s1}
    Clients = {c1, c2}
    Second = c2
    None = None
    MaxKills = 1
SPECIFICATION MCSpec
INVARIANTS
    FrameIsWhole
    NothingAbandoned
PROPERTIES
    NobodyWaitsForever
\* A server that nobody calls, or two programs that both read, wait for ever.
CHECK_DEADLOCK FALSE
