\* Up to six requests of either program, typed or sent on a response.
SPECIFICATION FairSpec
CONSTANT MaxId = 5
INVARIANTS InSync
PROPERTIES ResponseIsOwn ExchangeEnds
\* The program exits at the end of its input.
CHECK_DEADLOCK FALSE
