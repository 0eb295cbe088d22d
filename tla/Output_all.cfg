SPECIFICATION FairSpec
CONSTANTS
    Platforms <- All
    Records = 2
    Bytes = 3
INVARIANTS InOrder OneWayOut DurableFirst NothingLost GivesUpLast
PROPERTY WriteReturns
CHECK_DEADLOCK FALSE
