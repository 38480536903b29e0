CONSTANTS
    Timers = {t1, t2}
    Threads = {a}
    Delays = {0, 2}
    Recurring = {t2}
    Hour = 1
    StartClock = 3
    IntLimit = 16
    Clients = 1
    MaxClock = 3
    MaxJumps = 1
SPECIFICATION FairSpec
PROPERTY ExpiredIsCollected
INVARIANT TypeOK
