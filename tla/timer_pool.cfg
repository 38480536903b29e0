CONSTANTS
    Timers = {t1, t2}
    Threads = {a, b}
    Delays = {1, 2}
    Recurring = {t2}
    Hour = 1
    StartClock = 1
    IntLimit = 16
    Clients = 1
    MaxClock = 2
    MaxJumps = 1
SPECIFICATION Spec
SYMMETRY SymThreads
INVARIANTS NoLostTimer OneShot FirstDeadlineIsWatched
