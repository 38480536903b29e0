CONSTANTS
    r1 = r1
    r2 = r2
    f1 = f1
    f2 = f2
    Threads = {a}
    Fds = {f1}
    Tasks = {r1, r2}
    Uses <- Duplex
    Peers = {"READ", "WRITE"}
    CanClose = TRUE
    None = None
    MaxAdds = 2
SPECIFICATION FairSpec
INVARIANTS PendingExact EpollInSync NoAbort
PROPERTIES ReadyIsServed QueuedIsRun
