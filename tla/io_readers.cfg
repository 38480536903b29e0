CONSTANTS
    r1 = r1
    r2 = r2
    f1 = f1
    f2 = f2
    Threads = {a, b}
    Fds = {f1, f2}
    Tasks = {r1, r2}
    Uses <- Readers
    Peers = {"READ"}
    CanClose = FALSE
    None = None
    MaxAdds = 2
SPECIFICATION Spec
SYMMETRY SymThreads
INVARIANTS NoLostWaiter NoAbort StopLeavesNothing
