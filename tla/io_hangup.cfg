CONSTANTS
    r1 = r1
    r2 = r2
    f1 = f1
    f2 = f2
    Threads = {a}
    Fds = {f1}
    Tasks = {r1, r2}
    Uses <- OneReader
    Peers = {"READ", "HUP"}
    CanClose = FALSE
    None = None
    MaxAdds = 1
SPECIFICATION Spec
INVARIANT NoAbort
