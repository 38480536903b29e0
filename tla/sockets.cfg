CONSTANTS
    Fibers = {f, g}
    Fds = {3, 4}
    Timeouts = {0}
    FionbioOff = FALSE
    MaxSockets = 2
    Objects = {o, p, u}
    Udp = {u}
    Sharing = FALSE
    MaxMethods = 3
SPECIFICATION Spec
SYMMETRY FiberSymmetry
INVARIANTS CtxIsCurrent NoForeignSocket NoLeak NoThreadBlocks NoAbort WaitersAreReachable NoStaleTimer
