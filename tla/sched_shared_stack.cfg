CONSTANTS
    Workers = {w1, w2}
    Caller = c0
    UseCaller = FALSE
    Fibers = {f1}
    Cbs = {}
    CbFibers = {}
    Pins = {any}
    AnyThread = any
    None = none
    EarlySchedule = TRUE
    MaxYields = 1
    MaxQueue = 0
    MaxStops = 1
SPECIFICATION Spec
INVARIANT OneThreadPerFiber
