CONSTANTS
    Workers = {}
    Caller = c0
    UseCaller = TRUE
    Fibers = {f1, f2}
    Cbs = {k1}
    CbFibers = {b1}
    Pins = {any, c0}
    AnyThread = any
    None = none
    EarlySchedule = TRUE
    MaxYields = 1
    MaxQueue = 2
    MaxStops = 1
SPECIFICATION Spec
SYMMETRY SymWork
INVARIANTS NoAbort ActiveCountExact
PROPERTY ImplementsTaskPool
