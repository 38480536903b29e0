CONSTANTS
    Workers = {w1, w2}
    Caller = c0
    UseCaller = FALSE
    Fibers = {f1}
    Cbs = {k1}
    CbFibers = {b1}
    Pins = {any}
    AnyThread = any
    None = none
    EarlySchedule = FALSE
    MaxYields = 1
    MaxQueue = 0
    MaxStops = 2
SPECIFICATION FairSpec
INVARIANTS OneThreadPerFiber NoAbort IdleCountExact
PROPERTIES ImplementsTaskPool StopReturns WorkIsServed
