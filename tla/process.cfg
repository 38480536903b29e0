CONSTANTS
    Tids = {a, b}
    Clients = {a, b}
    Threads = {a, b}
    Names <- VarNames
    Default <- Defaults
    FirstListeners <- First
    FromStr <- Parse
    Junk = Junk
    None = None
    MaxListeners = 2
    NameOrder <- Order
    BadPattern = "bad"
    Settings <- Values
    Documents <- Docs
    Messages <- Msgs
    Patterns = {"bad", "q"}
    Own = {"user"}
    MaxCalls = 3
    Fds = {2, 3, 4, 5}
    FirstSize = 2
    MaxResizes = 4
SPECIFICATION ProcessSpec
SYMMETRY SymThreads
INVARIANTS HandshakeHolds ListenersAgree NoDeadlock InRange
PROPERTY NothingLost
