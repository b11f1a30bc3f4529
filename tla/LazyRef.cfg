SPECIFICATION MCSpec
CONSTANTS
    Threads = {p1, p2}
    Closers = {k1, k2}
    MaxValues = 2
    MaxClients = 2
    Keys = {a, b}
    Getters = {p1, p2}
    Sweepers = {s1}
    MaxFutures = 2
INVARIANTS
    IInv
    NoOrphanClient
    CacheSound
PROPERTIES
    CloseReturns
    IdleEnds
    GetReturns
CHECK_DEADLOCK FALSE
