SPECIFICATION FairSpec
CONSTANTS
    Threads = {p1, p2}
    Closers = {k1}
    Targets = {t1}
    Conn = {c1, c2}
    NoConn = NoConn
INVARIANTS
    IInv
PROPERTIES
    SweepSparesUsed
    CallsReturn
CHECK_DEADLOCK FALSE
