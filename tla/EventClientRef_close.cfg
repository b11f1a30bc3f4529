SPECIFICATION ClientSpec
CONSTANTS
    Threads = {p1}
    Closers = {k1}
    MaxValues = 1
    MaxClients = 1
PROPERTIES
    CloseCloses
CHECK_DEADLOCK FALSE
