SPECIFICATION FairSpec
CONSTANTS
    Reconnectors = {r1}
    User = user
    MaxConns = 1
    MaxHeight = 1
    QueueSize = 1
    ConsumerBuffer = 1
    MaxAttempts = 1
    ReconnOptions = {TRUE, FALSE}
    SeekTypes = {"none"}
    PeerMonitors = {m1}
    Closes = TRUE
PROPERTIES
    ConnectReturns
    CloseReturns
CHECK_DEADLOCK FALSE
