SPECIFICATION Spec
CONSTANTS
    Reconnectors = {r1}
    User = user
    MaxConns = 2
    MaxHeight = 3
    QueueSize = 1
    ConsumerBuffer = 8
    MaxAttempts = 0
    ReconnOptions = {TRUE}
    SeekTypes = {"oldest"}
    PeerMonitors = {m1}
    Closes = FALSE
INVARIANTS
    OneConnection
    NoSilentLoss
    PublishedInOrder
CHECK_DEADLOCK FALSE
