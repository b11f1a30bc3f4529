SPECIFICATION FairSpec
CONSTANTS
    BlockRegs = {b1, b2}
    FilteredRegs = {}
    CCRegs = {c1}
    TxRegs = {}
    Picky = {b1}
    NoReg = NoReg
    Regs <- MCRegs
    Kind <- MCKind
    Keys <- MCKeys
    Key <- MCKey
    Txs <- MCTxs
    Accepted <- MCAccepted
    FirstBlock = 1
    LastBlock = 2
    Services = 1
    QueueSize = 1
    BufferSize = 1
    ConsumerTimeouts = {"finite", "infinite"}
    InfoOnlyOptions = {FALSE}
INVARIANTS
    SentExactly
PROPERTIES
    CallsReturn
CHECK_DEADLOCK FALSE
