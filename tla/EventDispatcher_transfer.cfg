SPECIFICATION Spec
CONSTANTS
    BlockRegs = {}
    FilteredRegs = {}
    CCRegs = {c1, c2}
    TxRegs = {}
    Picky = {}
    NoReg = NoReg
    Regs <- MCRegs
    Kind <- MCKind
    Keys <- MCKeys
    Key <- MCKey
    Txs <- MCTxs
    Accepted <- MCAccepted
    FirstBlock = 0
    LastBlock = 1
    Services = 2
    QueueSize = 1
    BufferSize = 1
    ConsumerTimeouts = {"finite"}
    InfoOnlyOptions = {TRUE, FALSE}
SYMMETRY Symmetry
INVARIANTS
    NoPanic
    OwnedOnce
    InOrder
CHECK_DEADLOCK FALSE
