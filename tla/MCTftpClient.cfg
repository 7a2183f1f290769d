SPECIFICATION Spec
CONSTANTS
    FileLen = 7
    BlockMod = 16
    MaxWin = 3
    MaxRetries = 2
    DefBlk = 2
    OackWin = 3
    OackBlk = 3
    Hdr = 1
    OackLen = 2
    Ports = {"p1", "p2"}
INVARIANTS
    TypeOK
    AckedIsStaged
    SuccessIsStaged
    NoOverrun
PROPERTY ReturnsBuffers
CHECK_DEADLOCK FALSE
