SPECIFICATION TftpSpec
CONSTANTS
    FileLen = 11
    BlockMod = 5
    MaxWin = 2
    OackWin = 2
    MaxRetries = 1
    Servers = {"options"}
    Cap = 5
    Losses = 0
    Dups = 1
    Reorder = 0
    Resends = 1
    Crashes = FALSE
    Ports = {"p1"}
    DefBlk = 2
    OackBlk = 2
    Hdr = 1
    OackLen = 2
INVARIANTS Complete ServerWaits
CHECK_DEADLOCK FALSE
