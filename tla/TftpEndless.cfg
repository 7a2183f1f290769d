SPECIFICATION TftpFairSpec
CONSTANTS
    FileLen = 6
    BlockMod = 3
    MaxWin = 1
    OackWin = 1
    MaxRetries = 1
    Servers = {"options"}
    Cap = 3
    Losses = 0
    Dups = 0
    Reorder = 0
    Resends = 0
    Crashes = TRUE
    Ports = {"p1"}
    DefBlk = 2
    OackBlk = 2
    Hdr = 1
    OackLen = 2
PROPERTY Returns
CHECK_DEADLOCK FALSE
