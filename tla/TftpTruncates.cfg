SPECIFICATION TftpSpec
CONSTANTS
    FileLen = 5
    BlockMod = 16
    MaxWin = 3
    OackWin = 3
    MaxRetries = 1
    Servers = {"options"}
    Cap = 5
    Losses = 1
    Dups = 0
    Reorder = 0
    Resends = 0
    Crashes = FALSE
    Ports = {"p1"}
    DefBlk = 2
    OackBlk = 2
    Hdr = 1
    OackLen = 2
INVARIANT Complete
CHECK_DEADLOCK FALSE
