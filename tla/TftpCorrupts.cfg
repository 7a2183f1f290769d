SPECIFICATION TftpSpec
CONSTANTS
    FileLen = 5
    BlockMod = 16
    MaxWin = 1
    OackWin = 1
    MaxRetries = 1
    Servers = {"options"}
    Cap = 5
    Losses = 0
    Dups = 0
    Reorder = 0
    Resends = 0
    Crashes = FALSE
    Ports = {"p1"}
    DefBlk = 2
    OackBlk = 2
    Hdr = 1
    OackLen = 2
INVARIANT Intact
CHECK_DEADLOCK FALSE
