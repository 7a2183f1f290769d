SPECIFICATION TftpSpec
CONSTANTS
    FileLen = 3
    BlockMod = 16
    MaxWin = 1
    OackWin = 1
    MaxRetries = 2
    Servers = {"options", "ignore", "reject"}
    Cap = 3
    Losses = 1
    Dups = 1
    Reorder = 1
    Resends = 1
    Crashes = FALSE
    Ports = {"p1", "p2"}
    DefBlk = 2
    OackBlk = 2
    Hdr = 1
    OackLen = 2
INVARIANT Complete
CHECK_DEADLOCK FALSE
