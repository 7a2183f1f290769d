SPECIFICATION TftpSpec
CONSTANTS
    FileLen = 3
    BlockMod = 16
    MaxWin = 1
    OackWin = 1
    MaxRetries = 2
    Servers = {"reject"}
    Cap = 4
    Losses = 0
    Dups = 0
    Reorder = 0
    Resends = 0
    Crashes = FALSE
    Ports = {"p1", "p2", "p3"}
    DefBlk = 2
    OackBlk = 2
    Hdr = 1
    OackLen = 2
INVARIANT TriesWithout
CHECK_DEADLOCK FALSE
