SPECIFICATION TftpFairSpec
CONSTANTS
    FileLen = 5
    BlockMod = 16
    MaxWin = 3
    OackWin = 3
    MaxRetries = 1
    Servers = {"options", "reject"}
    Cap = 4
    Losses = 1
    Dups = 0
    Reorder = 1
    Resends = 0
    Crashes = TRUE
    Ports = {"p1", "p2"}
    DefBlk = 2
    OackBlk = 2
    Hdr = 1
    OackLen = 2
INVARIANT ServerWaits
PROPERTIES ClientSpec Returns
CHECK_DEADLOCK FALSE
