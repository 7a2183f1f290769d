SPECIFICATION FairSpec
CONSTANTS
    Base = 4
    Staging = 16
    AddrMod = 32
    CmdSize = 1
    TrampSize = 1
    Align = 4
    Word = 2
    MaxPhnum = 2
    Images <- MCImages
INVARIANT NotClobbered
CHECK_DEADLOCK FALSE
