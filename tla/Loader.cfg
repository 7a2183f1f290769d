SPECIFICATION FairSpec
CONSTANTS
    Base = 4
    Staging = 16
    AddrMod = 32
    CmdSize = 1
    TrampSize = 1
    Align = 4
    Word = 2
    MaxPhnum = 2
    Images <- MCImages
INVARIANTS TypeOK ScratchKept Loaded Enters
PROPERTY Ends
CHECK_DEADLOCK FALSE
