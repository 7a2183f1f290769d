SPECIFICATION FairSpec
CONSTANTS
    RingSize = 4
    Depth = 5
INVARIANTS TypeOK TxBufferIsFree RxBufferIsKept RxPairs
PROPERTIES TxResumes RxDelivered
