SPECIFICATION Spec
CONSTANTS
    Programs = {"echo"}
    Source = {2, 4, 7}
    t1 = t1
    t2 = t2
    NoTask = NoTask
    BlkTasks = {t1, t2}
    s1 = s1
    s2 = s2
    Sectors = {s1, s2}
    d1 = d1
    d2 = d2
    Data = {d1, d2}
    ntags = 2
    Late = FALSE
    InPins <- MCInPins
    OutPins <- MCOutPins
    Leds <- MCLeds
    w1 = w1
    w2 = w2
    NoWriter = NoWriter
    Writers = {w1, w2}
    TxLens = {0, 1, 3}
    FifoSize = 2
    c1 = c1
    c2 = c2
    Conns = {c1, c2}
    MaxAsked = 1
    MaxSent = 5
    EchoLens = {3, 4}
    TextLen = 2
    MSS = 3
    TxBufSize = 2
    lMaxLoopCount = 2
    b1 = b1
    b2 = b2
    NoBuffer = NoBuffer
    Buffers = {b1, b2}
    ulLoopsPerSocket = 2
INVARIANT EchoesAnyData
CHECK_DEADLOCK FALSE
