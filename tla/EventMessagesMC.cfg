SPECIFICATION FairSpec
CONSTANTS
    Threads = {t1, t2}
    Loop = Loop
    Free = Free
    PipeSize = 2
    MaxPending = 2
    MaxMessages = 4
INVARIANTS OneBytePerMessage HandledInOrder
PROPERTY AllHandled
