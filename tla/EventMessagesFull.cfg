SPECIFICATION FairSpec
CONSTANTS
    Threads = {t1, t2}
    Loop = Loop
    Free = Free
    PipeSize = 2
    MaxPending = 3
    MaxMessages = 4
CHECK_DEADLOCK FALSE
INVARIANT NeverBlocks
