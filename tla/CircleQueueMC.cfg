SPECIFICATION StoresSpec
CONSTANTS
    Elems = {e1, e2}
    InitSize = 3
    None = None
    iBufSize = 9
    ulMarkLen = 2
    ulReserveLen = 1
    Lengths = {1, 2, 4}
    BufferSizes = {2, 4}
    MaxMessages = 3
    Keys = {0, 1, 2, 4}
    Values = {1}
    ExpireTimes = {0, 1}
    CACHE_LOCK_NUM = 2
    CACHE_REMOVE_NUM = 2
    LruMaxSize = 2
    Widths = {1, 2, 3, 4, 5, 6, 8}
    dwBitmapSize = 16
    Touched = {1, 2, 12, 16}
    Processes = {q1, q2}
    NodeSizes = {1, 2}
    MaxDeaths = 1
    m_dwLogFileMaxSize = 2
    m_uiLogFileNum = 3
    MaxDay = 2
    MaxLines = 7
    Flushers = {Run, Caller}
    Run = Run
    dwBufSize = 4
    TextLens = {1, 2}
    MaxTexts = 3
INVARIANTS NoSlotRace QueueKeepsMessages HoldsLastUsed CellsAsWritten ArrayAsAsked LogKeepsNewest AcceptedLinesKept
PROPERTY ImplementsFifo
CHECK_DEADLOCK FALSE
