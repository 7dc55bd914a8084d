SPECIFICATION Spec
CONSTANTS
    Workers = {w1, w2}
    m_iMaxSize = 1
    Fds = {f1}
    Loop = Loop
    Free = Free
    MaxConns = 2
    MaxRequests = 1
CHECK_DEADLOCK FALSE
SYMMETRY WorkerSymmetry
INVARIANT AnswersReachAsker
