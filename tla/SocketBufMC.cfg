SPECIFICATION StreamSpec
CONSTANTS
    m_iInitSize = 2
    m_iDataAllowMaxSize = 5
    Garbage = Garbage
    MaxBytes = 12
    Filters = {"raw", "h2t3", "h2shortt3", "http"}
    Bodies <- MCBodies
    Leftovers <- MCLeftovers
    MaxPackages = 2
    Requests <- MCRequests
    HeadNames = {"h1"}
    CookieNames = {"c"}
    BodyLens = {7}
    MaxRequests = 3
    MaxSets = 2
    MaxAsked = 2
    MaxSockets = 3
    MaxSends = {1, 3}
    MaxWrites = 3
    Pushers = {p1, p2}
    Poppers = {c1, c2}
    Timed = {c1}
    m_dwMaxSize = 2
    PastBare = FALSE
    MaxPushes = 3
    MaxClears = 1
INVARIANTS DataInOrder ResizeFits PackagesAsSent HttpOfThisRequest AnswersAndSockets WorkerWrites InOrderWithMutex
PROPERTY AddDataEnds
CHECK_DEADLOCK FALSE
