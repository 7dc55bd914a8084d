SPECIFICATION FairSpec
CONSTANTS
    N = 2
    Fds = {1, 2, 3}
    MaxClient = 2
    QueueSize = 1
    Event = Event
    MaxConns = 3
    MaxRefusals = 1
CHECK_DEADLOCK FALSE
INVARIANTS NoNullClient OneOwner WakeupPending
PROPERTIES HandedOver GoneIsClosed
