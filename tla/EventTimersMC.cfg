SPECIFICATION FairSpec
CONSTANTS
    TimerIds = {1, 2}
    Expires = {0, 1, 3}
    DefaultTimeout = 4
    NoTime = NoTime
    MaxBusy = 2
    MaxTime = 7
    MaxAdds = 4
CHECK_DEADLOCK FALSE
INVARIANTS Punctual
PROPERTIES FiresRight EveryTimerFires
