SPECIFICATION Spec
CONSTANTS
    Fds = {f1, f2, f3}
    MaxRefusals = 1
    MaxClient = 1
    SendMax = 2
    Listener = Listener
    NoFd = NoFd
    NoBuf = NoBuf
    MaxConns = 3
    MaxWrites = 0
    MaxInbox = 1
    Items = {}
SYMMETRY FdSymmetry
INVARIANTS ClientCount
