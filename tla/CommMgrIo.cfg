SPECIFICATION Spec
CONSTANTS
    Fds = {f1}
    MaxRefusals = 0
    MaxClient = 1
    SendMax = 3
    Listener = Listener
    NoFd = NoFd
    NoBuf = NoBuf
    MaxConns = 2
    MaxWrites = 3
    MaxInbox = 1
    Items = {"pkg", "part", "bad"}
INVARIANTS ToldConnected TablesAgree NoConnectionForgotten NoNullBuffer FrameIntegrity DrainedWhole
