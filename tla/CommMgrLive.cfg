SPECIFICATION FairSpec
CONSTANTS
    Fds = {f1}
    MaxRefusals = 0
    MaxClient = 1
    SendMax = 2
    Listener = Listener
    NoFd = NoFd
    NoBuf = NoBuf
    MaxConns = 2
    MaxWrites = 2
    MaxInbox = 1
    Items = {"pkg", "bad"}
PROPERTIES PeerGoneNoticed QueueFlushed ConnectAnswered
