\* One connection is served, one client connects, descriptors are reused.
SPECIFICATION TimerSpec
CONSTANTS
    c1 = c1
    k1 = k1
    Conns <- OneConn
    Clients <- OneClient
    Files <- AllFiles
    Listen = Listen
    Acceptor = Acceptor
    Stopper = Stopper
    Nobody = Nobody
    Closed = Closed
    MaxFd = 2
    SendTimeout = TRUE
    MaxOpen = 1
    MaxReports = 1
    MaxCancels = 1
CHECK_DEADLOCK FALSE
INVARIANTS
    ServerTypeOK
    CtxMatchesFile
    OwnSocket
    NeverBlocks
    WaitersWatched
    NoLeak
PROPERTY
    TimedWaitEnds
