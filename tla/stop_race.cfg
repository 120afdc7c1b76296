\* The accept loop and stop() on two threads of one IOManager; one connection.
SPECIFICATION Spec
CONSTANTS
    c1 = c1
    k1 = k1
    Conns <- OneConn
    Clients <- None
    Files <- AllFiles
    Listen = Listen
    Acceptor = Acceptor
    Stopper = Stopper
    Nobody = Nobody
    Closed = Closed
    MaxFd = 2
    SendTimeout = TRUE
    MaxOpen = 1
    MaxReports = 1
    MaxCancels = 1
CHECK_DEADLOCK FALSE
PROPERTY
    StopEndsAccept
