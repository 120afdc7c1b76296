\* One thread polls a descriptor used in both directions.
SPECIFICATION Spec
CONSTANTS
    f1 = f1
    f2 = f2
    r1 = r1
    r2 = r2
    r3 = r3
    p1 = p1
    p2 = p2
    Nobody = Nobody
    Fds <- FirstFd
    Directions <- BothDirections
    Registrations <- ThreeRegs
    Callbacks <- NoReg
    Cancellable <- NoFd
    HangsUp <- NoFd
    Pollers <- OnePoller
    SizeT = 8
INVARIANTS
    PendingMatchesEvents
