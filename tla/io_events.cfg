\* Two threads poll two descriptors, each used in one direction.
SPECIFICATION Spec
CONSTANTS
    f1 = f1
    f2 = f2
    r1 = r1
    r2 = r2
    r3 = r3
    p1 = p1
    p2 = p2
    Nobody = Nobody
    Fds <- TwoFds
    Directions <- OneDirection
    Registrations <- ThreeRegs
    Callbacks <- NoReg
    Cancellable <- TwoFds
    HangsUp <- NoFd
    Pollers <- TwoPollers
    SizeT = 8
INVARIANTS
    IOTypeOK
    PendingMatchesEvents
    RegistrationOnce
    InterestCoversEvents
PROPERTIES
    ReadyEventServed
