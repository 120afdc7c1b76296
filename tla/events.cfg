\* One worker thread; tasks wait for events and are scheduled twice.
SPECIFICATION Spec
CONSTANTS
    w1 = w1
    w2 = w2
    main = main
    t1 = t1
    t2 = t2
    AnyThread = AnyThread
    Children <- OneChild
    Caller = main
    UseCaller = FALSE
    Tasks <- TwoTasks
    Callbacks <- SecondTask
    Waiters <- TwoTasks
    Rescheduled <- FirstTask
    Targets <- Unbound
    IOStopping = TRUE
    MaxYields = 2
INVARIANTS
    PendingCountExact
    NoTaskLost
    StopDrains
PROPERTIES
    StopReturns
