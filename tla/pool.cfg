\* Two child threads and the caller; tasks run, yield, throw and schedule.
SPECIFICATION Spec
CONSTANTS
    w1 = w1
    w2 = w2
    main = main
    t1 = t1
    t2 = t2
    AnyThread = AnyThread
    Children <- TwoChildren
    Caller = main
    UseCaller = TRUE
    Tasks <- TwoTasks
    Callbacks <- SecondTask
    Waiters <- NoTasks
    Rescheduled <- NoTasks
    Targets <- Unbound
    IOStopping = FALSE
    MaxYields = 1
INVARIANTS
    TypeOK
    ActiveCountExact
    ExclusiveRun
    StopDrains
PROPERTIES
    ExecLeftByRunner
    StopReturns
    ImplementsTaskPool
