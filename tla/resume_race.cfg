\* Two worker threads and one task that waits for an event.
SPECIFICATION Spec
CONSTANTS
    w1 = w1
    w2 = w2
    main = main
    t1 = t1
    t2 = t2
    AnyThread = AnyThread
    Children <- TwoChildren
    Caller = main
    UseCaller = FALSE
    Tasks <- FirstTask
    Callbacks <- NoTasks
    Waiters <- FirstTask
    Rescheduled <- NoTasks
    Targets <- Unbound
    IOStopping = TRUE
    MaxYields = 1
INVARIANTS
    ExclusiveRun
