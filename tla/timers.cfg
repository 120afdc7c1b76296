\* One thread serves a one-shot and a recurring timer that their owners cancel,
\* refresh and reset, while the clock may be set back.
SPECIFICATION Spec
CONSTANTS
    a = a
    b = b
    p1 = p1
    Timers <- TwoTimers
    Recurring <- OnlyB
    Pollers <- OnePoller
    Delays <- OneDelay
    MaxTimeout = 1
    HourMs = 1
    StartMs = 1
    IntLimit = 16
    MaxMs = 3
    MaxOps = 1
    MaxSetBacks = 1
CHECK_DEADLOCK FALSE
PROPERTIES
    DueTimersServed
INVARIANTS
    TimerTypeOK
    RegisteredIffCallback
    CancelOrFire
