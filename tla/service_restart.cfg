SPECIFICATION Spec
CONSTANTS
    MaxLaunches = 2
    MaxCommands = 2
    RestartLimit = 1
    QueueCapacity = 2
    PipeCapacity = 1
    KillMayFail = TRUE
INVARIANTS AtMostOneWorker BusyIsJustified
PROPERTIES CrashIsReported
CHECK_DEADLOCK FALSE
