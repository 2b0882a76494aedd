SPECIFICATION FairSpec
CONSTANTS
    MaxLaunches = 1
    MaxCommands = 2
    RestartLimit = 1
    QueueCapacity = 2
    PipeCapacity = 1
    KillMayFail = FALSE
PROPERTIES StopEndsTask ShutdownStops
CHECK_DEADLOCK FALSE
