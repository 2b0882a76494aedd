SPECIFICATION FairSpec
CONSTANT MaxCommands = 3
INVARIANTS WaiterReachable JournalMatchesReport
PROPERTIES ImplementsContract StopEndsTask ShutdownExits
CHECK_DEADLOCK FALSE
