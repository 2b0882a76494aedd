SPECIFICATION FairDesktopSpec
CONSTANTS
    Requests = {"request"}
    MaxServers = 2
INVARIANTS StoppedMeansGone FailedStartLeavesNothing
PROPERTIES RequestsFinish ExitEnds
CHECK_DEADLOCK FALSE
