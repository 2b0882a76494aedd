SPECIFICATION FairSpec
CONSTANTS
    MaxFailed = 2
    MaxCrashes = 1
INVARIANTS ReadyWorkWasReviewed OriginalsAreKept RestartIsTransparent
PROPERTY RunsEnd
CHECK_DEADLOCK FALSE
