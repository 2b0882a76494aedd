SPECIFICATION FairBufferSpec
CONSTANTS
    Capacity = 2
    MaxReads = 2
INVARIANTS OrderIsPreserved OverflowIsAccounted
PROPERTY CriticalIsDelivered
CHECK_DEADLOCK FALSE
