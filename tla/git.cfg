SPECIFICATION FairSpec
CONSTANTS
    Foreign = {f1, f2}
    f1 = f1
    f2 = f2
    MaxCrashes = 3
PROPERTIES ApprovalIsAnswered PublishesOnlyTheTask ImplementsContract
CHECK_DEADLOCK FALSE
