SPECIFICATION Spec
CONSTANTS
    Workspaces = {maze}
    maze = maze
    NoWorkspace = none
    MaxNew = 2
    MaxReplies = 3
    MaxMails = 4
    MaxCrashes = 1
INVARIANTS OneTaskPerWorkspace NoLeakedLock WorkWasApproved ApprovalIsActedOn
CHECK_DEADLOCK FALSE
