SPECIFICATION HandoffSpec
CONSTANTS
    Events = {"e1", "e2"}
    MaxIssues = 3
    Keep = 1
    MaxCalls = 5
    MaxClosed = 1
INVARIANTS OncePerIssue NothingIsLost
CHECK_DEADLOCK FALSE
