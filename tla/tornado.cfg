SPECIFICATION FairSpec
CONSTANTS
    home = home
    big = big
    free = free
    Providers = {home, big, free}
    Local = {home}
    Limited = {big}
    MaxCalls = 2
    MaxRetries = 1
    NoProvider = none
INVARIANT CallsAreAllowed
PROPERTY ChatEnds
CHECK_DEADLOCK FALSE
