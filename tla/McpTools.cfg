SPECIFICATION FairSpec
CONSTANTS
    c1 = c1
    c2 = c2
    o1 = o1
    o2 = o2
    Op = {o1}
    Call = {c1}
    Launchable = TRUE
    MaxTries = 2
    MaxChanges = 2
    MaxTimeouts = 1
INVARIANTS
    IInv
    PolledListIsWatched
PROPERTIES
    CacheConverges
    CallsEnd
CHECK_DEADLOCK FALSE
