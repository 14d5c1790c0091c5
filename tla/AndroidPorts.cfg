SPECIFICATION FairSpec
CONSTANTS
    a1 = a1
    a2 = a2
    start = start
    stop = stop
    p1 = p1
    p2 = p2
    None = None
    Attempt = {a1}
    Start = {start}
    Stop = {}
    Port = {p1, p2}
    MaxSessions = 4
    MaxOthers = 1
    MaxEnds = 1
INVARIANTS
    LatestRuns
PROPERTIES
    AttemptEnds
CHECK_DEADLOCK FALSE
