SPECIFICATION Spec
CONSTANTS
    a1 = a1
    a2 = a2
    start = start
    stop = stop
    p1 = p1
    p2 = p2
    None = None
    Attempt = {a1, a2}
    Start = {}
    Stop = {stop}
    Port = {p1}
    MaxSessions = 4
    MaxOthers = 0
    MaxEnds = 1
SYMMETRY Symmetry
INVARIANTS
    IInv
    ActivatedIsPrepared
    StartedIsRegistered
    SessionIsKept
CHECK_DEADLOCK FALSE
