SPECIFICATION FairSpec
CONSTANTS
    j1 = j1
    j2 = j2
    u1 = u1
    u2 = u2
    s1 = s1
    n1 = n1
    p1 = p1
    p2 = p2
    NoPort = NoPort
    Port = {p1, p2}
    None = None
    Refresh = {j1, j2}
    Update = {u1}
    Stop = {s1}
    Network = {n1}
    MaxFaults = 1
    MaxEarly = 1
INVARIANTS
    TypeOK
    CachedPromiseIsLive
    EnsureIsQueuedOnce
PROPERTIES
    WaitsEnd
    PortConverges
CHECK_DEADLOCK FALSE
