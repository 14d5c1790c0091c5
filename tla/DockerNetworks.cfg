\* No container disappears, is stopped or is killed: the updates only race each
\* other.
SPECIFICATION Spec
CONSTANTS
    j1 = j1
    j2 = j2
    u1 = u1
    u2 = u2
    s1 = s1
    n1 = n1
    p1 = p1
    p2 = p2
    NoPort = NoPort
    Port = {p1}
    None = None
    Refresh = {j1}
    Update = {u1, u2}
    Stop = {}
    Network = {n1}
    MaxFaults = 0
    MaxEarly = 0
INVARIANTS
    NetworksUpToDate
CHECK_DEADLOCK FALSE
