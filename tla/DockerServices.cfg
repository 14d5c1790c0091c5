SPECIFICATION Spec
CONSTANTS
    n1 = n1
    h1 = h1
    c1 = c1
    c2 = c2
    s1 = s1
    s2 = s2
    r1 = r1
    r2 = r2
    e1 = e1
    d1 = d1
    None = None
    Network <- MCNetwork
    HostNetwork <- MCHostNetwork
    Container <- MCContainer
    Plain <- MCPlain
    Session <- MCSession
    Request <- MCRequest
    Call <- MCCall
    Asker <- MCCall
    Everything <- MCEverything
    Deactivation <- MCDeactivation
    Scenario <- MCScenario
SYMMETRY Symmetry
INVARIANT ServicesInv
INVARIANT StopLeavesNothing
INVARIANT QuietMonitorIsRight
PROPERTY VolumesAreWritten
CHECK_DEADLOCK FALSE
