SPECIFICATION FairSpec
CONSTANTS
    s1 = s1
    s2 = s2
    s3 = s3
    Session = {s1, s2, s3}
    Supported <- WithServer
    Handler = {"standalone", "interceptors"}
    AutoShutdown = TRUE
    FirstDelay = 1
    SecondDelay = 2
    Horizon = 5
INVARIANTS
    IInv
    IdleIsBounded
PROPERTIES
    IdleShutdownIsEarned
    ShutdownCompletes
CHECK_DEADLOCK FALSE
