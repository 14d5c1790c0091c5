SPECIFICATION CertSpec
CONSTANTS
    Inject = {i1, i2}
    Reboots = 1
INVARIANT ExistingCertsAreKept
CHECK_DEADLOCK FALSE
