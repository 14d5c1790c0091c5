SPECIFICATION FairSpec
CONSTANTS
    c1 = c1
    c2 = c2
    r1 = r1
    r2 = r2
    Channel = {c1, c2}
    Request = {r1, r2}
    SourceOf <- CtlAndMcp
    NameOf <- SameName
    Name <- MCName
    OpList <- OneList
    TokenRequired = FALSE
    MaxAuth = 1
    None = None
INVARIANTS
    PendingOnPrimary
PROPERTIES
    SentIsAnswered
    ImplementsBroker
CHECK_DEADLOCK FALSE
