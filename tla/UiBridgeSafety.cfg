SPECIFICATION Spec
CONSTANTS
    c1 = c1
    c2 = c2
    r1 = r1
    r2 = r2
    Channel = {c1, c2}
    Request = {r1}
    SourceOf <- McpOnly
    NameOf <- OneName
    Name <- MCName
    OpList <- BothLists
    TokenRequired = TRUE
    MaxAuth = 2
    None = None
SYMMETRY ChannelSymmetry
INVARIANTS
    IInv
    ExposedAfterToken
    LatestAuthWins
    ListenerUpToDate
PROPERTIES
    SentWithinTier
CHECK_DEADLOCK FALSE
