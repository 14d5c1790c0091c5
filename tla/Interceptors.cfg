SPECIFICATION Spec
CONSTANTS
    a1 = a1
    a2 = a2
    a3 = a3
    b1 = b1
    b2 = b2
    b3 = b3
    p1 = p1
    p2 = p2
    Activation <- MCTwo
    Group <- MCGroup
    Forced <- MCForced
    ShellScenario <- MCShellScenario
    ShellCall <- MCThree
    Stopping <- MCOthers
    NoServer = NoServer
    Launch <- MCThree
    ProxyPort <- MCPorts
    PortOfCall <- MCCallsThree
    NoBrowser = NoBrowser
    Intercept <- MCTwo
    UserStart <- MCOthers
    Confirmed <- MCFirst
    Nobody = Nobody
    Opening <- MCTwo
    FirefoxPort <- MCFirstPort
    PortOfOpening <- MCCallsOne
    NoFirefox = NoFirefox
    App <- MCTwo
    Closing <- MCOther
    Retries = 1
    Attach <- MCTwo
    Listing <- MCOthers
    Pid <- MCOne
    JvmPort <- MCPorts
    NoPort = NoPort
    Generations = 2
    Tunnelling <- MCThree
    Untunnelling <- MCOthers
    NoTunnel = NoTunnel
    MaxFailures = 2
    MaxAttempts = 2
    Inject <- MCTwo
    Reboots = 1
    Proxying <- MCTwo
    Unproxying <- MCOther
    AppPort <- MCPorts
    PortOfProxying <- MCCallsTwo
    PortOfUnproxying <- MCCallsOther
    NoVpn = NoVpn
    Release <- MCNumbers
    Query <- MCThree
    NoSession = NoSession
    Setup <- MCOther
    ServerLaunch <- MCFirst
    Interception <- MCFridaApps
    OnIos <- MCLastOnIos
    StopApps <- MCOther
    FridaPort <- MCPorts
    PortOfFrida <- MCCallsThree
    PortsOfStop <- MCFridaStops
    NoSetup = NoSetup
    HeadlessStart <- MCTwo
    HeadlessStop <- MCOthers
    HeadlessRecover <- MCLast
    NoProcess = NoProcess
    Poll <- MCTwo
    MaxTime = 2
    MaxSize = 1
    MaxEvents = 3
    DataPlaneRecent = 0
    ControlPlaneStale = 0
    DisconnectedAfter = 0
    MobileEvidenceRecent = 0
    Rescue <- MCTwo
    RescueOptions <- MCRescueOptions
    ProxyKey <- MCOne
    DeviceWrites = 1
    Exchange <- MCOne
    Ingest <- MCOther
    NoService = NoService
    AddonRestarts = 1
    Dockerfile <- MCDockerfile
    OutputBound = 3
    Port <- MCText
    RewriteBound = 3
    ApiCall <- MCOne
    Served <- MCTwo
    NoInterceptor = NoInterceptor
    InterceptorTimeout = 1
    DetailedTimeout = 3
    ConfigTimeout = 1
    ReportAfter = 2
    ActivableTimeout <- MCTimeout
    MaxApiTime = 6
    Send <- MCTwo
    MaxStreamed = 4
INVARIANT RewritesAreUndone
INVARIANT CommandsReachTheServer
INVARIANT ChromiumIsTracked
INVARIANT FirefoxRecovers
INVARIANT AppsAreTracked
INVARIANT DevicesArePrepared
INVARIANT FridaCleansUp
INVARIANT LabIsTruthful
INVARIANT AnswersAreSound
CHECK_DEADLOCK FALSE
