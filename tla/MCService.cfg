SPECIFICATION PartsSpec
CONSTANTS
    MaxEvents = 3
    Hosts = {"h1", "h2"}
    LatchEnabled = TRUE
    UsesTray = TRUE
    FileFaults = TRUE
    TornWrites = TRUE
    FailuresToEnter = 3
    Window = 3
    Cooldown = 2
    Games = {"alpha", "beta"}
    Pids = {1, 2}
    Names = {"game.exe"}
    RuleSets <- OneOrBoth
    MaxMoves = 4
    Workers = {"w1", "w2"}
    Clients = {"c1", "c2"}
    Barred = {"c2"}
    ServerModes = {"host", "concurrent", "one", "session"}
    MaxFrames = 2
    ReportWindow = 6
    Interval = 1
    IntervalCap = 3
    UserAwayAfter = 2
    UserAwayStep = 1
    UserAwayCap = 5
    MaxAttempts = 2
    Backoff = 1
    RoundTripBound = 2
    MaxUserIdle = 4
    Overrun = 1
    MaxStarts = 2
    MaxClicks = 2
    Shells = {"s1", "s2"}
    Elevated = {"s1"}
    MaxCommands = 2
    MaxFormFaults = 1
INVARIANTS
    PartsTypeOK
    NoSignalAfterReturn
    MarkerTellsCrashes
    AnswersLikeEager
    EventsTellLives
    VerdictMatchesReplies
    ReportsAccounted
    ReporterKeepsPace
    TrayContract
PROPERTIES
    ClientsAreReleased
    OneFormIsHandedOver
    ServiceStops
    WatcherSettles
    PipeServersReturn
    TrayReturns
    DeclaredFormPrevails
