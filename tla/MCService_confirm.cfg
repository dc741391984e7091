SPECIFICATION PartsSpec
CONSTANTS
    MaxEvents = 0
    Hosts = {"h1"}
    LatchEnabled = TRUE
    UsesTray = FALSE
    FileFaults = FALSE
    TornWrites = FALSE
    FailuresToEnter = 2
    Window = 2
    Cooldown = 2
    Games = {"alpha", "beta"}
    Pids = {1}
    Names = {"game.exe"}
    RuleSets <- OneOrBoth
    MaxMoves = 0
    Workers = {"w1"}
    Clients = {"c1", "c2"}
    Barred = {"c2"}
    ServerModes = {"host", "concurrent", "one", "session"}
    MaxFrames = 1
    ReportWindow = 1
    Interval = 1
    IntervalCap = 3
    UserAwayAfter = 2
    UserAwayStep = 1
    UserAwayCap = 5
    MaxAttempts = 2
    Backoff = 1
    RoundTripBound = 2
    MaxUserIdle = 4
    Overrun = 1
    MaxStarts = 1
    MaxClicks = 1
    Shells = {"s1", "s2"}
    Elevated = {"s1"}
    MaxCommands = 1
    MaxFormFaults = 0
INVARIANT
    UncleanNeedsConfirmation
