SPECIFICATION PartsSpec
CONSTANTS
    Games = {g1, g2}
    NoGame = NoGame
    GameIds = {g1, g2}
    None = None
    PausedGames = {g1}
    Thresholds <- MCThresholds
    Total = 20
    Available = {1, 2, 5, 12, 21}
    Cooldown = 3
    MaxElapsed = 2
    Pids = {p1, p2}
    LevelsAsked = {1, 2}
    MaxLevel = 1
    MaxCount = 2
    MaxBirths = 2
    LockTypes = {"execution", "display"}
    MaxLocks = 3
    Handles = {h1, h2, h3}
    Agents = {p1, p2}
    AwayAfter = 1
    ForgetAfter = {0, 1}
    Flight = 1
    MaxIdle = 3
    TickRange = 5
    ThreadIds = {1, 2}
    Target = 1
    MaxMeddling = 3
    Apps = {"game", "shell"}
    IdleAfter = 2
    MaxQuiet = 3
    MaxSamples = 2
SYMMETRY Symmetry
INVARIANTS
    PartsTypeOK
    DampingIsExact
    LeaseIsExact
    RequestsAreOwned
    PresentIsBacked
    RestoreIsExact
    SamplesAreTrue
PROPERTY
    RowIsOwnReport
