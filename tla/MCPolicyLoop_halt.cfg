SPECIFICATION Spec
CONSTANTS
    p1 = p1
    p2 = p2
    Pids = {p1, p2}
    Games = {1}
    GameOf <- OneGame
    NoGame = NoGame
    None = None
    PausedGames = {1}
    Thresholds <- MCThresholds
    Total = 20
    Available = {1, 12}
    Cooldown = 0
    MaxElapsed = 1
    MaxBirths = 1
    Handles = {h1, h2}
    PriorityEnabled = TRUE
    ExecutionRequired = TRUE
    DisplayRequired = TRUE
    HaltAfter = 2
SYMMETRY HandleSymmetry
CHECK_DEADLOCK FALSE
INVARIANT
    GameExitAlwaysReleases
