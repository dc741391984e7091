SPECIFICATION Spec
CONSTANTS
    p1 = p1
    p2 = p2
    Pids = {p1, p2}
    Games = {1, 2}
    GameOf <- TwoGames
    NoGame = NoGame
    None = None
    PausedGames = {1}
    Thresholds <- MCThresholds
    Total = 20
    Available = {1, 12, 21}
    Cooldown = 2
    MaxElapsed = 1
    MaxBirths = 2
    Handles = {h1, h2}
    PriorityEnabled = TRUE
    ExecutionRequired = TRUE
    DisplayRequired = TRUE
    HaltAfter = 2
SYMMETRY HandleSymmetry
CHECK_DEADLOCK FALSE
INVARIANTS
    LoopTypeOK
    RecordsAgree
    ExitLeavesNothing
    CriticalRevokesBoost
    GameExitReleases
