SPECIFICATION GatedSpec
CONSTANTS
    Runners = {r1}
    Kinds = {"clean", "selftrim", "scheduler"}
    CompiledIn = {}
    DeepestClean = 3
    CooldownSpan = 1
    MaxClock = 2
INVARIANT
    CompiledOutNeverRuns
