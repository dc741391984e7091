SPECIFICATION PartsSpec
CONSTANTS
    c1 = c1
    c2 = c2
    s1 = s1
    s2 = s2
    Procs = {c1, c2}
    Schemes = {s1, s2}
    None = None
    Torn = Torn
    Disturbances = {"external", "ignored", "unreadable"}
    Runners = {c1, c2}
    Kinds = {"clean", "selftrim"}
    CompiledIn = {"trim", "standby", "tuner"}
    DeepestClean = 2
    CooldownSpan = 1
    MaxClock = 2
    Entries = {"done", "failed"}
    Junk = Junk
    MaxLines = 3
    MaxBytes = 0
    KeepTailLines = 1
    SummaryMaxLines = 2
    MaxAuditReadBytes = 4
    LineBytes = 1
    MaxAppends = 5
    MaxRuns = 3
SYMMETRY Symmetry
INVARIANTS
    PartsTypeOK
    RollbackBasis
    CooldownKept
    LedgerIsEarned
    EntriesConserved
PROPERTY
    VerdictHolds
