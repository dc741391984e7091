SPECIFICATION FairSpec
CONSTANTS
    Callers = {c1, c2}
    Worker = w
    Levels = {2, 4}
    Capacity = 2
    MaxRecords = 4
INVARIANTS
    TypeOK
PROPERTIES
    KeepsContract
    FlushCoversItsCall
    StopTerminates
    ProgressUnlessOverwritten
