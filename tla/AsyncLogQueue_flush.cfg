SPECIFICATION FairSpec
CONSTANTS
    Callers = {c1, c2}
    Worker = w
    Levels = {2, 4}
    Capacity = 1
    MaxRecords = 3
PROPERTY
    FlushTerminates
