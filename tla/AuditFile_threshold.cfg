SPECIFICATION AuditSpec
CONSTANTS
    Entries = {"done"}
    Junk = Junk
    MaxLines = 20
    MaxBytes = 10
    KeepTailLines = 2
    SummaryMaxLines = 5
    MaxAuditReadBytes = 8
    LineBytes = 2
    MaxAppends = 6
    MaxRuns = 1
PROPERTY
    ReachedIsCompacted
