SPECIFICATION Spec
CONSTANTS
    Procs = {c1}
    Schemes = {s1, s2, s3}
    None = None
    Torn = Torn
    Disturbances = {"ignored"}
PROPERTY
    KnownSafeKept
