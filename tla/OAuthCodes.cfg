CONSTANTS
    Procs = {p1, p2}
    Clients = {k1, k2}
    Codes = {c1}
    Requests = {q1, q2}
    None = None
    CodeTtl = 1
    AccessTtl = 1
    RefreshTtl = 2
    MaxTime = 3
    MayRestart = TRUE
SPECIFICATION Spec
SYMMETRY Symmetry
CHECK_DEADLOCK FALSE
INVARIANTS
    TypeOK
    CodeUsedOnce
    SessionEnds
PROPERTIES
    FailedAttemptKeepsCode
