CONSTANTS
    Procs = {p1, p2}
    Clients = {k1}
    Codes = {c1}
    Requests = {q1}
    None = None
    CodeTtl = 1
    AccessTtl = 1
    RefreshTtl = 2
    MaxTime = 2
    MayRestart = FALSE
SPECIFICATION Spec
SYMMETRY Symmetry
CHECK_DEADLOCK FALSE
INVARIANTS
    OneInstanceSuffices
