CONSTANTS
    T1 = t1
    T2 = t2
    Calls = {c1}
    Targets = {t1, t2}
    Ambiguous = {t2}
    CcSecret = TRUE
    Faults = {"api_crash", "db_lost"}
    Asked <- MCAsked
    Runs = {c1, r2}
    F1 = f1
    F2 = f2
    V1 = v1
    Files = {f1, f2}
    Contents = {v1, v2, v3}
    Large = {v3}
    Missing = Missing
SPECIFICATION MCSpec
CHECK_DEADLOCK FALSE
INVARIANTS
    RestIsAudited
    AuditTellsWhatHappened
    ComposedTypeOK
    UndisturbedFilesAreExact
    OnlyWritesBreakSnapshots
    AuditAgreesWithDaemon
PROPERTIES
    CallEnds
