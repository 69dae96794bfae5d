CONSTANTS
    Requests = {r1, r2}
    Workers = {w1, w2}
    Projects = {p1}
    None = None
    Skills = {"kpi-report", "lead-scan", "broken"}
    Handler <- MCHandler
    Faults = {"api_crash", "db_lost", "enqueue_refused", "worker_crash", "job_timeout", "no_session"}
    MaxRuns = 1
SPECIFICATION Spec
SYMMETRY Symmetry
INVARIANTS
    TypeOK
    FinishAudited
    RefusedNeverRuns
    OnePlace
PROPERTIES
    ImplementsLifecycle
CHECK_DEADLOCK FALSE
