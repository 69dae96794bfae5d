CONSTANTS
    Requests = {r1}
    Workers = {w1, w2}
    Projects = {p1}
    None = None
    Skills = {"kpi-report", "lead-scan", "broken"}
    Handler <- MCHandler
    Faults = {"db_lost", "worker_crash", "redis_crash", "requeue"}
    MaxRuns = 2
SPECIFICATION Spec
INVARIANTS
    JobsAreCommitted
    EndIsInAuditLog
    ResultMatchesStatus
    ResultNeverPlain
CHECK_DEADLOCK FALSE
