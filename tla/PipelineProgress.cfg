CONSTANTS
    Requests = {r1, r2}
    Workers = {w1, w2}
    Projects = {p1}
    None = None
    Skills = {"kpi-report", "broken"}
    Handler <- MCHandler
    Faults = {}
    MaxRuns = 1
SPECIFICATION FairSpec
INVARIANTS
    StrandedOnlyByDeletion
PROPERTIES
    AcceptedEnds
CHECK_DEADLOCK FALSE
