CONSTANTS
    Requests = {r1}
    Workers = {w1}
    Projects = {p1}
    None = None
    Skills = {"kpi-report"}
    Handler <- MCHandler
    Faults = {}
    MaxRuns = 1
SPECIFICATION FairSpec
PROPERTIES
    StartedTaskFinishes
CHECK_DEADLOCK FALSE
