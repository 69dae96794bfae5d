CONSTANTS
    Procs = {p1, p2}
    Skills = {s1, s2}
    MaxStarts = 2
    Faults = {"crash", "operator"}
SPECIFICATION Spec
CHECK_DEADLOCK FALSE
SYMMETRY Symmetry
INVARIANTS
    TypeOK
    ReadyMeansComplete
    
