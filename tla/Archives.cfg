CONSTANTS
    Procs = {p1, p2}
    NoProc = NoProc
    Sessions = {s1, s2, s3}
    MaxHistory = 2
    Capacity = 2
    MaxGoals = 1
    MaxCrashes = 1
    MaxWriteFailures = 1
SYMMETRY Symmetry
VIEW View
SPECIFICATION Spec
INVARIANTS
    LostOnlyByOverlap
    TrailIsOrdered
CHECK_DEADLOCK FALSE
