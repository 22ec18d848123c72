\* Two jobs, their runners, and two clients that come and go.
SPECIFICATION LiveSpec
CONSTANTS
    MaxJobs = 2
    ListLimit = 2
    MaxCrashes = 1
    MaxWriteFailures = 0
    Conns = {c1, c2}
INVARIANTS HeardIsStored
PROPERTIES EverybodyHears
CHECK_DEADLOCK FALSE
