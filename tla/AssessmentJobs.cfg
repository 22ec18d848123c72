SPECIFICATION FairSpec
CONSTANTS
    MaxJobs = 3
    ListLimit = 2
    MaxCrashes = 2
    MaxWriteFailures = 2
INVARIANTS TypeOK ServedResultIsStored ActiveHasRunner
PROPERTIES LifecycleMovesForward AcceptedJobEnds
CHECK_DEADLOCK FALSE
