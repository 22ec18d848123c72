SPECIFICATION FairSpec
CONSTANTS
    Jobs = {j1, j2}
    Api = api
    Workers = {w1}
    Tasks = {1, 2}
    MaxConcurrency = 1
    GuardianDeployed = FALSE
    MaxCrashes = 1
    MaxWriteFailures = 1
PROPERTIES SubmittedJobEnds
