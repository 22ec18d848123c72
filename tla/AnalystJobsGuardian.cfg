SPECIFICATION FairSpec
CONSTANTS
    Jobs = {j1}
    Api = api
    Workers = {w1, w2}
    Tasks = {1, 2}
    MaxConcurrency = 1
    GuardianDeployed = TRUE
    MaxCrashes = 2
    MaxWriteFailures = 1
PROPERTIES NoJobRunsForever
