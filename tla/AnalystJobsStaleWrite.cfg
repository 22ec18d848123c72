SPECIFICATION Spec
CONSTANTS
    Jobs = {j1, j2}
    Api = api
    Workers = {w1}
    Tasks = {1, 2, 3}
    MaxConcurrency = 2
    GuardianDeployed = TRUE
    MaxCrashes = 0
    MaxWriteFailures = 0
INVARIANTS ClaimExclusive
SYMMETRY Symmetry
