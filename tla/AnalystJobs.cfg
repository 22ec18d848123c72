SPECIFICATION Spec
CONSTANTS
    Jobs = {j1, j2}
    Api = api
    Workers = {w1, w2}
    Tasks = {1, 2}
    MaxConcurrency = 1
    GuardianDeployed = FALSE
    MaxCrashes = 1
    MaxWriteFailures = 2
INVARIANTS TypeOK ClaimExclusive ServedCompletedIsDurable NoOrphanWithoutFault
PROPERTIES CompletedIsFinal ImplementsLedger

SYMMETRY Symmetry
