\* One run, with the collector's own limits.
SPECIFICATION FairSpec
CONSTANTS
    Needs <- MCNeeds
    Answers <- MCAnswers
    MinObservations = 15
    MaxRounds = 2
    MaxArticles = 200
    GdeltYields = {0, 8, 100}
    PlannedQueries = {0, 3, 5}
    MaxTraces = 2
INVARIANTS
    StoresAgree
PROPERTIES
    OnlyOwnSavesForget
    RoundsWithinBudget
    RunEnds
\* A run that has ended takes no further step.
CHECK_DEADLOCK FALSE
