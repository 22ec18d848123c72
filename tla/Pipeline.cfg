\* One assessment, with the loop's own limits and every threshold straddled.
SPECIFICATION FairSpec
CONSTANTS
    MaxIterations <- MCMaxIterations
    PlateauPatience <- MCPatience
    MinReadiness <- MCMinReadiness
    SeedEvidence <- MCSeedEvidence
    ModelYields <- MCModelYields
    Dims <- MCDims
    Solvers <- MCSolvers
    Contexts <- MCContexts
    LlmScores <- MCLlmScores
    LlmConfidences <- MCLlmConfidences
    Verifications <- MCVerifications
    Dossiers <- MCDossiers
INVARIANTS
    TypeOK
    ReleasedIsChecked
    ReviewNeverReleased
    ReleasedAgreesWithRecords
    LevelWithinRail
PROPERTIES
    HeldStaysHeld
    ReadinessNeverFalls
    GivesUpOnlyWithoutGap
    AssessmentEnds
\* A call that has returned takes no further step.
CHECK_DEADLOCK FALSE
