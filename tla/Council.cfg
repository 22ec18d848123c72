CONSTANTS
    Reports <- MCReports
    Answers <- MCAnswers
    Pasts <- MCPasts
    MaxReports = 2
    MaxAnswers = 1
    Bench <- MCBench
    Baseliners <- MCBaseliners
    Experts <- MCExperts
    Standing <- MCStanding
    Refinements <- MCRefinements
    Opinions <- MCOpinions
    MaxRounds = 5
SPECIFICATION FairSpec
INVARIANTS MoreEvidenceNeverCalms LegalMovesTrendsOnly BaselineBandsHold VerifiedIsGrounded
PROPERTY CouncilEnds
CHECK_DEADLOCK FALSE
