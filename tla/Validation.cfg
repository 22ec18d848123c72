CONSTANTS
    None = None
    red_team = red_team
    crag = crag
    strategic_narrative = strategic_narrative
    f1 = f1
    f2 = f2
    security = security
    diplomacy = diplomacy
    Crises <- MCCrises
    Answers <- MCAnswers
    Modules <- MCModules
    Queries = 2
    Traces <- MCTraces
    Cases <- MCCases
    Kernel <- MCKernel
    Revisions <- MCRevisions
    Days <- MCDays
    Levels <- MCLevels
    MaxDays = 3
    Horizon = 1
    ForecastIds = {f1, f2}
    Predictions = {35, 100}
    Beliefs <- MCBeliefs
    Actuals = {10, 100}
    MaxForecasts = 3
SPECIFICATION Spec
INVARIANTS MetricsAgree ReportsSayWhatRan
CHECK_DEADLOCK FALSE
