----------------------------- MODULE MCCouncil -----------------------------
EXTENDS Council

MCReports == {
    Report("SIG_MIL_MOBILIZATION", "e1", "GDELT_V2", 90, 90, Unit),
    Report("SIG_MIL_MOBILIZATION", "e1", "RESILIENT_NEWS_SURFER", 40, 55, Unit),
    Report("SIG_LEGAL_DISPUTE", "e1", "RESILIENT_NEWS_SURFER", 60, 55, Unit),
    Report("SIG_PEACE_TALKS", "e1", "ACLED", 30, 90, Unit \div 2)}

MCAnswers == {Report("SIG_MIL_ESCALATION", "query", "rfi-extract", 85, 85, Unit)}

Quiet == [a \in {"SIG_PEACE_TALKS"} |-> 55]
MCPasts == {<<Quiet, Quiet, Quiet, Quiet, Quiet>>}

\* A minister with a baseline and one without, and a baseline without a minister.
MCBench == <<"Security", "Domestic">>
MCBaseliners == {"Security", "Contrarian"}
\* One role, whether the model spawns it or it stands in.
MCExperts == {"Strategic Analyst"}
MCStanding == MCExperts

MCRefinements == {
    [confidence |-> 100, cited |-> FALSE, matched |-> FALSE, missing |-> {}],
    [confidence |-> 900, cited |-> TRUE, matched |-> TRUE, missing |-> {"other"}]}

MCOpinions == {[confidence |-> 950, matched |-> TRUE, missing |-> {}]}
=============================================================================
