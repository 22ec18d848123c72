----------------------------- MODULE MCPipeline -----------------------------
(***************************************************************************)
(* Inputs for TLC.  Each set holds values on both sides of every threshold *)
(* the pipeline tests, and the thresholds that a strict comparison decides.*)
(***************************************************************************)
EXTENDS Pipeline

MCMaxIterations == 5
MCPatience == 2
MCMinReadiness == 150

\* A silent collection, a thin one, one just short of the evidence gap, and
\* evidence without a gap that is ready or not.
MCSeedEvidence ==
    {e \in [signals : {1, 4, 11, 12}, observations : {1, 9}, trends : {0, 4},
            feeds : {0, 1, 3}, rfi : {{}, {"rfi-query"}}] :
       e.feeds + Cardinality(e.rfi) \in 1..e.signals /\ e.trends <= e.signals}
MCModelYields == {1, 3}

MCDims == {"military", "diplomatic", "economic"}
MCSolvers == {"z3", "pyDatalog"}

\* Collections and councils on both sides of every threshold: no signal, only
\* the model's own, each grade of the keyword fallback, a rare action the
\* sources agree on; trends that rise and fall; a gate that passes and not.
Plain == [NoContext EXCEPT !.capability = 350, !.confidence = 700, !.hypotheses = TRUE]
Rising == <<Indicator(400, 1000, 0), Indicator(300, 800, 2850)>>
Falling == <<Indicator(-400, 1000, 0)>>
MCContexts ==
    {NoContext,
     Plain,
     [Plain EXCEPT !.sre = 649, !.observations = 2, !.evidence = TRUE],
     [Plain EXCEPT !.sre = 650, !.observations = 2, !.signals = <<Parsed("SIG_DEESCALATION", 300, 550)>>,
                   !.rejected = TRUE],
     [Plain EXCEPT !.signals = <<Fallback.military>>, !.observations = 9, !.sre = 810,
                   !.evidence = TRUE, !.believed = TRUE, !.escalation = 900, !.trends = Rising],
     [Plain EXCEPT !.signals = <<Fallback.economic>>, !.observations = 9,
                   !.evidence = TRUE, !.believed = TRUE, !.escalation = 400, !.trends = Falling],
     [Plain EXCEPT !.signals = <<Fallback.legal, Fallback.political>>, !.observations = 9,
                   !.evidence = TRUE, !.concerns = TRUE, !.said = {"certainty"}, !.rejected = TRUE],
     [Plain EXCEPT !.signals = <<Parsed("SIG_PEACE_TALKS", 600, 900), Fallback.political,
                                 Parsed("SIG_DEESCALATION", 200, 850)>>,
                   !.observations = 9, !.evidence = TRUE, !.said = {"deception", "unanimity"}],
     [Plain EXCEPT !.signals = <<Parsed("SIG_WMD_RISK", 900, 900)>>, !.observations = 2, !.sre = 300],
     [Plain EXCEPT !.signals = <<Parsed("SIG_WMD_RISK", 900, 850)>>, !.observations = 2,
                   !.believed = TRUE, !.escalation = 500, !.trends = <<Indicator(40, 100, 0)>>],
     [Plain EXCEPT !.signals = <<Fallback.military>>, !.capability = 349, !.evidence = TRUE]}

MCLlmScores == {-200, 470, 1200}
MCLlmConfidences == {300, 900}
MCVerifications == {250, 450, 549, 600, 700, 701}
MCDossiers == {{}, {"covert"}, {"recommendation"}}
=============================================================================
