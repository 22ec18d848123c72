----------------------------- MODULE Disposition -----------------------------
(***************************************************************************)
(* The rules by which an assessment is graded and released or held: the    *)
(* threat synthesizer, the refusal and the request for review, the         *)
(* assessment gate, the symbolic guardrails, the safety enforcer and the   *)
(* advice of the narrative.                                                *)
(*                                                                         *)
(* Scores are in thousandths, the precision the code rounds them to.       *)
(***************************************************************************)
EXTENDS Integers, FiniteSets, SequencesExt

CONSTANTS
    Dims,      \* military, diplomatic, economic, cyber, information
    Solvers    \* the optional solvers that are installed

ASSUME SolverAssumption == Solvers \subseteq {"z3", "pyDatalog"}

Levels == {"LOW", "MODERATE", "ELEVATED", "HIGH", "CRITICAL"}
Rank == [LOW |-> 0, MODERATE |-> 1, ELEVATED |-> 2, HIGH |-> 3, CRITICAL |-> 4]
Scores == 0..1000

Clamp(low, high, x) == IF x < low THEN low ELSE IF x > high THEN high ELSE x
Total(numbers) == FoldLeft(LAMBDA n, m : n + m, 0, numbers)
Mean(signals, Of(_)) ==
    IF signals = <<>> THEN 0
    ELSE Total([i \in DOMAIN signals |-> Of(signals[i])]) \div Len(signals)

----------------------------------------------------------------------------
(* Signals *)

\* A signal the model reads in a report has no domain; its confidence is the
\* tier of the source.
Parsed(action, intensity, tier) ==
    [action |-> action, domain |-> "unknown", intensity |-> intensity, confidence |-> tier]

\* The keyword fallback gives one signal, by the first family of words found.
Keyed(action, domain, intensity) ==
    [action |-> action, domain |-> domain, intensity |-> intensity, confidence |-> 850]
Fallback ==
    [military  |-> Keyed("SIG_MIL_ESCALATION", "military", 850),
     cyber     |-> Keyed("SIG_CYBER_ATTACK", "cyber", 750),
     economic  |-> Keyed("SIG_ECONOMIC_SANCTIONS", "economic", 350),
     legal     |-> Keyed("SIG_LEGAL_DISPUTE", "legal", 650),
     political |-> Keyed("SIG_DIPLOMATIC_COMMUNICATION", "political", 600)]

----------------------------------------------------------------------------
(* Threat synthesis *)

\* dim_map, of the domains a signal can have.
SourceDomains ==
    [military |-> {"military"}, diplomatic |-> {"political", "legal"}, economic |-> {"economic"},
     cyber |-> {"cyber"}, information |-> {}]

Intensity(signals, domain) ==
    Mean(SelectSeq(signals, LAMBDA s : s.domain = domain), LAMBDA s : s.intensity)

\* The threat_dimensions of the heuristic: the strongest domain of each.
HeuristicRail(signals) ==
    [d \in Dims |-> Max({0} \cup {Intensity(signals, domain) : domain \in SourceDomains[d]})]

\* _level_from_score of the largest dimension
Reaches(scores, floor) == \E d \in Dims : scores[d] >= floor
LevelOf(scores) ==
    IF Reaches(scores, 800) THEN "CRITICAL"
    ELSE IF Reaches(scores, 600) THEN "HIGH"
    ELSE IF Reaches(scores, 400) THEN "ELEVATED"
    ELSE IF Reaches(scores, 200) THEN "MODERATE"
    ELSE "LOW"

\* What the heuristic recommends: a CRITICAL level gets the routine's advice.
Courses == {"escalate", "watch", "routine"}
Course(level) ==
    CASE level = "HIGH"     -> "escalate"
      [] level = "ELEVATED" -> "watch"
      [] OTHER              -> "routine"

\* Mutant: the model's score is taken as it is.
ClipNothing(h, l) == Clamp(0, 1000, l)

\* The model may move a dimension by at most 150 from the heuristic rail h.
Clip(h, l) == Clamp(0, 1000, Clamp(h - 150, h + 150, l))
Bounded(rail, llm) == [d \in Dims |-> Clip(rail[d], llm[d])]

\* Only a gain of confidence is bounded, not a loss.
BoundedConfidence(h, l) == IF l > h + 150 THEN h + 150 ELSE l

Far(h, l, bound) == l > h + bound \/ l < h - bound

\* agreement_score < 0.75: two disagreements, of the dimensions and the confidence
Disagree(rail, llm, h, l) ==
    Cardinality({d \in Dims : Far(rail[d], llm[d], 150)}) + (IF Far(h, l, 200) THEN 1 ELSE 0) >= 2

\* validate_assessment.  Each of its messages has the word HIGH in it, and is
\* written into the decision.
Contradictory(level, scores, confidence, signals) ==
    LET positive == SelectSeq(signals, LAMBDA s : s.intensity >= 500)
    IN  \/ level = "LOW" /\ \E d \in Dims : scores[d] > 700
        \/ confidence > 800 /\ positive = <<>>
        \/ /\ level \in {"HIGH", "CRITICAL"}
           /\ \A i \in DOMAIN positive : positive[i].confidence < 700

----------------------------------------------------------------------------
(* Refusal and review *)

\* verify(): the score must exceed 0.7
Verified(v) == v > 700

\* refuse(): at 0.7 sharp none of the reasons need hold.
Reasons == {"no_hypotheses", "unverified", "no_evidence", "red_team", "quality_gates"}
RefusalReasons(hypotheses, v, evidence, concerns) ==
    LET reasons == {r \in Reasons \ {"quality_gates"} :
                      \/ r = "no_hypotheses" /\ ~hypotheses
                      \/ r = "unverified" /\ v < 700
                      \/ r = "no_evidence" /\ ~evidence
                      \/ r = "red_team" /\ concerns}
    IN  IF reasons = {} THEN {"quality_gates"} ELSE reasons

Priorities == {"URGENT", "HIGH"}
Priority(v) == IF v < 300 THEN "URGENT" ELSE "HIGH"

----------------------------------------------------------------------------
(* The assessment gate *)

\* What build_assessment_state fills.  The rest keeps its default: no PIR, no
\* stale signal, no momentum and no persistence reach the gate.
AssessmentState(capability, v, proposed, swan) ==
    [critical_pirs |-> 0, capability |-> capability, stale_military |-> {}, confidence |-> v,
     momentum |-> 0, persistence |-> 0, proposed |-> proposed, black_swan |-> swan]

\* Mutant: too little capability alone does not withhold.
HardReasonsWithoutCapability(state) ==
    {r \in {"pirs", "stale", "confidence"} :
       \/ r = "pirs" /\ state.critical_pirs >= 3
       \/ r = "stale" /\ state.stale_military # {}
       \/ r = "confidence" /\ state.confidence < 550}

\* Rules 1 to 4, any of which withholds.
HardReasons(state) ==
    {r \in {"pirs", "capability", "stale", "confidence"} :
       \/ r = "pirs" /\ state.critical_pirs >= 3
       \/ r = "capability" /\ state.capability < 350
       \/ r = "stale" /\ state.stale_military # {}
       \/ r = "confidence" /\ state.confidence < 550}

\* Rule 5, which lifts a LOW to ELEVATED.
TrendEscalation(state) == state.momentum > 350 /\ state.persistence > 800

\* One collection task for each reason.
Modality == [pirs |-> "HUMINT", capability |-> "SIGINT", stale |-> "OSINT", confidence |-> "MULTI_SOURCE"]
Modalities == {"HUMINT", "SIGINT", "OSINT", "MULTI_SOURCE"}

GateVerdict(state) ==
    LET reasons == HardReasons(state)
    IN  [withheld |-> reasons # {},
         decision |-> IF reasons # {} THEN "WITHHELD"
                      ELSE IF TrendEscalation(state) /\ state.proposed = "LOW" THEN "ELEVATED"
                      ELSE state.proposed,
         collection_tasks |-> {Modality[r] : r \in reasons},
         mandatory_review |-> state.black_swan]

----------------------------------------------------------------------------
(* Guardrails *)

Rules == {"high_risk_requires_grounding", "risk_band_sre_contradiction", "legal_firewall_visibility",
          "z3_sre_threat_contradiction", "pydatalog_verification_contradiction"}
HardRules == Rules \ {"legal_firewall_visibility"}

\* threat_map, which has no MODERATE.
ThreatValue(level) ==
    CASE level = "LOW" -> 1 [] level = "ELEVATED" -> 2 [] level = "HIGH" -> 3
      [] level = "CRITICAL" -> 4 [] OTHER -> 0

Ungrounded(level, v) == level \in {"HIGH", "CRITICAL"} /\ v < 500

\* run_symbolic_guardrails
Violations(level, v, sre, rejected, briefed) ==
    {r \in Rules :
       \/ r = "high_risk_requires_grounding" /\ Ungrounded(level, v)
       \/ r = "risk_band_sre_contradiction" /\ level = "LOW" /\ sre >= 650
       \/ r = "legal_firewall_visibility" /\ rejected /\ ~briefed
       \/ r = "z3_sre_threat_contradiction" /\ "z3" \in Solvers /\ sre > 800 /\ ThreatValue(level) < 3
       \/ r = "pydatalog_verification_contradiction" /\ "pyDatalog" \in Solvers /\ Ungrounded(level, v)}

\* enforce_safety: the families of wording it looks for.
HardWording == {"covert", "deception", "unlawful"}
SoftWording == {"certainty", "unanimity"}
Wording == HardWording \cup SoftWording \cup {"recommendation"}

SafetyReport(scanned, dossier, level, v, evidence) ==
    [blocked |-> scanned \cap HardWording,
     warnings |-> (scanned \cap SoftWording)
                    \cup {w \in {"low_confidence_threat", "separation"} :
                            \/ w = "low_confidence_threat" /\ Ungrounded(level, v)
                            \/ w = "separation" /\ "recommendation" \in dossier /\ ~evidence}]
Warnings == SoftWording \cup {"low_confidence_threat", "separation"}

----------------------------------------------------------------------------
\* _build_recommendations of the strategic narrative
Advices == {"override", "review", "monitor"}
Advice(status) ==
    IF status = "HUMAN_OVERRIDE_REQUIRED" THEN "override"
    ELSE IF status = "HUMAN_REVIEW" THEN "review"
    ELSE "monitor"
=============================================================================
