------------------------------ MODULE Groupthink ------------------------------
(***************************************************************************)
(* The groupthink risk of a debate.  Scores are in thousandths, cut.       *)
(***************************************************************************)
EXTENDS Integers, FiniteSets, FiniteSetsExt

LOCAL Share(part, whole) == IF whole = 0 THEN 0 ELSE (1000 * part) \div whole

\* compute_agreement_score, of the state each agent believes in
AgreementScore(state) ==
    LET supporters(s) == Cardinality({a \in DOMAIN state : state[a] = s})
    IN Share(Max({0} \cup {supporters(state[a]) : a \in DOMAIN state}), Cardinality(DOMAIN state))

\* compute_evidence_diversity, of the evidence each hypothesis cites
LOCAL CitationCount(cited) == MapThenSumSet(LAMBDA h : Cardinality(cited[h]), DOMAIN cited)
EvidenceDiversity(cited) ==
    Share(Cardinality(UNION {cited[h] : h \in DOMAIN cited}), CitationCount(cited))

\* compute_source_diversity: only what is in the evidence memory has a source.
SourceDiversity(cited, source) ==
    LET known == [h \in DOMAIN cited |-> cited[h] \cap DOMAIN source]
    IN Share(Cardinality({source[e] : e \in UNION {known[h] : h \in DOMAIN known}}),
             CitationCount(known))

\* compute_contrarian_strength
ContrarianStrength(challenges, rebuttals) ==
    Share(Max({0, challenges - rebuttals}), challenges)

\* compute_probability_spread: twice the standard deviation, of percentages
ProbabilitySpread(prob) ==
    LET n == Cardinality(DOMAIN prob)
        mean == MapThenSumSet(LAMBDA a : prob[a], DOMAIN prob) \div n
        variance == MapThenSumSet(LAMBDA a : (prob[a] - mean) * (prob[a] - mean), DOMAIN prob) \div n
        deviation == CHOOSE d \in 0..100 : d * d <= variance /\ variance < (d + 1) * (d + 1)
    IN IF n < 2 THEN 0 ELSE Min({20 * deviation, 1000})

\* compute_argument_diversity, of the mean likeness of two hypotheses' wording
ArgumentDiversity(hypotheses, likeness) == IF hypotheses < 2 THEN 1000 ELSE 1000 - likeness

\* evaluate(): in hundredths of the scores
GroupthinkRisk(agreement, evidence, source, argument, contrarian, spread) ==
    30 * agreement + 15 * (1000 - evidence) + 15 * (1000 - source)
    + 10 * (1000 - argument) + 15 * (1000 - contrarian) + 15 * (1000 - spread)

GroupthinkWarning(risk) == risk > 70000
=============================================================================
