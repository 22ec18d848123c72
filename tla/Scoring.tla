------------------------------- MODULE Scoring -------------------------------
(***************************************************************************)
(* From the feeds to an escalation score: signal extraction, belief        *)
(* accumulation, temporal memory, the conflict state model and the fuzzy   *)
(* risk engine (engines/sre.py), in the order execute() calls them.        *)
(*                                                                         *)
(* Intensities, confidences and supports are percents, every product is    *)
(* counted in ten-thousandths (Unit) and cut, where the code rounds to     *)
(* four decimals.  A signal keeps what the engines read; its entity and    *)
(* target are one event.  reliability_score is always the default 0.5, so  *)
(* the engine's table of source reliabilities is never consulted.          *)
(***************************************************************************)
EXTENDS Integers, Feeds

CONSTANTS
    Reports,      \* the signals the model may extract from what the feeds bring
    MaxReports,   \* bound: signals extracted from one collection
    Answers,      \* the signals one RFI, or the query itself, may give
    MaxAnswers,   \* bound: RFI answers taken in
    Pasts         \* the belief histories on file when the assessment starts

Unit == 10000

\* A signal of the extraction, with what the engines read of it.
Report(action, event, source, intensity, confidence, recency) ==
    [action |-> action, event |-> event, source |-> source,
     intensity |-> intensity, confidence |-> confidence, recency |-> recency]

Mul(a, b) == (a * b) \div Unit
AtMost(cap, n) == IF n > cap THEN cap ELSE n
AtLeast(floor, n) == IF n < floor THEN floor ELSE n
Total(f) == FoldFunction(LAMBDA n, acc : n + acc, 0, f)

\* The signal codes, in ontology order, with the domain weights (in percent) of
\* capability, intent, stability and cost and the ends of their membership.
Weighed(code, c, i, s, k, low, high) ==
    [code |-> code, low |-> low, high |-> high,
     weight |-> [capability |-> c, intent |-> i, stability |-> s, cost |-> k]]

Known == <<
    Weighed("MIL_MOBILIZATION", 95, 45, 15, 10, 30, 82),
    Weighed("LOGISTICS_PREP", 82, 35, 10, 12, 25, 76),
    Weighed("HOSTILITY", 35, 95, 35, 10, 22, 72),
    Weighed("SANCTIONS", 5, 35, 20, 95, 25, 75),
    Weighed("NEGOTIATION", 0, -30, -35, -10, 20, 70),
    Weighed("INSTABILITY", 5, 15, 95, 35, 20, 70),
    Weighed("EXERCISES", 62, 22, 10, 8, 15, 45),
    Weighed("CYBER_PRESSURE", 35, 70, 35, 20, 20, 72),
    Weighed("DIPLOMATIC_BREAKDOWN", 5, 72, 28, 50, 25, 75) >>

\* Codes the ontology does not know are scored too, with weights of their own.
Unknown == <<"LEGAL_DISPUTE", "DIPLOMATIC_COMMUNICATION", "TEST_ACTION">>
Ontology == Known \o [i \in 1..Len(Unknown) |-> Weighed(Unknown[i], 15, 15, 15, 15, 25, 75)]

\* Which known codes an action mentions, by name or alias; the domains the
\* conflict model finds in it.
Vocabulary == [
    SIG_MIL_MOBILIZATION         |-> [mentions |-> {"MIL_MOBILIZATION"}, domains |-> {"capability"}],
    SIG_FUEL_SUPPLY              |-> [mentions |-> {"LOGISTICS_PREP"}, domains |-> {}],
    SIG_MIL_ESCALATION           |-> [mentions |-> {"HOSTILITY"}, domains |-> {"capability", "intent"}],
    SIG_ECONOMIC_SANCTIONS       |-> [mentions |-> {"SANCTIONS"}, domains |-> {"cost"}],
    SIG_PEACE_TALKS              |-> [mentions |-> {"NEGOTIATION"}, domains |-> {}],
    SIG_DEESCALATION             |-> [mentions |-> {"HOSTILITY", "NEGOTIATION"}, domains |-> {"intent"}],
    SIG_CIVIL_UNREST             |-> [mentions |-> {"INSTABILITY"}, domains |-> {"stability"}],
    SIG_NAVAL_DRILL              |-> [mentions |-> {"EXERCISES"}, domains |-> {}],
    SIG_CYBER_ATTACK             |-> [mentions |-> {"HOSTILITY", "CYBER_PRESSURE"}, domains |-> {}],
    SIG_LEGAL_DISPUTE            |-> [mentions |-> {}, domains |-> {}],
    SIG_DIPLOMATIC_COMMUNICATION |-> [mentions |-> {}, domains |-> {}],
    TEST_ACTION                  |-> [mentions |-> {}, domains |-> {}]]

\* A snapshot of belief_history.jsonl: the support of some actions.
Snapshot(held) == DOMAIN held \subseteq DOMAIN Vocabulary /\ held \in [DOMAIN held -> 0..100]

\* A source's confidence comes from a table of percents and a recency is clipped; what
\* intensity the model reads is not, until the engines compare it.
ASSUME ScoringAssumption ==
    /\ \A r \in Reports \cup Answers :
          /\ r = Report(r.action, r.event, r.source, r.intensity, r.confidence, r.recency)
          /\ r.action \in DOMAIN Vocabulary
          /\ r.intensity \in Nat /\ r.confidence \in 0..100 /\ r.recency \in 0..Unit
    /\ \A past \in Pasts : past \in Seq({held \in {past[i] : i \in DOMAIN past} : Snapshot(held)})

\* What remains of an action the ontology does not know.
Token(action) ==
    CASE action = "SIG_LEGAL_DISPUTE"            -> "LEGAL_DISPUTE"
      [] action = "SIG_DIPLOMATIC_COMMUNICATION" -> "DIPLOMATIC_COMMUNICATION"
      [] OTHER                                   -> action

\* canonicalize_signal_token: the first code of the ontology that it mentions.
Canonical(action) ==
    LET hits == SelectSeq(Known, LAMBDA row : row.code \in Vocabulary[action].mentions)
    IN IF hits = <<>> THEN Token(action) ELSE hits[1].code

\* A code, not an action, is what the legal firewall looks at: the sources and
\* domains that reach it carry none of its tokens but "legal", with this code.
Firewalled(code) == code = "LEGAL_DISPUTE"

\* source_ref before its first underscore; source_ref as a known kind of source.
Outlet(ref) ==
    CASE ref = "RESILIENT_NEWS_SURFER" -> "RESILIENT"
      [] ref = "GDELT_V2"              -> "GDELT"
      [] OTHER                         -> "OSINT"
SourceType(ref) ==
    CASE ref = "RESILIENT_NEWS_SURFER"       -> "NEWS"
      [] ref = "GDELT_V2"                    -> "GDELT"
      [] ref \in {"rfi-query", "rfi-extract"} -> "RFI"
      [] OTHER                               -> ref

-----------------------------------------------------------------------------
\* Mutant: a mirrored report replaces what it repeats.
AbsorbNewest(signals, report) ==
    LET mirrored(i) == signals[i].action = report.action /\ signals[i].event = report.event
    IN IF \E i \in DOMAIN signals : mirrored(i)
       THEN [i \in DOMAIN signals |-> IF mirrored(i) THEN report ELSE signals[i]]
       ELSE Append(signals, report)

\* Mirrored reports are one signal: the first one's source, a little more confidence.
Absorb(signals, report) ==
    LET mirrored(i) == signals[i].action = report.action /\ signals[i].event = report.event
    IN IF \E i \in DOMAIN signals : mirrored(i)
       THEN [i \in DOMAIN signals |->
               IF mirrored(i)
               THEN [signals[i] EXCEPT !.confidence = AtMost(100, @ + 5),
                                       !.intensity = AtLeast(@, report.intensity)]
               ELSE signals[i]]
       ELSE Append(signals, report)

Extracted(reports) == FoldLeft(Absorb, <<>>, reports)

\* With FORCE_MINISTER_HEURISTIC=1 any observation gives the same signal.
TestSignal == Report("TEST_ACTION", "test", "test", 50, 80, Unit)

Group(signals, Of(_)) == {signals[i] : i \in {j \in DOMAIN signals : Of(signals[j])}}
Highest(S) == Max(S \cup {0})

\* belief_accumulator.evaluate: one belief per action with support enough.
Support(signals, action) ==
    LET group == Group(signals, LAMBDA s : s.action = action)
        outlets == Cardinality({Outlet(s.source) : s \in group})
    IN AtMost(100, Highest({s.confidence : s \in group}) + AtMost(20, 10 * (outlets - 1)))

Beliefs(signals) ==
    LET actions == {signals[i].action : i \in DOMAIN signals}
    IN [a \in {b \in actions : Support(signals, b) >= 35} |-> Support(signals, a)]

\* record_snapshot: nothing is written when there is no belief.
Recorded(past, beliefs) == IF DOMAIN beliefs = {} THEN past ELSE Append(past, beliefs)

\* compute_trends reads the last ten snapshots, this assessment's among them,
\* and counts the current support once more.
Earlier(past, action) ==
    LET window == SubSeq(past, AtLeast(1, Len(past) - 9), Len(past))
    IN [i \in DOMAIN window |-> IF action \in DOMAIN window[i] THEN window[i][action] ELSE 0]

\* The slope of n scores, by n cubed less n; the variance of m, by m and by m less one.
Slope(scores, n) == 12 * Total([i \in 1..n |-> (2 * i - n - 1) * scores[i]])
Deviation(scores, m) ==
    m * Total([i \in 1..m |-> scores[i] * scores[i]]) - Total(scores) * Total(scores)

Trend(past, action, support) ==
    LET earlier == Earlier(past, action)
        m == Len(earlier)
        n == m + 1
        deviation == Deviation(earlier, m)
        above == m * support - Total(earlier)
    IN [accelerating |-> n >= 4 /\ Slope(Append(earlier, support), n) > 15 * n * (n * n - 1),
        spike |-> /\ n >= 4
                  /\ deviation > 0 /\ above > 0
                  /\ above * above * (m - 1) > 4 * m * deviation]

Trends(past, beliefs) == [a \in DOMAIN beliefs |-> Trend(past, a, beliefs[a])]

-----------------------------------------------------------------------------
Domains == {"capability", "intent", "stability", "cost"}
Share == [capability |-> 35, intent |-> 30, stability |-> 20, cost |-> 15]

TrendBonus(trends) ==
    LET spikes == Cardinality({a \in DOMAIN trends : trends[a].spike})
        rises == Cardinality({a \in DOMAIN trends : trends[a].accelerating})
    IN AtMost(2000, 500 * rises + 800 * spikes) + AtMost(1500, 500 * spikes)

\* Domain scores, the bonus of the trends, and 0.85 of it for a low capability.
Index(domain, trends) ==
    LET base == Total([d \in Domains |-> Share[d] * domain[d]]) \div 100 + TrendBonus(trends)
    IN IF domain["capability"] < 3000 THEN (base * 85) \div 100 ELSE base

\* conflict_state_model: the strongest belief of a domain, a fifth more.
ConflictDomain(beliefs, d) ==
    AtMost(Unit, 120 * Highest({beliefs[a] : a \in {b \in DOMAIN beliefs :
                                                     d \in Vocabulary[b].domains}}))

EscalationIndex(beliefs, trends) ==
    IF DOMAIN beliefs = {} THEN 0
    ELSE LET triggered == "SIG_MIL_MOBILIZATION" \in DOMAIN beliefs
                            /\ beliefs["SIG_MIL_MOBILIZATION"] > 60
             index == Index([d \in Domains |-> ConflictDomain(beliefs, d)], trends)
         IN AtMost(Unit, index + (IF triggered THEN 1000 ELSE 0))

-----------------------------------------------------------------------------
Rising(x, low, high) ==
    IF x <= low THEN 0 ELSE IF x >= high THEN Unit ELSE ((x - low) * Unit) \div (high - low)

Trapezoid(x, a, b, c, d) ==
    IF x <= a \/ x >= d THEN 0
    ELSE IF x < b THEN ((x - a) * Unit) \div (b - a)
    ELSE IF x <= c THEN Unit
    ELSE ((d - x) * Unit) \div (d - c)

\* An exercise that is too intense is no exercise any more.
Membership(row, intensity) ==
    IF row.code = "EXERCISES" THEN Trapezoid(intensity, 15, 45, 85, 100)
    ELSE Rising(intensity, row.low, row.high)

ObservedSignal(membership, confidence) == [membership |-> membership, confidence |-> confidence]

\* The belief in one code, and its observed signal.  The beliefs accumulated before
\* are of the signals' own codes: evaluate() has none to add for them.
Projected(signals, row) ==
    LET group == Group(signals, LAMBDA s : Canonical(s.action) = row.code)
        types == Cardinality({SourceType(s.source) : s \in group})
        support == AtMost(100, Highest({s.confidence : s \in group}) + AtMost(20, 8 * (types - 1)))
        membership == Membership(row, Highest({s.intensity : s \in group}))
        recency == Highest({s.recency : s \in group})
    IN ObservedSignal(membership,
                      IF group = {} THEN 0
                      ELSE (Mul(Mul(membership, Unit \div 2), recency) * support) \div 100)

\* Mutant: legal material is scored like the rest.
EligibleAll(read) == [i \in DOMAIN Ontology |-> Projected(read, Ontology[i])]

\* The projections of the ontology's codes, the firewalled ones silenced.
Eligible(signals) ==
    [i \in DOMAIN Ontology |->
       IF Firewalled(Ontology[i].code) THEN ObservedSignal(0, 0)
       ELSE Projected(signals, Ontology[i])]

FuzzyOr(values) == Unit - FoldLeft(LAMBDA acc, v : Mul(acc, Unit - v), Unit, values)

\* compute_domain_fusion: a negative weight counts 0.65, and takes off 0.35 at most.
Fused(projected, d) ==
    LET value(i) == (projected[i].confidence * Ontology[i].weight[d]) \div 100
        up == FuzzyOr([i \in DOMAIN Ontology |-> AtLeast(0, value(i))])
        down == FuzzyOr([i \in DOMAIN Ontology |->
                           (AtLeast(0, (projected[i].confidence * (0 - Ontology[i].weight[d])) \div 100)
                              * 65) \div 100])
    IN AtLeast(0, up - AtMost(3500, down))

\* run_fuzzy_sre.  active_conflicts is never set, so there is no conflict floor;
\* confidence_decay is carried along and never applied.
RiskScore(signals, trends) ==
    LET projected == Eligible(signals)
        triggers(i, membership, confidence) ==
            projected[i].membership >= membership /\ projected[i].confidence >= confidence
    IN AtMost(Unit, Index([d \in Domains |-> Fused(projected, d)], trends)
                      + (IF triggers(1, 6000, 2500) THEN 1000 ELSE 0)
                      + (IF triggers(2, 5500, 2200) THEN 700 ELSE 0))

-----------------------------------------------------------------------------
VARIABLES
    step,      \* what execute() does next
    forced,    \* FORCE_MINISTER_HEURISTIC
    observed,  \* what extraction read in the feeds, in order
    signals,   \* state_context.current_signals
    beliefs,   \* state_context.beliefs: the support of each action
    history,   \* belief_history.jsonl
    trends,    \* state_context.temporal_indicators
    escalation,\* state_context.escalation
    score      \* sre_escalation_score

context == <<observed, signals, beliefs, history, trends, escalation, score>>
scoringVars == <<step, forced, context>>

ScoringInit ==
    /\ step = "collect"
    /\ forced \in BOOLEAN
    /\ history \in Pasts
    /\ observed = <<>> /\ signals = <<>>
    /\ beliefs = <<>> /\ trends = <<>>
    /\ escalation = 0 /\ score = 0

\* What the signals of a collection may be: each has the source of an observation.
ExtractedFrom(collection, reports) ==
    \A i \in DOMAIN reports : \E o \in collection : o.source = reports[i].source

\* The feeds brought something to extract signals from.
Extract ==
    /\ step = "collect"
    /\ \E reports \in SeqOf(Reports, MaxReports) :
         /\ reports # <<>>
         /\ \E collection \in Collections : ExtractedFrom(collection, reports)
         /\ observed' = reports
         /\ signals' = IF forced THEN <<TestSignal>> ELSE Extracted(reports)
    /\ step' = "build"
    /\ UNCHANGED <<forced, beliefs, history, trends, escalation, score>>

\* No signal from the feeds: the query's own text is read as a report.
Seed ==
    /\ step = "collect"
    /\ \E answer \in Answers :
         /\ forced => answer.source = "rfi-extract"
         /\ signals' = <<answer>>
    /\ step' = "build"
    /\ UNCHANGED <<forced, observed, beliefs, history, trends, escalation, score>>

\* No signal from the feeds, and a blank query.
SeedNothing ==
    /\ step = "collect"
    /\ step' = "build"
    /\ UNCHANGED <<forced, context>>

Build ==
    /\ step = "build"
    /\ beliefs' = Beliefs(signals)
    /\ history' = Recorded(history, beliefs')
    /\ trends' = Trends(history', beliefs')
    /\ escalation' = EscalationIndex(beliefs', trends')
    /\ step' = "search"
    /\ UNCHANGED <<forced, observed, signals, score>>

\* An RFI's signals are appended; beliefs and trends stay what they were.
TakeAnswer ==
    /\ step = "search"
    /\ Len(signals) < MaxReports + MaxAnswers
    /\ \E answer \in Answers :
         /\ forced => answer.source = "rfi-extract"
         /\ signals' = Append(signals, answer)
    /\ UNCHANGED <<step, forced, observed, beliefs, history, trends, escalation, score>>

Score ==
    /\ step = "search"
    /\ score' = RiskScore(signals, trends)
    /\ step' = "scored"
    /\ UNCHANGED <<forced, observed, signals, beliefs, history, trends, escalation>>

ScoringNext == Extract \/ Seed \/ SeedNothing \/ Build \/ TakeAnswer \/ Score

ScoringSpec == ScoringInit /\ [][ScoringNext]_scoringVars

-----------------------------------------------------------------------------
\* The same assessment, had the feeds brought one report more.
With(report) ==
    LET read == Extracted(Append(observed, report))
        held == Beliefs(read)
        past == IF DOMAIN beliefs = {} THEN history ELSE Front(history)
    IN [signals |-> read \o SubSeq(signals, Len(Extracted(observed)) + 1, Len(signals)),
        beliefs |-> held,
        trends  |-> Trends(Recorded(past, held), held)]

Assessed == step = "scored" /\ ~forced /\ observed # <<>>

\* One more report, mirrored or not, from whatever source and of whatever age,
\* never calms an assessment, unless it is of talks or of exercises: through
\* merging, beliefs, trends, domain fusion and the capability floor.
MoreEvidenceNeverCalms ==
    Assessed => \A report \in Reports :
        LET more == With(report)
        IN Canonical(report.action) \notin {"NEGOTIATION", "EXERCISES"} =>
              /\ RiskScore(more.signals, more.trends) >= score
              /\ EscalationIndex(more.beliefs, more.trends) >= escalation

\* Legal material reaches the risk score through the trends of its belief and in
\* no other way, mirrored or not: with the trends as they were the score stands.
LegalMovesTrendsOnly ==
    Assessed => \A report \in Reports :
        Firewalled(Canonical(report.action)) => RiskScore(With(report).signals, trends) = score
=============================================================================
