------------------------------- MODULE Metrics -------------------------------
(***************************************************************************)
(* The statistics of backtesting: multiclass_metrics and the aggregate of  *)
(* evaluator.py, calibration_metrics, the engine, study and calibration    *)
(* loop of deliberation/reasoning, and the latency dashboard.              *)
(*                                                                         *)
(* Probabilities are percents and a mean is kept as its sum, the count     *)
(* beside it, so that nothing is rounded; squares are in ten-thousandths.  *)
(* In floats a probability of exactly 30, 60 or 70 percent falls one bin   *)
(* lower than Bin says: the inputs avoid those three.                      *)
(***************************************************************************)
EXTENDS Integers, FiniteSets, SequencesExt

\* Over a sequence, or over a part of one, which keeps the places of its elements.
SumOver(seq, Of(_)) == SumFunction([i \in DOMAIN seq |-> Of(seq[i])])
Count(seq, Test(_)) == Cardinality({i \in DOMAIN seq : Test(seq[i])})
Those(seq, Test(_)) == [i \in {j \in DOMAIN seq : Test(seq[j])} |-> seq[i]]
Square(n) == n * n
Distance(a, b) == IF a > b THEN a - b ELSE b - a
\* a/m < b/n for positive m and n.
Below(a, m, b, n) == a * n < b * m

-----------------------------------------------------------------------------
(***************************************************************************)
(* One scenario: a sequence of days, each with the posterior over the      *)
(* states (a state may be missing), the state called and the true one.     *)
(***************************************************************************)
States    == <<"PEACE", "TENSIONS", "ESCALATION", "CRISIS", "WAR">>
Escalated == {"ESCALATION", "CRISIS", "WAR"}
Position(state) == CHOOSE i \in DOMAIN States : States[i] = state

P(day, state)      == IF state \in DOMAIN day.belief THEN day.belief[state] ELSE 0
OneHot(day, state) == IF day.truth = state THEN 100 ELSE 0
Active(day)        == SumFunction([s \in Escalated |-> P(day, s)])
Happened(day)      == IF day.truth \in Escalated THEN 100 ELSE 0

MulticlassBrier(days) ==
    SumOver(days, LAMBDA d : SumOver(States, LAMBDA s : Square(P(d, s) - OneHot(d, s))))

PerStateBrier(days) ==
    [s \in ToSet(States) |-> SumOver(days, LAMBDA d : Square(P(d, s) - OneHot(d, s)))]

BinaryBrier(days) == SumOver(days, LAMBDA d : Square(Active(d) - Happened(d)))

\* The days that have a day one horizon later.
Ahead(days, horizon) == 1..Len(days) - horizon

Top1(days, horizon) ==
    Cardinality({i \in Ahead(days, horizon) : days[i].called = days[i + horizon].truth})

\* The two most probable states; sorted() is stable, and the posterior is in order.
Likeliest(day) ==
    {s \in DOMAIN day.belief :
        Cardinality({t \in DOMAIN day.belief :
            \/ day.belief[t] > day.belief[s]
            \/ day.belief[t] = day.belief[s] /\ Position(t) < Position(s)}) < 2}

Top2(days, horizon) ==
    Cardinality({i \in Ahead(days, horizon) : days[i + horizon].truth \in Likeliest(days[i])})

\* The first day on which the model warns, and the first of the escalation.
Warned(days)  == SelectInSeq(days, LAMBDA d : Active(d) > 50)
Started(days) == SelectInSeq(days, LAMBDA d : d.truth \in Escalated)
LeadTime(days) ==
    IF Warned(days) = 0 \/ Started(days) = 0 THEN {}
    ELSE {days[Started(days)].day - days[Warned(days)].day}

FalsePositives(days) == Count(days, LAMBDA d : Active(d) > 50 /\ d.truth \notin Escalated)

MapHits(days) == Count(days, LAMBDA d : d.called = d.truth)

Confusion(days) ==
    [p \in ToSet(States) |-> [a \in ToSet(States) |->
        Count(days, LAMBDA d : d.called = p /\ d.truth = a)]]

\* n squared times the variance of P(active).
Volatility(days) ==
    Len(days) * SumOver(days, LAMBDA d : Square(Active(d))) - Square(SumOver(days, Active))

-----------------------------------------------------------------------------
(***************************************************************************)
(* Bins.  multiclass_metrics divides and caps, calibration_metrics         *)
(* compares with the ends and closes the last bin, the calibration loop    *)
(* compares and leaves it open.                                            *)
(***************************************************************************)
\* Mutant: certainty falls off the end.
BinUncapped(p) == p \div 10

Bin(p) == IF p >= 100 THEN 9 ELSE p \div 10

InBin(p, b) == 10 * b <= p /\ (p < 10 * (b + 1) \/ (b = 9 /\ p <= 100))

InFifth(p, b) == 20 * b <= p /\ p < 20 * (b + 1)

CurveCounts(days, state) == [b \in 0..9 |-> Count(days, LAMBDA d : Bin(P(d, state)) = b)]

\* What is predicted and what happened, bin by bin: n times the calibration error.
CalibrationError(days) ==
    LET Gap(b) == LET members == Those(days, LAMBDA d : Bin(Active(d)) = b)
                  IN Distance(SumOver(members, Happened), SumOver(members, Active))
    IN SumFunction([b \in 0..9 |-> Gap(b)])

\* A point is a forecast with its outcome.
Gaps(points) ==
    [b \in 0..9 |->
        LET members == Those(points, LAMBDA p : InBin(p.forecast, b))
        IN [count |-> Cardinality(DOMAIN members),
            gap   |-> Distance(SumOver(members, LAMBDA p : p.outcome),
                               SumOver(members, LAMBDA p : p.forecast))]]

Ece(points) == SumFunction([b \in 0..9 |-> Gaps(points)[b].gap])

\* The bin with the largest mean gap.
Mce(points) ==
    LET gaps == Gaps(points)
        filled == {b \in 0..9 : gaps[b].count > 0}
    IN {gaps[b] : b \in {c \in filled : \A d \in filled :
            ~Below(gaps[c].gap, gaps[c].count, gaps[d].gap, gaps[d].count)}}

Brier(points) == SumOver(points, LAMBDA p : Square(p.forecast - p.outcome))

Sharpness(points) ==
    Len(points) * SumOver(points, LAMBDA p : Square(p.forecast))
        - Square(SumOver(points, LAMBDA p : p.forecast))

Overconfidence(points) ==
    SumOver(points, LAMBDA p : IF p.forecast > p.outcome THEN p.forecast - p.outcome ELSE 0)

\* A report on no points keeps the defaults, among them a score of 0.
CalibrationReport(points) ==
    [samples |-> Len(points), brier |-> Brier(points), ece |-> Ece(points),
     mce |-> Mce(points), sharpness |-> Sharpness(points),
     overconfidence |-> Overconfidence(points)]

CalibrationGrade(report) ==
    LET n == IF report.samples = 0 THEN 1 ELSE report.samples
    IN CASE report.brier < 1500 * n -> "GOOD"
         [] report.brier >= 1500 * n /\ report.brier < 2500 * n -> "ADEQUATE"
         [] OTHER -> "POOR"

-----------------------------------------------------------------------------
(***************************************************************************)
(* Scenarios together.  A replay fills neither the posterior nor the true  *)
(* state, and calls the threat level; its days carry no probability.       *)
(***************************************************************************)
Replayed(levels) ==
    [i \in DOMAIN levels |->
        [day |-> i, belief |-> <<>>, truth |-> "LOW", called |-> levels[i]]]

\* What compute_all_metrics keeps of a scenario, empty for one without a day.
ScenarioMetrics(days, horizon) ==
    IF days = <<>> THEN <<>>
    ELSE [days |-> Len(days), brier |-> MulticlassBrier(days), states |-> PerStateBrier(days),
          top1 |-> Top1(days, horizon), top2 |-> Top2(days, horizon), lead |-> LeadTime(days),
          curves |-> [s \in ToSet(States) |-> CurveCounts(days, s)], hits |-> MapHits(days),
          confusion |-> Confusion(days), binary |-> BinaryBrier(days),
          volatility |-> Volatility(days), alarms |-> FalsePositives(days),
          ece |-> CalibrationError(days)]

\* Scenarios without a day are errors and left out.
Evaluated(scenarios) == Those(scenarios, LAMBDA days : days # <<>>)

\* avg < limit (in ten-thousandths) for the average of the means of the scenarios.
Product(scenarios) == FoldFunction(LAMBDA days, prod : Len(days) * prod, 1, scenarios)
MeansSum(scenarios, Of(_)) ==
    SumOver(scenarios, LAMBDA days : (Of(days) * Product(scenarios)) \div Len(days))
AverageBelow(scenarios, Of(_), limit) ==
    MeansSum(scenarios, Of) < limit * Cardinality(DOMAIN scenarios) * Product(scenarios)

Tier(scenarios) ==
    CASE AverageBelow(scenarios, MulticlassBrier, 3000) -> "EXCELLENT"
      [] ~AverageBelow(scenarios, MulticlassBrier, 3000)
         /\ AverageBelow(scenarios, MulticlassBrier, 6000) -> "ACCEPTABLE"
      [] OTHER -> "MISCALIBRATED"

MostlyRight(scenarios) ==
    10 * MeansSum(scenarios, MapHits) > 6 * Cardinality(DOMAIN scenarios) * Product(scenarios)

Verdict(all) ==
    LET valid == Evaluated(all) IN
    CASE valid = <<>> -> "NO_DATA"
      [] valid # <<>> /\ Tier(valid) = "EXCELLENT" /\ MostlyRight(valid) -> "PASS"
      [] valid # <<>> /\ Tier(valid) = "ACCEPTABLE" -> "PARTIAL"
      [] OTHER -> "FAIL"

-----------------------------------------------------------------------------
(***************************************************************************)
(* The study of run_backtest.py.  A case has a true probability and an     *)
(* outcome; a forecast predicts for a case, in hundredths of a percent.    *)
(***************************************************************************)
CaseBrier(forecasts, cases) ==
    SumOver(forecasts, LAMBDA f : Square(f.predicted - 100 * cases[f.case].actual))

CalibrationDrift(forecasts, cases) ==
    SumOver(forecasts, LAMBDA f : Distance(f.predicted, 100 * cases[f.case].actual))

Conflict == {"LIMITED_CONFLICT", "ACTIVE_CONFLICT", "FULL_WAR"}

Outcomes(forecasts, cases, positive, conflict) ==
    Count(forecasts, LAMBDA f :
        (f.predicted >= 5000) = positive /\ (cases[f.case].outcome \in Conflict) = conflict)

\* What engine.compute_metrics keeps; precision, recall and false alarms are ratios of it.
EngineMetrics(forecasts, cases) ==
    [n      |-> Len(forecasts),
     brier  |-> CaseBrier(forecasts, cases),
     drift  |-> CalibrationDrift(forecasts, cases),
     hits   |-> Outcomes(forecasts, cases, TRUE, TRUE),
     alarms |-> Outcomes(forecasts, cases, TRUE, FALSE),
     misses |-> Outcomes(forecasts, cases, FALSE, TRUE)]

\* AblationStudy.summary and its conclusion, two thresholds apart.
StudyVerdict(config, delta) ==
    IF config = "FULL" THEN "BASELINE" ELSE IF delta > 0 THEN "HELPS" ELSE "NEUTRAL/HURTS"
Improves(delta, n) == delta > 2 * Square(1000) * n

\* The calibration loop: an agent's forecasts so far and its error.
Calibrated(agent, belief, actual) ==
    [forecasts |-> agent.forecasts + 1, error |-> agent.error + Distance(belief, actual)]

-----------------------------------------------------------------------------
(***************************************************************************)
(* Latency: the steps of a trace, each with its layer and when it was      *)
(* recorded.  A step lasts until the next one, the last for no time.       *)
(***************************************************************************)
Layers == <<"Layer 0", "Layer 1", "Layer 2", "Layer 3", "Layer 4", "Layer 5", "Layer 6",
            "Layer 7", "Unknown">>

Durations(steps) ==
    [i \in DOMAIN steps |->
        IF i < Len(steps) THEN steps[i + 1].at - steps[i].at
        ELSE IF Len(steps) = 1 THEN steps[i].at ELSE 0]

LayerTotal(steps, layer) ==
    SumFunction([i \in {j \in DOMAIN steps : steps[j].layer = layer} |-> Durations(steps)[i]])

TotalDuration(steps) == Last(steps).at

\* max() keeps the first of equals, in the order of the layers.
Bottleneck(steps) ==
    LET present == {l \in DOMAIN Layers : \E i \in DOMAIN steps : steps[i].layer = Layers[l]}
        longest == {l \in present : \A m \in present :
                        LayerTotal(steps, Layers[m]) <= LayerTotal(steps, Layers[l])}
    IN Layers[Min(longest)]

\* sorted(d)[int(len(d) * q)], kept inside the list; q in percent.  It has at most that
\* many smaller ones, and with its equals more.
Percentile(durations, q) ==
    LET n == Len(durations)
        place == IF (n * q) \div 100 < n THEN (n * q) \div 100 ELSE n - 1
    IN CHOOSE d \in ToSet(durations) : /\ Count(durations, LAMBDA e : e < d) <= place
                                      /\ Count(durations, LAMBDA e : e <= d) > place
=============================================================================
