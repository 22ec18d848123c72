------------------------------ MODULE Validation ------------------------------
(***************************************************************************)
(* The tools that validate the pipeline: run_validation_suite.py with its  *)
(* five phases, the benchmark harness on its own, the ablation study of    *)
(* run_backtest.py, the replay of scenarios with its evaluation, and the   *)
(* calibration loop.  One behaviour is one run of one tool; what execute() *)
(* answers, or that it raises, is a choice.                                *)
(***************************************************************************)
EXTENDS Metrics, Trajectories

CONSTANTS
    Crises,       \* the historical crises, a sequence of [truth, intensity]
    Answers,      \* what execute() may return: [threat, escalation, score, gate]
    Modules,      \* what the suite ablates, in order
    Queries,      \* how many questions are benchmarked
    Traces,       \* the traces that may lie on disk, sequences of [layer, at]
    Cases,        \* run_backtest's cases: [actual, outcome], a sequence
    Revisions,    \* what the agents may state in turn in a debate: agent to sequence
    Days, Levels, \* what a scenario's day, or a replayed one, may look like
    MaxDays, Horizon,
    ForecastIds, Predictions, Beliefs, Actuals, MaxForecasts,
    None

\* A day's posterior sums to one at most; a trace is written in the order of its steps.
ASSUME ValidationAssumption ==
    /\ None \notin Int
    /\ Crises \in Seq([truth : {"CRITICAL", "HIGH", "ELEVATED", "LOW"}, intensity : Nat])
    /\ \A trace \in Traces :
        /\ trace # <<>> /\ trace \in Seq([layer : ToSet(Layers), at : Nat])
        /\ \A i, j \in DOMAIN trace : i <= j => trace[i].at <= trace[j].at
    /\ Cases \in Seq([actual : 0..100, outcome : ToSet(ConflictStates)])
    /\ Revisions \subseteq [{"Security", "Diplomacy", "Economic", "Strategy"} -> Seq(0..100)]
    /\ \A day \in Days :
        /\ DOMAIN day = {"day", "belief", "truth", "called"}
        /\ {day.truth, day.called} \union DOMAIN day.belief \subseteq ToSet(States)
        /\ \A s \in DOMAIN day.belief : day.belief[s] \in Nat
        /\ SumFunction(day.belief) <= 100
    /\ Horizon \in Nat
    /\ Predictions \union Actuals \subseteq 0..100
    /\ \A beliefs \in Beliefs : \A a \in DOMAIN beliefs : beliefs[a] \in 0..100

VARIABLES
    tool,         \* the program that runs
    full,         \* --full, the pipeline with its models
    phase,        \* where the program is; "done" or "failed" at the end
    forced,       \* FORCE_MINISTER_HEURISTIC in the environment
    stubs,        \* the modules whose attribute is replaced
    found,        \* what the phase has gathered
    baseline,     \* the ablation's unablated answer, the study's FULL score
    report,       \* what each phase, or configuration, reports
    agents,       \* the calibration loop's agents
    ran,          \* history: the executions, with what they ran under
    strays        \* history: the modules whose ablated execution raised
vars == <<tool, full, phase, forced, stubs, found, baseline, report, agents, ran, strays>>

-----------------------------------------------------------------------------
(***************************************************************************)
(* The suite.  Phases 1 and 2 run in the mode asked for; the benchmark     *)
(* sets the mode in the environment, and nobody sets it back.              *)
(***************************************************************************)
\* execute() under the present conditions, on behalf of module m.
Execute(kind, m) ==
    ran' = ran \union {[kind |-> kind, module |-> m, forced |-> forced', stubs |-> stubs]}

Alarming == {"HIGH", "CRITICAL", "ELEVATED"}

Evaluation(crisis, answer) ==
    [crisis    |-> crisis,
     predicted |-> answer,
     correct   |-> answer.threat = crisis.truth,
     direction |-> \/ crisis.truth \in Alarming /\ answer.threat \in Alarming
                   \/ crisis.truth = "LOW" /\ answer.threat = "LOW",
     error     |-> Distance(answer.escalation, crisis.intensity)]

LevelProb(level) ==
    CASE level \in {"HIGH", "CRITICAL"} -> 100 [] level = "ELEVATED" -> 50 [] OTHER -> 0

BacktestReport(evaluations) ==
    [n         |-> Cardinality(DOMAIN evaluations),
     correct   |-> Count(evaluations, LAMBDA e : e.correct),
     direction |-> Count(evaluations, LAMBDA e : e.direction),
     brier     |-> SumOver(evaluations, LAMBDA e :
                       Square(LevelProb(e.predicted.threat) - LevelProb(e.crisis.truth))),
     error     |-> SumOver(evaluations, LAMBDA e : e.error),
     signed    |-> SumOver(evaluations, LAMBDA e : e.predicted.escalation - e.crisis.intensity)]

\* A crisis whose execution raises is left out of the averages.
BacktestCrisis ==
    /\ phase = "backtest" /\ Len(found) < Len(Crises)
    /\ \E outcome \in Answers \union {None} :
           found' = Append(found, IF outcome = None THEN None
                                  ELSE Evaluation(Crises[Len(found) + 1], outcome))
    /\ UNCHANGED <<tool, full, phase, forced, stubs, baseline, report, agents, strays>>
    /\ Execute("backtest", None)

EndBacktest ==
    /\ phase = "backtest" /\ Len(found) = Len(Crises)
    /\ report' = [report EXCEPT !.backtest =
                      BacktestReport(Those(found, LAMBDA e : e # None))]
    /\ phase' = "ablation" /\ found' = <<>>
    /\ UNCHANGED <<tool, full, forced, stubs, baseline, agents, ran, strays>>

\* Nothing catches a baseline that raises: the suite ends without its results.
AblationBaseline ==
    /\ phase = "ablation" /\ baseline = None
    /\ \/ \E answer \in Answers : baseline' = answer /\ UNCHANGED phase
       \/ phase' = "failed" /\ UNCHANGED baseline
    /\ UNCHANGED <<tool, full, forced, stubs, found, report, agents, strays>>
    /\ Execute("baseline", None)

AblationDelta(before, after) ==
    [threat |-> before.threat # after.threat,
     gate   |-> before.gate # after.gate,
     score  |-> after.score - before.score]

Impactful(delta) == delta.threat \/ delta.gate \/ Distance(delta.score, 0) > 10

\* Mutant: the stub stays.
RestoreNever(m) == stubs \union {m}

\* The stub is taken out after the execution, not in a finally.
Restore(m) == stubs

AblateModule ==
    /\ phase = "ablation" /\ baseline # None /\ Len(found) < Len(Modules)
    /\ LET m == Modules[Len(found) + 1] IN
       /\ \/ \E answer \in Answers :
                 /\ found' = Append(found, AblationDelta(baseline, answer))
                 /\ stubs' = Restore(m)
                 /\ UNCHANGED strays
          \/ /\ found' = Append(found, None)
             /\ stubs' = stubs \union {m}
             /\ strays' = strays \union {m}
       /\ ran' = ran \union {[kind |-> "ablation", module |-> m, forced |-> forced,
                              stubs |-> stubs \union {m}]}
    /\ UNCHANGED <<tool, full, phase, forced, baseline, report, agents>>

EndAblation ==
    /\ phase = "ablation" /\ Len(found) = Len(Modules)
    /\ report' = [report EXCEPT !.ablation =
           {Modules[i] : i \in {j \in DOMAIN found : found[j] # None /\ Impactful(found[j])}}]
    /\ phase' = "calibration" /\ found' = <<>> /\ baseline' = None
    /\ UNCHANGED <<tool, full, forced, stubs, agents, ran, strays>>

PointsFromBacktest(evaluations) ==
    [i \in DOMAIN evaluations |->
        [forecast |-> evaluations[i].predicted.escalation,
         outcome  |-> evaluations[i].crisis.intensity]]

\* The evaluations are not at hand any more: the analysis is given none.
Calibrate ==
    /\ phase = "calibration"
    /\ LET calibration == CalibrationReport(PointsFromBacktest(<<>>))
       IN report' = [report EXCEPT !.calibration =
                         [calibration |-> calibration, grade |-> CalibrationGrade(calibration)]]
    /\ phase' = "benchmark"
    /\ UNCHANGED <<tool, full, forced, stubs, found, baseline, agents, ran, strays>>

\* The suite skips the systems that cost money.
Systems == IF tool = "suite" THEN <<"heuristic">> ELSE <<"heuristic", "raw", "rag", "full">>

\* Both pipelines choose their mode; the other two are calls of the model.
BenchmarkRun ==
    /\ phase = "benchmark" /\ Len(found) < Queries * Len(Systems)
    /\ LET system == Systems[(Len(found) % Len(Systems)) + 1] IN
       /\ forced' = CASE system = "heuristic" -> TRUE
                      [] system = "full" -> FALSE
                      [] OTHER -> forced
       /\ \E threat \in {a.threat : a \in Answers} \union {"ERROR"} :
              found' = Append(found, [system |-> system, threat |-> threat])
       /\ IF system \in {"heuristic", "full"} THEN Execute(system, None) ELSE UNCHANGED ran
    /\ UNCHANGED <<tool, full, phase, stubs, baseline, report, agents, strays>>

BenchmarkReport(runs) ==
    [s \in ToSet(Systems) |->
        [n |-> Count(runs, LAMBDA r : r.system = s),
         threats |-> [t \in {a.threat : a \in Answers} |->
             Count(runs, LAMBDA r : r.system = s /\ r.threat = t)]]]

EndBenchmark ==
    /\ phase = "benchmark" /\ Len(found) = Queries * Len(Systems)
    /\ report' = [report EXCEPT !.benchmark = BenchmarkReport(found)]
    /\ phase' = IF tool = "suite" THEN "latency" ELSE "done"
    /\ found' = <<>>
    /\ UNCHANGED <<tool, full, forced, stubs, baseline, agents, ran, strays>>

\* The throughput divides by the mean duration: traces of runs that ended at once end the suite.
AnalyseLatency ==
    /\ phase = "latency"
    /\ \E traces \in SUBSET Traces :
           LET total == SumFunction([t \in traces |-> TotalDuration(t)]) IN
           IF traces # {} /\ total = 0
           THEN phase' = "failed" /\ UNCHANGED report
           ELSE /\ phase' = "done"
                /\ report' = [report EXCEPT !.latency =
                       [n |-> Cardinality(traces), total |-> total,
                        bottlenecks |-> {Bottleneck(t) : t \in traces}]]
    /\ UNCHANGED <<tool, full, forced, stubs, found, baseline, agents, ran, strays>>

SuiteStep ==
    \/ BacktestCrisis \/ EndBacktest \/ AblationBaseline \/ AblateModule \/ EndAblation
    \/ Calibrate \/ BenchmarkRun \/ EndBenchmark \/ AnalyseLatency

-----------------------------------------------------------------------------
(***************************************************************************)
(* The study of run_backtest.py: each configuration forecasts every case   *)
(* from what its agents stated in turn.                                    *)
(***************************************************************************)
Configs == <<"FULL", "NO_BAYESIAN", "NO_DEBATE", "NO_CONTRARIAN", "NO_TEMPORAL">>

\* Those whose beliefs are recorded; the Contrarian only attacks.
Voices(config) ==
    IF config = "NO_DEBATE" THEN {"Security"}
    ELSE {"Security", "Diplomacy", "Economic", "Strategy"}

Base(config, case) ==
    IF config = "NO_BAYESIAN" THEN 50
    ELSE CASE case.actual + 15 > 90 -> 90
           [] case.actual + 15 < 10 -> 10
           [] OTHER -> case.actual + 15

\* A case that led to a conflict asks for any of them, another one for its own state.
Asked(case) == IF case.outcome \in Conflict THEN Conflict ELSE {case.outcome}

\* Without a debate the one agent is asked once; whose model fails states nothing.
StatedUnder(config, stated) ==
    IF config = "NO_DEBATE" /\ stated # <<>> THEN <<stated[1]>> ELSE stated

\* The trajectory of every agent is recorded.
Forecast(config, case, stated) ==
    LET trajectories == IF config = "NO_TEMPORAL" THEN <<>>
                        ELSE [a \in Voices(config) |-> Recorded(StatedUnder(config, stated[a]))]
        projected == Projected(Base(config, case), trajectories, 7)
    IN [state |-> Dominant(projected), predicted |-> Share(projected, Asked(case))]

\* Nothing catches a case that raises: the study ends with it.
RunCase ==
    /\ tool = "study" /\ phase \in ToSet(Configs) /\ Len(found) < Len(Cases)
    /\ \/ /\ \E stated \in Revisions :
                 LET c == Len(found) + 1
                     f == Forecast(phase, Cases[c], stated)
                 IN found' = Append(found, [case |-> c, predicted |-> f.predicted,
                                            state |-> f.state])
          /\ UNCHANGED phase
       \/ phase' = "failed" /\ UNCHANGED found
    /\ UNCHANGED <<tool, full, forced, stubs, baseline, report, agents, ran, strays>>

\* run_config: the baseline is FULL's score, and without one there is no difference.
RunConfig ==
    /\ tool = "study" /\ phase \in ToSet(Configs) /\ Len(found) = Len(Cases)
    /\ LET metrics == EngineMetrics(found, Cases)
           next == SelectInSeq(Configs, LAMBDA c : c = phase) + 1
       IN /\ baseline' = IF phase = "FULL" THEN metrics.brier ELSE baseline
          /\ LET delta == IF baseline' = None THEN 0 ELSE metrics.brier - baseline'
             IN report' = [c \in DOMAIN report \union {phase} |->
                    IF c # phase THEN report[c]
                    ELSE [metrics |-> metrics, delta |-> delta,
                          verdict |-> StudyVerdict(phase, delta),
                          improves |-> phase # "FULL" /\ Improves(delta, metrics.n)]]
          /\ phase' = IF next \in DOMAIN Configs THEN Configs[next] ELSE "done"
          /\ found' = <<>>
    /\ UNCHANGED <<tool, full, forced, stubs, agents, ran, strays>>

-----------------------------------------------------------------------------
(***************************************************************************)
(* The calibration loop: forecasts are archived, outcomes come later, in   *)
(* any order and perhaps twice.                                            *)
(***************************************************************************)
ArchiveForecast ==
    /\ tool = "loop" /\ Len(found) < MaxForecasts
    /\ \E id \in ForecastIds, p \in Predictions, beliefs \in Beliefs :
           found' = Append(found, [id |-> id, predicted |-> p, beliefs |-> beliefs,
                                   actual |-> None])
    /\ UNCHANGED <<tool, full, phase, forced, stubs, baseline, report, agents, ran, strays>>

\* The first forecast of that name without an outcome, or 0.
Pending(id) == SelectInSeq(found, LAMBDA f : f.id = id /\ f.actual = None)

RecordOutcome ==
    /\ tool = "loop"
    /\ \E id \in ForecastIds, actual \in Actuals :
           LET i == Pending(id) IN
           /\ i # 0
           /\ found' = [found EXCEPT ![i].actual = actual]
           /\ agents' = [a \in DOMAIN found[i].beliefs \union DOMAIN agents |->
                 IF a \notin DOMAIN found[i].beliefs THEN agents[a]
                 ELSE Calibrated(IF a \in DOMAIN agents THEN agents[a]
                                 ELSE [forecasts |-> 0, error |-> 0],
                                 found[i].beliefs[a], actual)]
    /\ UNCHANGED <<tool, full, phase, forced, stubs, baseline, report, ran, strays>>

\* What compute_calibration_curve counts, fifth by fifth.
CurveOfFifths ==
    [b \in 0..4 |-> Count(found, LAMBDA f : f.actual # None /\ InFifth(f.predicted, b))]

-----------------------------------------------------------------------------
(***************************************************************************)
(* Scenarios: annotated by hand, or replayed through the state model.      *)
(***************************************************************************)
AddDay ==
    /\ tool = "replay" /\ phase \in {"scenario", "crisis"} /\ Len(found) < MaxDays
    /\ \/ phase = "scenario" /\ \E d \in Days :
              found' = Append(found, [d EXCEPT !.day = Len(found) + 1])
       \/ phase = "crisis" /\ \E level \in Levels : found' = Append(found, level)
    /\ UNCHANGED <<tool, full, phase, forced, stubs, baseline, report, agents, ran, strays>>

EndReplay ==
    /\ tool = "replay" /\ phase \in {"scenario", "crisis"}
    /\ LET days == IF phase = "crisis" THEN Replayed(found) ELSE found
       IN report' = [metrics |-> ScenarioMetrics(days, Horizon), verdict |-> Verdict(<<days>>)]
    /\ phase' = "done"
    /\ UNCHANGED <<tool, full, forced, stubs, found, baseline, agents, ran, strays>>

-----------------------------------------------------------------------------
Init ==
    /\ \/ /\ tool = "suite" /\ full \in BOOLEAN
          /\ phase \in {"backtest", "benchmark"}            \* --quick starts at the latter
          /\ report = [backtest |-> None, ablation |-> None, calibration |-> None,
                        benchmark |-> None, latency |-> None]
       \/ /\ tool = "benchmark" /\ full = FALSE /\ phase = "benchmark"
          /\ report = [benchmark |-> None]
       \/ /\ tool = "study" /\ full = FALSE /\ phase = Configs[1] /\ report = <<>>
       \/ /\ tool = "loop" /\ full = FALSE /\ phase = "loop" /\ report = <<>>
       \/ /\ tool = "replay" /\ full = FALSE /\ phase \in {"scenario", "crisis"}
          /\ report = <<>>
    /\ forced = ~full
    /\ stubs = {} /\ found = <<>> /\ baseline = None /\ agents = <<>>
    /\ ran = {} /\ strays = {}

Next == SuiteStep \/ RunCase \/ RunConfig \/ ArchiveForecast \/ RecordOutcome
            \/ AddDay \/ EndReplay

Spec == Init /\ [][Next]_vars

-----------------------------------------------------------------------------
(***************************************************************************)
(* Two ways to the same number give the same number.  Per state and over   *)
(* all states the Brier scores agree; every day lies in one bin of every   *)
(* curve; the confusion matrix has the hits on its diagonal; the two       *)
(* calibration errors, written in two modules with different bins, agree,  *)
(* and so do Brier, sharpness and volatility; a warning ahead of the       *)
(* escalation is a false alarm on its first day; and a called state that   *)
(* is the likeliest is among the two likeliest (multiclass_metrics.py,     *)
(* calibration_metrics.py).                                                *)
(***************************************************************************)
ScenarioAgrees(days) ==
    LET m == ScenarioMetrics(days, Horizon)
        points == [i \in DOMAIN days |-> [forecast |-> Active(days[i]),
                                          outcome  |-> Happened(days[i])]]
        all == ToSet(States)
    IN days # <<>> =>
       /\ SumFunction(m.states) = m.brier
       /\ \A s \in all : SumFunction(m.curves[s]) = m.days
       /\ SumFunction([s \in all |-> m.confusion[s][s]]) = m.hits
       /\ Ece(points) = m.ece
       /\ \A worst \in Mce(points) : m.ece * worst.count <= worst.gap * m.days
       /\ Brier(points) = m.binary
       /\ Sharpness(points) = m.volatility
       /\ \A lead \in m.lead : lead > 0 => m.alarms >= 1
       /\ (\A i \in DOMAIN days : days[i].called \in Likeliest(days[i])) => m.top1 <= m.top2

\* A replay has neither posterior nor truth: it passes on the days it calls LOW.
ReplayAgrees(levels) ==
    Verdict(<<Replayed(levels)>>) =
        IF levels = <<>> THEN "NO_DATA"
        ELSE IF 10 * Count(levels, LAMBDA l : l = "LOW") > 6 * Len(levels)
        THEN "PASS" ELSE "FAIL"

\* The layers of a trace share its duration, less what passed before the first step.
TraceAgrees(steps) ==
    LET total == SumFunction([l \in ToSet(Layers) |-> LayerTotal(steps, l)])
        durations == Durations(steps)
    IN /\ total = TotalDuration(steps) - (IF Len(steps) = 1 THEN 0 ELSE steps[1].at)
       /\ \A l \in ToSet(Layers) : LayerTotal(steps, l) <= LayerTotal(steps, Bottleneck(steps))
       /\ Percentile(durations, 50) <= Percentile(durations, 95)

\* Where a conflict dominates, a conflict is as likely as not; a single state that is
\* more likely than not dominates.  Of the three conflicts together that is not so:
\* just below 40 percent they are the likelier, and CRISIS dominates.
ForecastAgrees(f) ==
    LET asked == Asked(Cases[f.case]) IN
    /\ asked = Conflict /\ f.state \in Conflict => f.predicted >= 5000
    /\ asked # Conflict /\ f.predicted > 5000 => f.state \in asked

\* A warning has its cause in the record.
WarningAgrees(snapshots) ==
    /\ "MOMENTUM_SPIKE" \in Warnings(snapshots) =>
           \E i \in DOMAIN snapshots : Distance(snapshots[i].delta, 0) >= 10
    /\ "PERSISTENCE_ALERT" \in Warnings(snapshots) =>
           LET n == Len(snapshots)
               Rises(i) == snapshots[i].p >= snapshots[i - 1].p
           IN n >= 3 /\ Rises(n) = Rises(n - 1) /\ (n = 3 => Rises(n))

MetricsAgree ==
    /\ tool = "study" =>
           /\ \A i \in DOMAIN found : ForecastAgrees(found[i])
           /\ \A stated \in Revisions : \A a \in DOMAIN stated : WarningAgrees(Recorded(stated[a]))
    /\ tool = "replay" /\ phase = "scenario" => ScenarioAgrees(found)
    /\ tool = "replay" /\ phase = "crisis" => ReplayAgrees(found)
    /\ phase = "latency" => \A steps \in Traces : TraceAgrees(steps)
    /\ phase = "backtest" => \A i \in DOMAIN found :
           found[i] # None => (found[i].correct => found[i].direction)

(***************************************************************************)
(* A report says what ran.  The suite's first two phases run in the mode   *)
(* asked for and every benchmarked system in its own; an execution sees no *)
(* stub but its own and those that an ablated execution left behind by     *)
(* raising (test_ablation.py restores outside a finally).  The study       *)
(* compares with FULL (ablation.py).  Every outcome counts once for every  *)
(* agent that had a belief in its forecast, however often it is told, and  *)
(* the curve counts every resolved forecast but the certain ones, which    *)
(* its last bin, open at the top, leaves out (calibration.py).             *)
(***************************************************************************)
PhasesRunAsAsked ==
    \A r \in ran :
        /\ r.forced = (IF r.kind \in {"heuristic", "full"} THEN r.kind = "heuristic"
                       ELSE ~full)
        /\ r.stubs \ strays = IF r.kind = "ablation" THEN {r.module} \ strays ELSE {}

StudyComparesWithFull ==
    \A c \in DOMAIN report :
        /\ report[c].delta = report[c].metrics.brier - report["FULL"].metrics.brier
        /\ report[c].improves => report[c].verdict = "HELPS"

OutcomesCountOnce ==
    LET resolved == {i \in DOMAIN found : found[i].actual # None}
        Of(a) == {i \in resolved : a \in DOMAIN found[i].beliefs}
    IN /\ \A a \in DOMAIN agents :
             /\ agents[a].forecasts = Cardinality(Of(a))
             /\ agents[a].error = SumFunction([i \in Of(a) |->
                    Distance(found[i].beliefs[a], found[i].actual)])
       /\ SumFunction(CurveOfFifths)
             = Cardinality({i \in resolved : found[i].predicted < 100})

ReportsSayWhatRan ==
    /\ PhasesRunAsAsked
    /\ tool = "study" => StudyComparesWithFull
    /\ tool = "loop" => OutcomesCountOnce
=============================================================================
