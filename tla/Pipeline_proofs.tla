-------------------------- MODULE Pipeline_proofs --------------------------
(***************************************************************************)
(* What TLAPS proves of one call of execute(), for every bound of the      *)
(* loop, every set of dimensions and every score within its type.          *)
(***************************************************************************)
EXTENDS Pipeline, TLAPS, FiniteSetTheorems

----------------------------------------------------------------------------
(* The readiness score *)

\* The two sources of an RFI are counted by a natural number.
LEMMA RfiCount ==
    ASSUME NEW S \in SUBSET RfiSources
    PROVE  IsFiniteSet(S) /\ Cardinality(S) \in Nat
<1>1. IsFiniteSet({"rfi-query"}) /\ IsFiniteSet({"rfi-extract"})
  BY FS_Singleton
<1>2. RfiSources = {"rfi-query"} \cup {"rfi-extract"}
  BY DEF RfiSources
<1>3. IsFiniteSet(RfiSources)
  BY <1>1, <1>2, FS_Union
<1> QED
  BY <1>3, FS_Subset, FS_CardinalityType

\* The score stays on its scale of half points.
LEMMA ScoreRange ==
    ASSUME NEW e \in Evidence
    PROVE  Score(e) \in 0..200
<1>1. Cardinality(e.rfi) \in Nat
  BY RfiCount DEF Evidence
<1>2. e.signals \in Nat /\ e.observations \in Nat /\ e.trends \in Nat /\ e.feeds \in Nat
  BY DEF Evidence
<1>3. Coverage(e) \in Nat /\ Coverage(e) <= 60
  BY <1>2 DEF Coverage, AtMost
<1>4. Temporal(e) \in Nat /\ Temporal(e) <= 20
  BY <1>2 DEF Temporal, AtMost, AtLeast
<1>5. Diversity(e) \in Nat /\ Diversity(e) <= 40
  BY <1>1, <1>2 DEF Diversity, AtMost
<1>6. Entities(e) \in Nat /\ Entities(e) <= 30
  BY <1>2 DEF Entities, AtMost
<1>7. Connectivity(e) \in Nat /\ Connectivity(e) <= 30
  BY DEF Connectivity
<1>8. Score(e) \in Nat /\ Score(e) <= 200
  BY <1>3, <1>4, <1>5, <1>6, <1>7 DEF Score
<1> QED
  BY <1>8

\* What an RFI brings lowers no term of the score; and while the gap stays
\* open, the term for evidence alone rises by two points for each signal.
LEMMA ExtendedScore ==
    ASSUME NEW e \in Evidence, NEW n \in Nat, NEW s \in RfiSources
    PROVE  /\ Extended(e, n, s) \in Evidence
           /\ Score(Extended(e, n, s)) >= Score(e)
           /\ n > 0 /\ HasGap(Extended(e, n, s)) => Score(Extended(e, n, s)) >= Score(e) + 4
<1> DEFINE f == Extended(e, n, s)
<1>1. /\ e.signals \in Nat /\ e.observations \in Nat /\ e.trends \in Nat /\ e.feeds \in Nat
      /\ e.rfi \in SUBSET RfiSources
  BY DEF Evidence
<1>2. /\ f.signals = e.signals + n /\ f.observations = e.observations + n
      /\ f.trends = e.trends /\ f.feeds = e.feeds /\ f.rfi = e.rfi \cup {s}
  BY DEF Extended
<1>3. f \in Evidence
  BY <1>1 DEF Extended, Evidence
<1>4. e.rfi \subseteq f.rfi /\ f.rfi \in SUBSET RfiSources
  BY <1>1, <1>2
<1>5. /\ Cardinality(e.rfi) \in Nat /\ Cardinality(f.rfi) \in Nat
      /\ Cardinality(e.rfi) <= Cardinality(f.rfi)
  BY <1>1, <1>4, RfiCount, FS_Subset
<1>6. Coverage(f) \in Nat /\ Coverage(e) \in Nat /\ Coverage(f) >= Coverage(e)
  BY <1>1, <1>2 DEF Coverage, AtMost
<1>7. n > 0 /\ HasGap(f) => Coverage(f) >= Coverage(e) + 4
  BY <1>1, <1>2 DEF Coverage, AtMost, HasGap
<1>8. Temporal(f) \in Nat /\ Temporal(e) \in Nat /\ Temporal(f) >= Temporal(e)
  BY <1>1, <1>2 DEF Temporal, AtMost, AtLeast
<1>9. Diversity(f) \in Nat /\ Diversity(e) \in Nat /\ Diversity(f) >= Diversity(e)
  <2> DEFINE ce == Cardinality(e.rfi)
             cf == Cardinality(f.rfi)
  <2>1. ce \in Nat /\ cf \in Nat /\ ce <= cf
    BY <1>5
  <2>2. Diversity(e) = AtMost(40, 10 * (e.feeds + ce)) /\ Diversity(f) = AtMost(40, 10 * (e.feeds + cf))
    BY <1>2 DEF Diversity
  <2> HIDE DEF ce, cf
  <2> QED
    BY <2>1, <2>2, <1>1 DEF AtMost
<1>10. Entities(f) \in Nat /\ Entities(e) \in Nat /\ Entities(f) >= Entities(e)
  BY <1>1, <1>2 DEF Entities, AtMost
<1>11. Connectivity(f) \in Nat /\ Connectivity(e) \in Nat /\ Connectivity(f) >= Connectivity(e)
  BY <1>1, <1>2 DEF Connectivity
<1> HIDE DEF f
<1>12. Score(f) >= Score(e) /\ (n > 0 /\ HasGap(f) => Score(f) >= Score(e) + 4)
  BY <1>6, <1>7, <1>8, <1>9, <1>10, <1>11 DEF Score
<1> QED
  BY <1>3, <1>12 DEF f

\* What a round of RFIs may leave: the evidence it had, extended if it has a gap.
LEMMA FindingsScore ==
    ASSUME evidence \in Evidence, NEW e \in Findings
    PROVE  /\ e \in Evidence
           /\ Score(e) >= Score(evidence)
           /\ HasGap(e) => HasGap(evidence) /\ Score(e) >= Score(evidence) + 4
<1>1. CASE HasGap(evidence)
  <2>1. \A n \in ModelYields : n \in Nat /\ n > 0
    BY LoopAssumption
  <2>2. PICK n \in Nat \ {0}, s \in RfiSources : e = Extended(evidence, n, s)
    BY <1>1, <2>1 DEF Findings, RfiSources
  <2> QED
    BY <1>1, <2>2, ExtendedScore
<1>2. CASE ~HasGap(evidence)
  <2>1. e = evidence
    BY <1>2 DEF Findings
  <2>2. Score(evidence) \in 0..200
    BY ScoreRange
  <2> QED
    BY <1>2, <2>1, <2>2
<1> QED
  BY <1>1, <1>2

----------------------------------------------------------------------------
(* Types *)

\* A search is only begun when there is a round left to read its results.
SearchHasRound == phase = "search" => loop.iteration < MaxIterations

Typed == TypeOK /\ SearchHasRound

LEMMA ScoresAreNat == Scores \subseteq Nat
BY DEF Scores

LEMMA LevelOfType == \A scores : LevelOf(scores) \in Levels
BY DEF LevelOf, Levels

\* Clipping gives a score, at most 150 from the rail's.
LEMMA ClipRange ==
    ASSUME NEW h \in Scores, NEW l \in Int
    PROVE  /\ Clip(h, l) \in Scores
           /\ Clip(h, l) <= h + 150
           /\ h <= Clip(h, l) + 150
BY DEF Clip, Clamp, Scores

LEMMA TypedInit == Init => Typed
<1> SUFFICES ASSUME Init PROVE Typed
  OBVIOUS
<1>1. evidence \in Evidence
  BY DEF Init, ResearchInit, NoEvidence, Evidence
<1>2. loop \in [iteration : 1..MaxIterations, previous : 0..200, plateau : 0..PlateauPatience]
  BY LoopAssumption DEF Init, ResearchInit, LoopStart
<1>3. session \in SessionType
  <2>1. [d \in Dims |-> 0] \in [Dims -> Scores]
    BY DEF Scores
  <2> QED
    BY <2>1 DEF Init, NoSession, SessionType, Scores
<1>4. result \in ResultType
  <2>1. NoTrajectory \in TrajectoryType
    BY DEF NoTrajectory, TrajectoryType, Labels, Scores
  <2> QED
    BY <2>1 DEF Init, NoResult, ResultType, Scores
<1> QED
  BY <1>1, <1>2, <1>3, <1>4
  DEF Init, ResearchInit, Typed, TypeOK, ResearchTypeOK, SearchHasRound, Phases, Statuses

LEMMA ResearchTyped == Typed /\ ResearchNext /\ UNCHANGED <<session, result>> => Typed'
<1> SUFFICES ASSUME Typed, ResearchNext, UNCHANGED <<session, result>> PROVE Typed'
  OBVIOUS
<1> USE DEF Typed, TypeOK, ResearchTypeOK, SearchHasRound
<1> DEFINE LoopType == [iteration : 1..MaxIterations, previous : 0..200, plateau : 0..PlateauPatience]
<1>1. LoopStart \in LoopType /\ NoEvidence \in Evidence
  BY LoopAssumption DEF LoopStart, NoEvidence, Evidence
<1>2. Score(evidence) \in 0..200
  BY ScoreRange
<1>3. CASE Collect
  BY <1>3, LoopAssumption DEF Collect, Phases
<1>4. ASSUME NEW how \in {"ready", "plateau", "exhausted"}, Leave(how), status' \in Statuses
      PROVE  Typed'
  BY <1>1, <1>4 DEF Leave, Phases
<1>5. CASE StopReady
  BY <1>4, <1>5 DEF StopReady
<1>6. CASE StopOnPlateau
  BY <1>4, <1>6 DEF StopOnPlateau
<1>7. CASE StopExhausted
  BY <1>4, <1>7 DEF StopExhausted, Statuses
<1>8. CASE RequestInformation
  <2>1. PlateauCount \in 0..PlateauPatience
    BY <1>8, LoopAssumption DEF RequestInformation, KeepsGoing, PlateauCount
  <2>2. loop' \in LoopType /\ loop'.iteration < MaxIterations
    BY <1>2, <1>8, <2>1 DEF RequestInformation
  <2> QED
    BY <1>8, <2>2 DEF RequestInformation, Phases, Statuses
<1>9. CASE Gather
  <2>1. evidence' \in Evidence
    BY <1>9, FindingsScore DEF Gather
  <2>2. loop' \in LoopType
    BY <1>9, LoopAssumption DEF Gather
  <2> QED
    BY <1>9, <2>1, <2>2 DEF Gather, Phases
<1> QED
  BY <1>3, <1>5, <1>6, <1>7, <1>8, <1>9 DEF ResearchNext
LEMMA BoundedType ==
    ASSUME NEW rail \in [Dims -> Scores], NEW scores \in [Dims -> Int]
    PROVE  Bounded(rail, scores) \in [Dims -> Scores]
<1>1. \A d \in Dims : scores[d] \in Int
  OBVIOUS
<1>2. \A d \in Dims : Clip(rail[d], scores[d]) \in Scores
  BY <1>1, ClipRange
<1> QED
  BY <1>2 DEF Bounded

\* Whatever answers, a model or the deterministic fallback, names integers.
LEMMA AnswersTyped ==
    ASSUME NEW llm \in LlmAnswers
    PROVE  llm.scores \in [Dims -> Int] /\ llm.confidence \in Int
<1>1. CASE llm \in [scores : [Dims -> LlmScores], confidence : LlmConfidences]
  <2>1. llm.scores \in [Dims -> LlmScores] /\ llm.confidence \in LlmConfidences
    BY <1>1
  <2> QED
    BY <2>1, InputAssumption
<1>2. CASE llm = Canned
  BY <1>2 DEF Canned
<1> QED
  BY <1>1, <1>2 DEF LlmAnswers

\* A step that writes typed fields leaves a typed result.
LEMMA RefusalUpdate ==
    ASSUME NEW r \in ResultType, NEW reasons \in SUBSET Reasons, NEW review \in Priorities \cup {"none"}
    PROVE  [r EXCEPT !.refusal = reasons, !.review = review] \in ResultType
BY ZenonT(90) DEF ResultType

LEMMA OutlookUpdate ==
    ASSUME NEW r \in ResultType, NEW trajectory \in TrajectoryType, NEW reliability \in Int
    PROVE  [r EXCEPT !.trajectory = trajectory, !.reliability = reliability] \in ResultType
BY ZenonT(90) DEF ResultType

LEMMA ScreenUpdate ==
    ASSUME NEW r \in ResultType, NEW swan \in SUBSET Channels
    PROVE  [r EXCEPT !.screened = TRUE, !.swan = swan] \in ResultType
BY ZenonT(90) DEF ResultType

LEMMA SafetyUpdate ==
    ASSUME NEW r \in ResultType, NEW safety \in {"passed", "blocked"}, NEW warnings \in SUBSET Warnings
    PROVE  [r EXCEPT !.safety = safety, !.warnings = warnings] \in ResultType
BY ZenonT(90) DEF ResultType

LEMMA StoreUpdate ==
    ASSUME NEW r \in ResultType, NEW dossier \in SUBSET Wording, NEW archived \in Levels \cup {"none"}
    PROVE  [r EXCEPT !.dossier = dossier, !.archived = archived] \in ResultType
BY ZenonT(90) DEF ResultType

LEMMA BriefUpdate ==
    ASSUME NEW r \in ResultType, NEW posture \in Postures, NEW pulse \in Pulses,
           NEW options \in SUBSET Options, NEW caveats \in SUBSET AllCaveats
    PROVE  [r EXCEPT !.posture = posture, !.pulse = pulse, !.options = options,
                     !.caveats = caveats] \in ResultType
BY DEF ResultType

\* What the council left is a context, and what it holds is typed.
LEMMA ContextType ==
    ASSUME session \in SessionType
    PROVE  /\ session.context \in Contexts \cup {NoContext}
           /\ session.context.capability \in Nat
           /\ session.context.confidence \in Int
<1>1. session.context \in Contexts \cup {NoContext}
  BY DEF SessionType
<1>2. CASE session.context \in Contexts
  <2> DEFINE capability == session.context.capability
             confidence == session.context.confidence
  <2>1. capability \in Scores /\ confidence \in Scores
    BY <1>2, InputAssumption
  <2> HIDE DEF capability, confidence
  <2>2. capability \in Nat /\ confidence \in Nat
    BY <2>1, ScoresAreNat
  <2>3. confidence \in Int
    BY <2>2
  <2> QED
    BY <1>1, <2>2, <2>3 DEF capability, confidence
<1>3. CASE session.context = NoContext
  BY <1>3 DEF NoContext
<1> QED
  BY <1>1, <1>2, <1>3

\* Writing down a decision keeps the session's type, and fixes the level.
LEMMA DecidedTyped ==
    ASSUME session \in SessionType, NEW level \in Levels, NEW scores, NEW confidence \in Int,
           NEW course \in Courses \cup {"model"}, NEW dual \in Levels \cup {"none"},
           Decided(level, scores, confidence, course, dual)
    PROVE  /\ session' \in SessionType
           /\ session'.level = level
           /\ session'.rail = session.rail
<1> DEFINE unstable == Contradictory(level, scores, confidence, session.context.signals)
<1>1. PICK said \in BOOLEAN, found \in {FALSE, phase = "investigate"} :
        session' = [session EXCEPT !.level = level, !.confidence = confidence, !.course = course,
                                   !.saysHigh = said \/ unstable, !.dual = dual,
                                   !.evidence = @ \/ found]
  BY DEF Decided
<1> HIDE DEF unstable
<1>2. session.evidence \in BOOLEAN /\ (said \/ unstable) \in BOOLEAN
  BY DEF SessionType
<1>3. (session.evidence \/ found) \in BOOLEAN
  OBVIOUS
<1> DEFINE high == said \/ unstable
           log == session.evidence \/ found
<1>4. session' = [session EXCEPT !.level = level, !.confidence = confidence, !.course = course,
                                 !.saysHigh = high, !.dual = dual, !.evidence = log]
  BY <1>1
<1>5. high \in BOOLEAN /\ log \in BOOLEAN
  BY <1>2, <1>3
<1> HIDE DEF high, log
<1> QED
  BY <1>4, <1>5 DEF SessionType

\* decide() leaves a typed session, with the level of the rail or of a bounded
\* copy of it.
LEMMA DecideTyped ==
    ASSUME session \in SessionType,
           \/ DecideAlone
           \/ \E llm \in LlmAnswers : DecideWith(llm.scores, llm.confidence)
    PROVE  /\ session' \in SessionType
           /\ session'.rail = session.rail
           /\ \/ session'.level = LevelOf(session.rail)
              \/ \E llm \in LlmAnswers :
                    session'.level = LevelOf(Bounded(session.rail, llm.scores))
<1>1. session.dual \in Levels \cup {"none"}
  BY DEF SessionType
<1>2. CASE DecideAlone
  <2>1. LevelOf(session.rail) \in Levels /\ Course(LevelOf(session.rail)) \in Courses
    BY LevelOfType DEF Course, Courses
  <2>2. session.context.confidence \in Int
    BY ContextType
  <2> QED
    BY <1>1, <1>2, <2>1, <2>2, DecidedTyped DEF DecideAlone
<1>3. ASSUME NEW llm \in LlmAnswers, DecideWith(llm.scores, llm.confidence)
      PROVE  /\ session' \in SessionType
             /\ session'.rail = session.rail
             /\ session'.level = LevelOf(Bounded(session.rail, llm.scores))
  <2>1. LevelOf(Bounded(session.rail, llm.scores)) \in Levels
    BY LevelOfType
  <2>2. BoundedConfidence(session.context.confidence, llm.confidence) \in Int
    BY ContextType, AnswersTyped DEF BoundedConfidence
  <2> QED
    BY <1>3, <2>1, <2>2, DecidedTyped DEF DecideWith
<1> QED
  BY <1>2, <1>3

\* A forecast stays on the scale of the scores, whatever the velocity.
LEMMA TrajectoryTyped ==
    ASSUME NEW c \in Contexts \cup {NoContext}
    PROVE  Trajectory(c.believed, c.escalation, c.trends) \in TrajectoryType
<1> DEFINE velocity == Velocity(c.trends)
           boost == Least(150, 50 * Len(Spiking(c.trends)))
<1>1. CASE ~c.believed
  BY <1>1 DEF Trajectory, NoTrajectory, TrajectoryType, Labels, Scores
<1>2. CASE c.believed
  <2>1. c \in Contexts
    BY <1>2 DEF NoContext
  <2>2. c.escalation \in Int /\ velocity \in Int /\ boost \in Int
    <3> DEFINE spikes == Len(Spiking(c.trends))
    <3>1. c.escalation \in Scores /\ velocity \in Int /\ spikes \in Nat
      BY <2>1, InputAssumption
    <3> HIDE DEF velocity, spikes
    <3>2. Least(150, 50 * spikes) \in Int
      BY <3>1 DEF Least
    <3> QED
      <4>1. c.escalation \in Nat
        BY <3>1, ScoresAreNat
      <4>2. \A n \in Nat : n \in Int
        OBVIOUS
      <4> QED
        BY <3>1, <3>2, <4>1, <4>2 DEF spikes
  <2> HIDE DEF velocity, boost
  <2>3. \A move \in Int : Clamp(0, 1000, c.escalation + move + boost) \in Scores
    <3>1. \A x \in Int : Clamp(0, 1000, x) \in Scores
      BY DEF Clamp, Scores
    <3>2. \A move \in Int : c.escalation + move + boost \in Int
      BY <2>2
    <3> QED
      BY <3>1, <3>2
  <2>4. velocity \in Int /\ 2 * velocity \in Int /\ (7 * velocity) \div 2 \in Int
    BY <2>2
  <2>5. /\ Clamp(0, 1000, c.escalation + velocity + boost) \in Scores
        /\ Clamp(0, 1000, c.escalation + 2 * velocity + boost) \in Scores
        /\ Clamp(0, 1000, c.escalation + (7 * velocity) \div 2 + boost) \in Scores
    BY <2>3, <2>4
  <2> USE DEF velocity, boost
  <2> QED
    BY <1>2, <2>4, <2>5 DEF Trajectory, TrajectoryType, Labels
<1> QED
  BY <1>1, <1>2

\* What the trajectory leaves in the result is typed.
LEMMA ForeseenTyped ==
    ASSUME session \in SessionType, result \in ResultType, NEW foreseen \in Foreseen
    PROVE  foreseen \in ResultType
<1> DEFINE trajectory == Trajectory(session.context.believed, session.context.escalation,
                                    session.context.trends)
           reliability == Reliability(session.verification, trajectory)
<1>1. trajectory \in TrajectoryType
  BY ContextType, TrajectoryTyped
<1> HIDE DEF trajectory
<1>2. trajectory.velocity \in Int /\ session.verification \in Int
  BY <1>1, SMTT(30) DEF TrajectoryType, SessionType, Scores
<1>3. reliability \in Int
  <2>1. 1000 - Least(Abs(trajectory.velocity), 900) \in Int
    BY <1>2 DEF Least, Abs
  <2>2. session.verification * (1000 - Least(Abs(trajectory.velocity), 900)) \in Int
    BY <1>2, <2>1
  <2> QED
    BY <2>2 DEF Reliability, Times
<1>4. foreseen \in {result, [result EXCEPT !.trajectory = trajectory, !.reliability = reliability]}
  BY DEF Foreseen, trajectory
<1> HIDE DEF reliability
<1>5. [result EXCEPT !.trajectory = trajectory, !.reliability = reliability] \in ResultType
  BY <1>1, <1>3, OutlookUpdate
<1> QED
  BY <1>4, <1>5

\* The briefing keeps at most the options there are.
LEMMA OptionsTyped == \A level, pressure : RiskOptions(level, pressure) \in SUBSET Options
<1> TAKE level, pressure
<1> DEFINE grave == level \in {"HIGH", "CRITICAL"}
           options == (IF grave \/ pressure.urgency > 700 THEN <<"crisis cell">> ELSE <<>>)
                        \o <<"collection", "channel", "readiness">>
                        \o (IF pressure.diplomatic_window < 200 /\ grave THEN <<"backchannel">> ELSE <<>>)
           last == Least(4, Len(options))
<1>1. options \in Seq(Options)
  <2>1. /\ <<"crisis cell">> \in Seq(Options) /\ <<"backchannel">> \in Seq(Options)
        /\ <<"collection", "channel", "readiness">> \in Seq(Options) /\ <<>> \in Seq(Options)
    BY DEF Options
  <2>2. \A s, t \in Seq(Options) : s \o t \in Seq(Options)
    OBVIOUS
  <2> HIDE DEF grave
  <2> QED
    BY <2>1, <2>2
<1>2. RiskOptions(level, pressure) = ToSet(SubSeq(options, 1, last))
  BY DEF RiskOptions
<1> HIDE DEF options
<1>3. last \in Nat /\ last <= Len(options)
  BY <1>1 DEF Least
<1> HIDE DEF last
<1>4. SubSeq(options, 1, last) \in Seq(Options)
  BY <1>1, <1>3
<1>5. \A i \in DOMAIN SubSeq(options, 1, last) : SubSeq(options, 1, last)[i] \in Options
  BY <1>4
<1> QED
  BY <1>2, <1>5 DEF ToSet

\* The gate withholds for each of its reasons; without one, there is a capability.
LEMMA GateTyped ==
    ASSUME NEW state
    PROVE  /\ GateVerdict(state).withheld = (HardReasons(state) # {})
           /\ GateVerdict(state).collection_tasks \in SUBSET Modalities
           /\ HardReasons(state) = {} => /\ GateVerdict(state).collection_tasks = {}
                                         /\ ~(state.capability < 350)
           /\ GateVerdict(state).withheld \in BOOLEAN
<1> DEFINE reasons == HardReasons(state)
<1>1. reasons \subseteq {"pirs", "capability", "stale", "confidence"}
  BY DEF HardReasons
<1>2. GateVerdict(state).withheld = (reasons # {})
  BY DEF GateVerdict
<1>3. GateVerdict(state).collection_tasks = {Modality[r] : r \in reasons}
  BY DEF GateVerdict
<1>4. reasons = {} => ~(state.capability < 350)
  BY DEF HardReasons
<1> HIDE DEF reasons
<1>5. \A r \in reasons : Modality[r] \in Modalities
  BY <1>1 DEF Modality, Modalities
<1>6. {Modality[r] : r \in reasons} \in SUBSET Modalities
  BY <1>5
<1> QED
  BY <1>2, <1>3, <1>4, <1>6 DEF reasons

\* What the gate, the guardrails and the enforcer write is of its type.
LEMMA VerdictTypes ==
    \A level, v, sre, rejected, briefed, scanned, dossier, logged :
      /\ Violations(level, v, sre, rejected, briefed) \in SUBSET Rules
      /\ SafetyReport(scanned, dossier, level, v, logged).warnings \in SUBSET Warnings
      /\ \A hypotheses, concerns : RefusalReasons(hypotheses, v, logged, concerns) \in SUBSET Reasons
<1> TAKE level, v, sre, rejected, briefed, scanned, dossier, logged
<1>1. Violations(level, v, sre, rejected, briefed) \in SUBSET Rules
  BY DEF Violations
<1>2. SafetyReport(scanned, dossier, level, v, logged).warnings \in SUBSET Warnings
  BY DEF SafetyReport, Warnings, SoftWording
<1>3. \A hypotheses, concerns : RefusalReasons(hypotheses, v, logged, concerns) \in SUBSET Reasons
  BY DEF RefusalReasons, Reasons
<1> QED
  BY <1>1, <1>2, <1>3

LEMMA NextTyped == Typed /\ [Next]_vars => Typed'
<1> SUFFICES ASSUME Typed, [Next]_vars PROVE Typed'
  OBVIOUS
<1> USE DEF Typed, TypeOK, SearchHasRound
<1>1. ASSUME UNCHANGED research, phase' \in Phases \ {"search"}, status' \in Statuses,
             session' \in SessionType, result' \in ResultType
      PROVE  Typed'
  BY <1>1 DEF research, ResearchTypeOK
<1>2. CASE RefuseBlank
  BY <1>1, <1>2 DEF RefuseBlank, ResultType, Levels, Phases, Statuses
<1>3. CASE Begin
  BY <1>1, <1>3 DEF Begin, Phases
<1>4. CASE Research
  BY <1>4, ResearchTyped DEF Research
<1>5. CASE Reason
  <2>1. PICK c \in Contexts :
          session' = [session EXCEPT !.context = c, !.rail = HeuristicRail(c.signals),
                                     !.evidence = c.evidence]
    BY <1>5 DEF Reason
  <2>2. HeuristicRail(c.signals) \in [Dims -> Scores] /\ c.evidence \in BOOLEAN
    BY InputAssumption
  <2>3. session' \in SessionType
    BY <2>1, <2>2 DEF SessionType
  <2> QED
    BY <1>1, <1>5, <2>3 DEF Reason, Phases
<1>6. CASE Synthesize
  <2>1. session' \in SessionType
    BY <1>6, DecideTyped DEF Synthesize
  <2> QED
    BY <1>1, <1>6, <2>1 DEF Synthesize, Phases
<1>7. CASE SynthesizeAgain
  <2>1. session' \in SessionType
    BY <1>7, DecideTyped DEF SynthesizeAgain
  <2> QED
    BY <1>1, <1>7, <2>1 DEF SynthesizeAgain, Phases
<1>8. CASE Verify
  <2>1. session' \in SessionType
    BY <1>8, InputAssumption DEF Verify, SessionType
  <2>2. result' \in ResultType
    <3>1. PICK reasons \in SUBSET Reasons, review \in Priorities \cup {"none"} :
            result' = result \/ result' = [result EXCEPT !.refusal = reasons, !.review = review]
      <4> DEFINE reasons(v) == RefusalReasons(session.context.hypotheses, v, session.evidence,
                                             session.context.concerns)
      <4>1. PICK v \in Verifications :
              \/ result' = result
              \/ \E review \in {Priority(v), "none"} :
                   result' = [result EXCEPT !.refusal = reasons(v), !.review = review]
        BY <1>8 DEF Verify
      <4>2. reasons(v) \in SUBSET Reasons /\ Priority(v) \in Priorities
        BY VerdictTypes DEF Priority, Priorities
      <4> QED
        BY <4>1, <4>2
    <3>2. [result EXCEPT !.refusal = reasons, !.review = review] \in ResultType
      BY RefusalUpdate
    <3>3. result \in ResultType
      OBVIOUS
    <3> QED
      BY <3>1, <3>2, <3>3
  <2>3. status' \in Statuses
    BY <1>8 DEF Verify, Statuses
  <2> QED
    BY <1>1, <1>8, <2>1, <2>2, <2>3 DEF Verify, Phases
<1>9. CASE Finalize
  <2>1. /\ session.level \in Levels \cup {"none"} /\ session.verification \in Scores
        /\ session.course \in Courses \cup {"model", "none"}
    BY DEF SessionType
  <2>2. result' \in ResultType
    BY <1>9, <2>1, ZenonT(90) DEF Finalize, ResultType
  <2> QED
    BY <1>1, <1>9, <2>2 DEF Finalize, Phases
<1>10. CASE Gate
  <2>1. PICK verdict \in {"APPROVED", "WITHHELD"}, tasks \in SUBSET Modalities :
          /\ result' = [result EXCEPT !.verdict = verdict, !.tasks = tasks, !.recorded = status]
          /\ status' \in Statuses
    BY <1>10, GateTyped DEF Gate, Statuses
  <2>2. result' \in ResultType
    BY <2>1, ZenonT(90) DEF ResultType
  <2> QED
    BY <1>1, <1>10, <2>1, <2>2 DEF Gate, Phases
<1>11. CASE Forecast
  <2> DEFINE swan == BlackSwan(session.context.signals, session.context.trends)
  <2>1. PICK foreseen \in Foreseen :
          \/ /\ result' = [foreseen EXCEPT !.screened = TRUE, !.swan = swan]
             /\ status' = IF swan # {} THEN "HUMAN_REVIEW" ELSE status
          \/ result' = foreseen /\ status' = status
    BY <1>11 DEF Forecast
  <2>2. swan \in SUBSET Channels
    BY DEF BlackSwan
  <2> HIDE DEF swan
  <2>3. foreseen \in ResultType
    BY ForeseenTyped
  <2>4. [foreseen EXCEPT !.screened = TRUE, !.swan = swan] \in ResultType
    BY <2>2, <2>3, ScreenUpdate
  <2>5. result' \in ResultType /\ status' \in Statuses
    BY <2>1, <2>3, <2>4 DEF Statuses
  <2> QED
    BY <1>1, <1>11, <2>5 DEF Forecast, Phases
<1>12. CASE Store
  <2>1. PICK dossier \in SUBSET Wording, archived \in Levels \cup {"none"} :
          result' = [result EXCEPT !.dossier = dossier, !.archived = archived]
    <3>1. PICK dossier \in Dossiers, archived \in {result.threat, result.archived} :
            result' = [result EXCEPT !.dossier = dossier, !.archived = archived]
      BY <1>12 DEF Store
    <3>2. dossier \in SUBSET Wording
      BY InputAssumption
    <3>3. archived \in Levels \cup {"none"}
      BY DEF ResultType
    <3> QED
      BY <3>1, <3>2, <3>3
  <2>2. result' \in ResultType
    BY <2>1, StoreUpdate
  <2> QED
    BY <1>1, <1>12, <2>2 DEF Store, Phases
<1>13. CASE Brief
  <2>2. \A pressure : Pulse(pressure) \in Pulses
    BY DEF Pulse, Pulses
  <2>3. \A pressure : Caveats(Blindspots(session.context.observations, session.context.signals),
                            pressure, result.refusal # {}) \in SUBSET AllCaveats
    BY DEF Caveats, Blindspots, AllCaveats
  <2>4. PICK posture \in Postures, pulse \in Pulses, options \in SUBSET Options,
             caveats \in SUBSET AllCaveats :
          result' = [result EXCEPT !.posture = posture, !.pulse = pulse, !.options = options,
                                   !.caveats = caveats]
    <3> DEFINE blindspots == Blindspots(session.context.observations, session.context.signals)
    <3>1. PICK pressure :
            result' = [result EXCEPT !.posture = Posture(status, result.threat, pressure.urgency > 700),
                                     !.pulse = Pulse(pressure),
                                     !.options = RiskOptions(result.threat, pressure),
                                     !.caveats = Caveats(blindspots, pressure, result.refusal # {})]
      BY <1>13, ZenonT(90) DEF Brief
    <3> DEFINE posture == Posture(status, result.threat, pressure.urgency > 700)
               pulse == Pulse(pressure)
               options == RiskOptions(result.threat, pressure)
               caveats == Caveats(blindspots, pressure, result.refusal # {})
    <3>2. posture \in Postures
      BY DEF Posture, Postures
    <3>3. caveats \in SUBSET AllCaveats
      BY <2>3
    <3>4. pulse \in Pulses /\ options \in SUBSET Options
      BY <2>2, OptionsTyped
    <3>5. result' = [result EXCEPT !.posture = posture, !.pulse = pulse, !.options = options,
                                   !.caveats = caveats]
      BY <3>1
    <3> HIDE DEF posture, pulse, options, caveats
    <3> QED
      BY <3>2, <3>3, <3>4, <3>5
  <2>5. result' \in ResultType
    BY <2>4, BriefUpdate
  <2> QED
    BY <1>1, <1>13, <2>5 DEF Brief, Phases
<1>14. CASE Guard
  <2>1. GuardFindings \in SUBSET Rules
    BY VerdictTypes DEF GuardFindings
  <2>2. result' \in ResultType /\ status' \in Statuses
    BY <1>14, <2>1 DEF Guard, ResultType, Statuses
  <2> QED
    BY <1>1, <1>14, <2>2 DEF Guard, Phases
<1>15. CASE Narrate
  <2>1. Advice(status) \in Advices
    BY DEF Advice, Advices
  <2>2. result' \in ResultType
    BY <1>15, <2>1 DEF Narrate, ResultType
  <2> QED
    BY <1>1, <1>15, <2>2 DEF Narrate, Phases
<1>16. CASE Fail
  BY <1>1, <1>16 DEF Fail, Phases, Statuses
<1>17. CASE Enforce
  <2> DEFINE report == SafetyReport(Scanned, result.dossier, result.threat, result.verification,
                                    result.threat # "none" /\ session.evidence)
             safety == IF report.blocked # {} THEN "blocked" ELSE "passed"
             warnings == report.warnings
  <2>1. /\ result' \in {result, [result EXCEPT !.safety = safety, !.warnings = warnings]}
        /\ status' \in {status, "WITHHELD"}
    BY <1>17 DEF Enforce
  <2>2. safety \in {"passed", "blocked"} /\ warnings \in SUBSET Warnings
    BY VerdictTypes
  <2> HIDE DEF report, safety, warnings
  <2>3. result' \in ResultType /\ status' \in Statuses
    <3>1. [result EXCEPT !.safety = safety, !.warnings = warnings] \in ResultType
      BY <2>2, SafetyUpdate
    <3> QED
      BY <2>1, <3>1 DEF Statuses
  <2> QED
    BY <1>1, <1>17, <2>3 DEF Enforce, Phases
<1>18. CASE UNCHANGED vars
  BY <1>18 DEF vars, research, ResearchTypeOK
<1> QED
  BY <1>2, <1>3, <1>4, <1>5, <1>6, <1>7, <1>8, <1>9, <1>10, <1>11, <1>12, <1>13, <1>14,
     <1>15, <1>16, <1>17, <1>18 DEF Next

LEMMA AlwaysTyped == Spec => []Typed
<1> QED
  BY TypedInit, NextTyped, PTL DEF Spec

\* Every variable of a call keeps its type: no round of research passes the
\* last, the score stays on its scale, and every answer has a status.
THEOREM TypeCorrect == Spec => []TypeOK
<1>1. Typed => TypeOK
  BY DEF Typed
<1> QED
  BY <1>1, AlwaysTyped, PTL
----------------------------------------------------------------------------
(* The research loop *)

\* Between rounds the previous score is the score of the evidence; and while
\* there is a gap the patience is untouched, for every round that ended has
\* raised the score by more than a plateau allows.
GapRaisesScore ==
    /\ phase \in {"start", "collect"} => loop = LoopStart
    /\ phase \in {"start", "collect", "evaluate", "search"} => outcome = "open"
    /\ phase = "search" =>
         /\ loop.previous = Score(evidence)
         /\ HasGap(evidence) => loop.plateau = 0
    /\ phase = "evaluate" /\ HasGap(evidence) =>
         /\ loop.plateau = 0
         /\ loop.iteration > 1 => Score(evidence) >= loop.previous + 4

\* With the invariant, a round that found a gap counts no plateau.
LEMMA NoPlateauInGap ==
    Typed /\ GapRaisesScore /\ phase = "evaluate" /\ HasGap(evidence) => PlateauCount = 0
<1> SUFFICES ASSUME Typed, GapRaisesScore, phase = "evaluate", HasGap(evidence)
             PROVE  PlateauCount = 0
  OBVIOUS
<1>1. loop.iteration \in Nat /\ loop.iteration >= 1 /\ loop.previous \in Nat
  BY DEF Typed, TypeOK, ResearchTypeOK
<1>2. Score(evidence) \in Nat
  BY ScoreRange DEF Typed, TypeOK, ResearchTypeOK
<1>3. CASE loop.iteration = 1
  BY <1>3 DEF PlateauCount, GapRaisesScore
<1>4. CASE loop.iteration > 1
  <2>1. Score(evidence) >= loop.previous + 4
    BY <1>4 DEF GapRaisesScore
  <2>2. ~(Score(evidence) <= loop.previous + 2)
    BY <2>1, <1>1, <1>2
  <2> QED
    BY <1>4, <1>1, <2>2 DEF PlateauCount
<1> QED
  BY <1>1, <1>3, <1>4

LEMMA GapInit == Init => GapRaisesScore
BY DEF Init, ResearchInit, GapRaisesScore

LEMMA GapNext == Typed /\ GapRaisesScore /\ [Next]_vars => GapRaisesScore'
<1> SUFFICES ASSUME Typed, GapRaisesScore, [Next]_vars PROVE GapRaisesScore'
  OBVIOUS
<1>1. evidence \in Evidence
      /\ loop \in [iteration : 1..MaxIterations, previous : 0..200, plateau : 0..PlateauPatience]
  BY DEF Typed, TypeOK, ResearchTypeOK
<1>2. ASSUME phase' \notin {"start", "collect", "evaluate", "search"}
      PROVE  GapRaisesScore'
  BY <1>2 DEF GapRaisesScore
<1>3. CASE Begin
  BY <1>3 DEF Begin, research, GapRaisesScore
<1>4. CASE Collect
  <2>1. loop' = LoopStart /\ phase' = "evaluate"
    BY <1>4 DEF Collect, GapRaisesScore
  <2>2. loop'.plateau = 0 /\ ~(loop'.iteration > 1)
    BY <2>1 DEF LoopStart
  <2> QED
    BY <1>4, <2>1, <2>2 DEF Collect, GapRaisesScore
<1>5. CASE StopReady \/ StopOnPlateau \/ StopExhausted
  BY <1>2, <1>5 DEF StopReady, StopOnPlateau, StopExhausted, Leave
<1>6. CASE RequestInformation
  <2>1. /\ phase = "evaluate" /\ phase' = "search" /\ evidence' = evidence
        /\ loop' = [loop EXCEPT !.previous = Score(evidence), !.plateau = PlateauCount]
    BY <1>6 DEF RequestInformation
  <2>2. loop'.previous = Score(evidence) /\ loop'.plateau = PlateauCount
    BY <2>1, <1>1
  <2>3. HasGap(evidence) => PlateauCount = 0
    BY <2>1, NoPlateauInGap
  <2> QED
    BY <1>6, <2>1, <2>2, <2>3 DEF RequestInformation, GapRaisesScore
<1>7. CASE Gather
  <2>1. /\ phase = "search" /\ phase' = "evaluate" /\ evidence' \in Findings
        /\ loop'.previous = loop.previous /\ loop'.plateau = loop.plateau
    BY <1>7, <1>1 DEF Gather
  <2>2. HasGap(evidence') => HasGap(evidence) /\ Score(evidence') >= Score(evidence) + 4
    BY <1>1, <2>1, FindingsScore
  <2>3. loop.previous = Score(evidence) /\ (HasGap(evidence) => loop.plateau = 0)
    BY <2>1 DEF GapRaisesScore
  <2> QED
    BY <1>7, <2>1, <2>2, <2>3 DEF Gather, GapRaisesScore
<1>8. CASE Research
  BY <1>4, <1>5, <1>6, <1>7, <1>8 DEF Research, ResearchNext
<1>9. CASE RefuseBlank \/ Reason \/ Synthesize \/ SynthesizeAgain \/ Verify \/ Finalize \/ Gate
  BY <1>2, <1>9 DEF RefuseBlank, Reason, Synthesize, SynthesizeAgain, Verify, Finalize, Gate
<1>10. CASE Forecast \/ Store \/ Brief \/ Guard \/ Narrate \/ Fail \/ Enforce
  BY <1>2, <1>10, ZenonT(90) DEF Forecast, Store, Brief, Guard, Narrate, Fail, Enforce
<1>11. CASE UNCHANGED vars
  BY <1>11 DEF vars, research, GapRaisesScore
<1> QED
  BY <1>3, <1>8, <1>9, <1>10, <1>11 DEF Next

LEMMA AlwaysGapRaises == Spec => [](Typed /\ GapRaisesScore)
<1> QED
  BY TypedInit, GapInit, NextTyped, GapNext, PTL DEF Spec

\* A round of research never lowers the score, for any evidence and any yield.
THEOREM ReadinessMonotone == Spec => ReadinessNeverFalls
<1>1. Typed /\ [Next]_vars => [phase = "search" => Score(evidence') >= Score(evidence)]_vars
  <2> SUFFICES ASSUME Typed, Next, phase = "search"
               PROVE  Score(evidence') >= Score(evidence)
    OBVIOUS
  <2>1. Gather
    BY DEF Next, Research, ResearchNext, RefuseBlank, Begin, Collect, StopReady, StopOnPlateau,
           StopExhausted, RequestInformation, Reason, Synthesize, SynthesizeAgain, Verify,
           Finalize, Gate, Forecast, Store, Brief, Guard, Narrate, Fail, Unguarded, Enforce
  <2>2. evidence \in Evidence /\ evidence' \in Findings
    BY <2>1 DEF Gather, Typed, TypeOK, ResearchTypeOK
  <2> QED
    BY <2>2, FindingsScore
<1> QED
  BY <1>1, AlwaysTyped, PTL DEF Spec, ReadinessNeverFalls

\* The loop never gives up on a plateau while the evidence has a gap, for any
\* number of rounds, any patience and any threshold of readiness.
THEOREM PlateauHasNoGap == Spec => GivesUpOnlyWithoutGap
<1>1. Typed /\ GapRaisesScore /\ [Next]_vars =>
        [phase = "evaluate" /\ outcome' = "plateau" => ~HasGap(evidence)]_vars
  <2> SUFFICES ASSUME Typed, GapRaisesScore, Next, phase = "evaluate", outcome' = "plateau",
                      HasGap(evidence)
               PROVE  FALSE
    OBVIOUS
  <2>1. outcome = "open"
    BY DEF GapRaisesScore
  <2>2. StopOnPlateau
    BY <2>1 DEF Next, Research, ResearchNext, research, RefuseBlank, Begin, Collect, StopReady,
           StopExhausted, Leave, RequestInformation, Gather, Reason, Synthesize,
           SynthesizeAgain, Verify, Finalize, Gate, Forecast, Store, Brief, Guard, Narrate,
           Fail, Enforce
  <2>3. PlateauCount = 0
    BY NoPlateauInGap
  <2> QED
    BY <2>2, <2>3, LoopAssumption DEF StopOnPlateau
<1> QED
  BY <1>1, AlwaysGapRaises, PTL DEF Spec, GivesUpOnlyWithoutGap
----------------------------------------------------------------------------
(* The level *)

\* Two score tables that differ by at most 150 in every dimension are graded
\* at most one band apart: the bands are 200 wide.
LEMMA NearScoresNearLevels ==
    ASSUME NEW a \in [Dims -> Scores], NEW b \in [Dims -> Scores],
           \A d \in Dims : a[d] <= b[d] + 150
    PROVE  Rank[LevelOf(a)] <= Rank[LevelOf(b)] + 1
<1>1. \A d \in Dims : a[d] \in Nat /\ b[d] \in Nat
  <2> TAKE d \in Dims
  <2>1. a[d] \in Scores /\ b[d] \in Scores
    OBVIOUS
  <2> QED
    BY <2>1, ScoresAreNat
<1>2. /\ Reaches(a, 800) => Reaches(b, 600)
      /\ Reaches(a, 600) => Reaches(b, 400)
      /\ Reaches(a, 400) => Reaches(b, 200)
  BY <1>1 DEF Reaches
<1>3. /\ Reaches(b, 800) => Reaches(b, 600)
      /\ Reaches(b, 600) => Reaches(b, 400)
      /\ Reaches(b, 400) => Reaches(b, 200)
  BY <1>1 DEF Reaches
<1> QED
  BY <1>2, <1>3 DEF LevelOf, Rank

LEMMA BoundedNear ==
    ASSUME NEW rail \in [Dims -> Scores], NEW scores \in [Dims -> Int]
    PROVE  /\ Rank[LevelOf(Bounded(rail, scores))] <= Rank[LevelOf(rail)] + 1
           /\ Rank[LevelOf(rail)] <= Rank[LevelOf(Bounded(rail, scores))] + 1
<1>1. Bounded(rail, scores) \in [Dims -> Scores]
  BY BoundedType
<1>2. \A d \in Dims : /\ Bounded(rail, scores)[d] <= rail[d] + 150
                      /\ rail[d] <= Bounded(rail, scores)[d] + 150
  <2> TAKE d \in Dims
  <2>1. scores[d] \in Int
    OBVIOUS
  <2> QED
    BY <2>1, ClipRange DEF Bounded
<1> QED
  BY <1>1, <1>2, NearScoresNearLevels

\* The level is decided only once the rail is fixed.
LevelFollowsRail ==
    /\ phase \in {"start", "collect", "evaluate", "search", "reason", "synthesize"} =>
         session.level = "none"
    /\ LevelWithinRail

LEMMA LevelNext == Typed /\ LevelFollowsRail /\ [Next]_vars => LevelFollowsRail'
<1> SUFFICES ASSUME Typed, LevelFollowsRail, [Next]_vars PROVE LevelFollowsRail'
  OBVIOUS
<1>1. session \in SessionType /\ session.rail \in [Dims -> Scores]
  BY DEF Typed, TypeOK, SessionType
<1>2. ASSUME phase' \in {"investigate", "verify"},
             \/ DecideAlone
             \/ \E llm \in LlmAnswers : DecideWith(llm.scores, llm.confidence)
      PROVE  LevelFollowsRail'
  <2>1. session'.rail = session.rail
    BY <1>1, <1>2, DecideTyped
  <2>2. CASE session'.level = LevelOf(session.rail)
    <3>1. Rank[LevelOf(session.rail)] \in Nat
      BY DEF LevelOf, Rank
    <3>2. Rank[LevelOf(session.rail)] <= Rank[LevelOf(session.rail)] + 1
      BY <3>1
    <3> QED
      BY <1>2, <2>1, <2>2, <3>2 DEF LevelFollowsRail, LevelWithinRail
  <2>3. ASSUME NEW llm \in LlmAnswers,
               session'.level = LevelOf(Bounded(session.rail, llm.scores))
        PROVE  LevelFollowsRail'
    <3>1. /\ Rank[LevelOf(Bounded(session.rail, llm.scores))] <= Rank[LevelOf(session.rail)] + 1
          /\ Rank[LevelOf(session.rail)] <= Rank[LevelOf(Bounded(session.rail, llm.scores))] + 1
      BY <1>1, AnswersTyped, BoundedNear
    <3> QED
      BY <1>2, <2>1, <2>3, <3>1 DEF LevelFollowsRail, LevelWithinRail
  <2> QED
    BY <1>1, <1>2, <2>2, <2>3, DecideTyped
<1>3. CASE Synthesize
  BY <1>2, <1>3 DEF Synthesize
<1>4. CASE SynthesizeAgain
  BY <1>2, <1>4 DEF SynthesizeAgain
<1>5. CASE Reason
  <2>1. session'.level = session.level /\ session.level = "none"
    BY <1>1, <1>5 DEF Reason, SessionType, LevelFollowsRail
  <2> QED
    BY <2>1 DEF LevelFollowsRail, LevelWithinRail
<1>6. CASE Verify
  <2>1. session'.level = session.level /\ session'.rail = session.rail /\ phase' = "finalize"
    BY <1>1, <1>6 DEF Verify, SessionType
  <2> QED
    BY <2>1 DEF LevelFollowsRail, LevelWithinRail
<1>7. ASSUME session' = session,
             phase \in {"start", "collect", "evaluate", "search"} \/
             phase' \notin {"start", "collect", "evaluate", "search", "reason", "synthesize"} \/
             phase' = phase
      PROVE  LevelFollowsRail'
  BY <1>7 DEF LevelFollowsRail, LevelWithinRail
<1>8. CASE RefuseBlank \/ Begin
  BY <1>7, <1>8 DEF RefuseBlank, Begin
<1>9. CASE Research
  BY <1>7, <1>9 DEF Research, ResearchNext, Collect, StopReady, StopOnPlateau, StopExhausted,
                    RequestInformation, Gather
<1>10. CASE Finalize \/ Gate \/ Forecast \/ Store \/ Brief \/ Guard \/ Narrate \/ Fail \/ Enforce
  <2>1. session' = session
    BY <1>10, Zenon DEF Finalize, Gate, Forecast, Store, Brief, Guard, Narrate, Fail, Enforce
  <2>2. phase' \in {"gate", "forecast", "store", "brief", "guard", "narrate", "enforce", "done"}
    BY <1>10 DEF Finalize, Gate, Forecast, Store, Brief, Guard, Narrate, Fail, Enforce
  <2> QED
    BY <1>7, <2>1, <2>2
<1>11. CASE UNCHANGED vars
  BY <1>7, <1>11 DEF vars
<1> QED
  BY <1>3, <1>4, <1>5, <1>6, <1>8, <1>9, <1>10, <1>11 DEF Next

\* The model never moves the level by more than one band, for any dimensions
\* and any scores, in the first decide() and in the second.
THEOREM LevelIsBounded == Spec => []LevelWithinRail
<1>1. Init => LevelFollowsRail
  BY DEF Init, NoSession, LevelFollowsRail, LevelWithinRail
<1>2. LevelFollowsRail => LevelWithinRail
  BY DEF LevelFollowsRail
<1> QED
  BY <1>1, <1>2, TypedInit, NextTyped, LevelNext, PTL DEF Spec
----------------------------------------------------------------------------
(* The status *)

\* The steps before a verdict, and the steps after the gate's.
Early  == {"start", "collect", "evaluate", "search", "reason", "synthesize", "investigate", "verify"}
Judged == {"forecast", "store", "brief", "guard", "narrate", "enforce", "done"}

\* Before verification ends the result is empty and its status undecided.
Undecided ==
    phase \in Early => /\ status \in {"ONGOING", "RFI_REQUIRED", "HUMAN_OVERRIDE_REQUIRED"}
                       /\ result = NoResult

\* The detector found nothing, and the enforcer, which comes last, neither.
Calm == result.screened => BlackSwan(session.context.signals, session.context.trends) = {}

Unobjected ==
    result.safety # "none" => phase = "done" /\ Scanned \cap HardWording = {}

\* COMPLETE at any point means that every check so far has passed and that
\* what has been recorded so far agrees with the session.
Cleared ==
    status = "COMPLETE" =>
      /\ session.verification > 700
      /\ result.review = "none" /\ result.findings \cap HardRules = {}
      /\ Calm /\ Unobjected
      /\ result.posture # "WITHHOLD" /\ result.advice # "review"
      /\ phase # "finalize" => /\ result.threat = session.level
                               /\ result.verification = session.verification
      /\ phase \in {"finalize", "gate", "forecast", "store"} => result.archived = "none"
      /\ phase \in Judged => /\ session.context.capability >= 350
                             /\ result.verdict = "APPROVED" /\ result.tasks = {}
                             /\ result.recorded = "COMPLETE"
      /\ result.archived \in {result.threat, "none"}

StatusInv == Undecided /\ Cleared

LEMMA StatusInit == Init => StatusInv
BY DEF Init, StatusInv, Undecided, Cleared, Calm, Unobjected, NoResult, Early

LEMMA StatusNext == Typed /\ StatusInv /\ [Next]_vars => StatusInv'
<1> SUFFICES ASSUME Typed, StatusInv, [Next]_vars PROVE StatusInv'
  OBVIOUS
<1> USE DEF StatusInv
<1>1. session \in SessionType /\ result \in ResultType
  BY DEF Typed, TypeOK
<1>2. session.verification \in Nat /\ session.context.capability \in Nat /\ result.verification \in Nat
  <2>1. session.verification \in Scores /\ result.verification \in Scores
    BY <1>1 DEF SessionType, ResultType
  <2> QED
    BY <1>1, <2>1, ScoresAreNat, ContextType
<1>3. ASSUME phase' \notin Early, status' # "COMPLETE"
      PROVE  StatusInv'
  BY <1>3 DEF Undecided, Cleared, Calm, Unobjected
<1>4. ASSUME phase \in Early, result' = result,
             status' \in {status, "RFI_REQUIRED", "HUMAN_OVERRIDE_REQUIRED"}
      PROVE  StatusInv'
  BY <1>4 DEF Undecided, Cleared, Calm, Unobjected, Early
<1>5. CASE RefuseBlank
  BY <1>3, <1>5 DEF RefuseBlank, Early
<1>6. CASE Begin \/ Reason \/ Synthesize \/ SynthesizeAgain
  BY <1>4, <1>6 DEF Begin, Reason, Synthesize, SynthesizeAgain, Early
<1>7. CASE Research
  BY <1>4, <1>7 DEF Research, ResearchNext, Collect, StopReady, StopOnPlateau, StopExhausted,
                    RequestInformation, Gather, Early
<1>8. CASE Verify
  <2>1. PICK v \in Verifications : session' = [session EXCEPT !.verification = v]
                                  /\ (status' = "COMPLETE" => v > 700 /\ result' = result)
    BY <1>8 DEF Verify, Verified
  <2>2. session'.verification = v
    BY <1>1, <2>1 DEF SessionType
  <2>3. phase' = "finalize" /\ result = NoResult
    BY <1>8 DEF Verify, Undecided, Early
  <2> QED
    BY <2>1, <2>2, <2>3 DEF Undecided, Cleared, Calm, Unobjected, NoResult, Early, Judged
<1>9. CASE Finalize
  <2>1. /\ result' = [result EXCEPT !.threat = session.level,
                                   !.course = session.course, !.verification = session.verification]
        /\ status' = status /\ session' = session /\ phase = "finalize" /\ phase' = "gate"
    BY <1>9 DEF Finalize
  <2>2. /\ result'.threat = session.level /\ result'.verification = session.verification
        /\ result'.review = result.review
        /\ result'.findings = result.findings /\ result'.posture = result.posture
        /\ result'.advice = result.advice /\ result'.safety = result.safety /\ result'.screened = result.screened
        /\ result'.archived = result.archived
    BY <1>1, <2>1 DEF ResultType
  <2> QED
    BY <2>1, <2>2 DEF Undecided, Cleared, Calm, Unobjected, Early, Judged
<1>10. CASE Gate
  <2> DEFINE state == AssessmentState(session.context.capability, result.verification,
                                      result.threat, result.swan # {})
             tasks == GateVerdict(state).collection_tasks
  <2>0. state.capability = session.context.capability
    BY DEF AssessmentState
  <2>1. /\ GateVerdict(state).withheld = (HardReasons(state) # {})
        /\ HardReasons(state) = {} => tasks = {} /\ ~(state.capability < 350)
    BY GateTyped
  <2>2. /\ result' = [result EXCEPT !.verdict = IF GateVerdict(state).withheld THEN "WITHHELD" ELSE "APPROVED",
                                    !.tasks = tasks, !.recorded = status]
        /\ status' = IF ~GateVerdict(state).withheld THEN status
                     ELSE IF GateVerdict(state).mandatory_review THEN "HUMAN_REVIEW" ELSE "WITHHELD"
        /\ session' = session /\ phase = "gate" /\ phase' = "forecast"
    BY <1>10 DEF Gate
  <2> HIDE DEF state, tasks
  <2>3. CASE GateVerdict(state).withheld
    BY <1>3, <2>2, <2>3 DEF Early
  <2>4. CASE ~GateVerdict(state).withheld
    <3>1. /\ result' = [result EXCEPT !.verdict = "APPROVED", !.tasks = tasks, !.recorded = status]
          /\ status' = status /\ tasks = {}
      BY <2>1, <2>2, <2>4
    <3>2. /\ result'.verdict = "APPROVED" /\ result'.recorded = status /\ result'.tasks = {}
          /\ result'.threat = result.threat /\ result'.verification = result.verification
          /\ result'.review = result.review
          /\ result'.findings = result.findings /\ result'.posture = result.posture
          /\ result'.advice = result.advice /\ result'.safety = result.safety /\ result'.screened = result.screened
          /\ result'.archived = result.archived
      BY <1>1, <3>1 DEF ResultType
    <3>3. session.context.capability >= 350
      <4>1. ~(session.context.capability < 350)
        BY <2>0, <2>1, <2>4
      <4> QED
        BY <1>2, <4>1
    <3> QED
      BY <2>2, <3>1, <3>2, <3>3 DEF Undecided, Cleared, Calm, Unobjected, Early, Judged
  <2> QED
    BY <2>3, <2>4
<1>11. CASE Forecast
  <2> DEFINE swan == BlackSwan(session.context.signals, session.context.trends)
  <2>1. PICK foreseen \in Foreseen :
          \/ /\ result' = [foreseen EXCEPT !.screened = TRUE, !.swan = swan]
             /\ status' = IF swan # {} THEN "HUMAN_REVIEW" ELSE status
          \/ result' = foreseen /\ status' = status
    BY <1>11 DEF Forecast
  <2>2. phase = "forecast" /\ phase' = "store" /\ session' = session
    BY <1>11 DEF Forecast
  <2>3. swan' = swan
    BY <2>2
  <2>4. /\ foreseen \in ResultType /\ foreseen.screened = result.screened
        /\ foreseen.verdict = result.verdict /\ foreseen.tasks = result.tasks
        /\ foreseen.recorded = result.recorded
        /\ foreseen.threat = result.threat /\ foreseen.verification = result.verification
        /\ foreseen.review = result.review /\ foreseen.findings = result.findings
        /\ foreseen.posture = result.posture /\ foreseen.advice = result.advice
        /\ foreseen.safety = result.safety /\ foreseen.archived = result.archived
    <3>1. PICK trajectory, reliability :
            foreseen \in {result, [result EXCEPT !.trajectory = trajectory, !.reliability = reliability]}
      BY DEF Foreseen
    <3>2. foreseen \in ResultType
      BY <1>1, ForeseenTyped
    <3>3. CASE foreseen = result
      BY <1>1, <3>3
    <3>4. CASE foreseen = [result EXCEPT !.trajectory = trajectory, !.reliability = reliability]
      BY <1>1, <3>2, <3>4 DEF ResultType
    <3> QED
      BY <3>1, <3>3, <3>4
  <2> HIDE DEF swan
  <2>5. CASE status' # "COMPLETE"
    BY <1>3, <2>2, <2>5 DEF Early
  <2>6. CASE status' = "COMPLETE"
    <3>1. status = "COMPLETE" /\ (result'.screened => result.screened \/ swan = {})
      BY <2>1, <2>4, <2>6 DEF ResultType
    <3>2. /\ result'.verdict = result.verdict /\ result'.tasks = result.tasks
          /\ result'.recorded = result.recorded
          /\ result'.threat = result.threat /\ result'.verification = result.verification
          /\ result'.review = result.review /\ result'.findings = result.findings
          /\ result'.posture = result.posture /\ result'.advice = result.advice
          /\ result'.safety = result.safety /\ result'.archived = result.archived
      <4>1. CASE result' = foreseen
        BY <2>4, <4>1
      <4>2. CASE result' = [foreseen EXCEPT !.screened = TRUE, !.swan = swan]
        BY <2>4, <4>2 DEF ResultType
      <4> QED
        BY <2>1, <4>1, <4>2
    <3>3. Calm'
      BY <2>3, <3>1 DEF Cleared, Calm, swan
    <3> QED
      BY <2>2, <2>6, <3>1, <3>2, <3>3 DEF Undecided, Cleared, Unobjected, Early, Judged
  <2> QED
    BY <2>5, <2>6
<1>12. CASE Store
  <2>1. /\ phase = "store" /\ phase' = "brief" /\ session' = session /\ status' = status
    BY <1>12 DEF Store
  <2>2. PICK dossier \in Dossiers, archived \in {result.threat, result.archived} :
          result' = [result EXCEPT !.dossier = dossier, !.archived = archived]
    BY <1>12 DEF Store
  <2>3. /\ result'.archived \in {result.threat, result.archived}
        /\ result'.verdict = result.verdict /\ result'.tasks = result.tasks
        /\ result'.recorded = result.recorded
        /\ result'.threat = result.threat /\ result'.verification = result.verification
        /\ result'.review = result.review /\ result'.findings = result.findings
        /\ result'.posture = result.posture
        /\ result'.advice = result.advice /\ result'.safety = result.safety /\ result'.screened = result.screened
    BY <1>1, <2>2 DEF ResultType
  <2> QED
    BY <2>1, <2>3 DEF Undecided, Cleared, Calm, Unobjected, Early, Judged
<1>13. CASE Brief
  <2>1. PICK pressure :
          result' = [result EXCEPT
            !.posture = Posture(status, result.threat, pressure.urgency > 700),
            !.pulse = Pulse(pressure),
            !.options = RiskOptions(result.threat, pressure),
            !.caveats = Caveats(Blindspots(session.context.observations, session.context.signals),
                                pressure, result.refusal # {})]
    BY <1>13, ZenonT(90) DEF Brief
  <2>2. phase = "brief" /\ phase' = "guard" /\ session' = session /\ status' = status
    BY <1>13 DEF Brief
  <2>3. status = "COMPLETE" => Posture(status, result.threat, pressure.urgency > 700) # "WITHHOLD"
    BY DEF Posture
  <2>4. /\ result'.posture = Posture(status, result.threat, pressure.urgency > 700)
        /\ result'.archived = result.archived
        /\ result'.verdict = result.verdict /\ result'.tasks = result.tasks
        /\ result'.recorded = result.recorded
        /\ result'.threat = result.threat /\ result'.verification = result.verification
        /\ result'.review = result.review /\ result'.findings = result.findings
       
        /\ result'.advice = result.advice /\ result'.safety = result.safety /\ result'.screened = result.screened
    BY <1>1, <2>1 DEF ResultType
  <2> QED
    BY <2>2, <2>3, <2>4 DEF Undecided, Cleared, Calm, Unobjected, Early, Judged
<1>14. CASE Guard
  <2>1. /\ phase = "guard" /\ phase' = "narrate" /\ session' = session
        /\ result' = [result EXCEPT !.findings = GuardFindings]
        /\ status' = IF GuardFindings \cap HardRules # {} /\ status = "COMPLETE"
                     THEN "HUMAN_REVIEW" ELSE status
    BY <1>14 DEF Guard
  <2>2. status' = "COMPLETE" => status = "COMPLETE" /\ GuardFindings \cap HardRules = {}
    BY <2>1
  <2>3. /\ result'.findings = GuardFindings
        /\ result'.archived = result.archived
        /\ result'.verdict = result.verdict /\ result'.tasks = result.tasks
        /\ result'.recorded = result.recorded
        /\ result'.threat = result.threat /\ result'.verification = result.verification
        /\ result'.review = result.review /\ result'.posture = result.posture
       
        /\ result'.advice = result.advice /\ result'.safety = result.safety /\ result'.screened = result.screened
    BY <1>1, <2>1 DEF ResultType
  <2>4. phase \in Judged /\ phase' \in Judged /\ phase' \notin Early /\ phase # "finalize"
        /\ phase' \notin {"finalize", "gate", "forecast", "store"}
    BY <2>1 DEF Judged, Early
  <2> QED
    BY <2>1, <2>2, <2>3, <2>4 DEF Undecided, Cleared, Calm, Unobjected
<1>15. CASE Narrate
  <2>1. /\ phase = "narrate" /\ phase' = "enforce" /\ session' = session /\ status' = status
        /\ result' = [result EXCEPT !.advice = Advice(status)] \/ result' = result
    BY <1>15 DEF Narrate
  <2>2. status = "COMPLETE" => Advice(status) # "review"
    BY DEF Advice
  <2>3. /\ result'.advice \in {Advice(status), result.advice}
        /\ result'.archived = result.archived
        /\ result'.verdict = result.verdict /\ result'.tasks = result.tasks
        /\ result'.recorded = result.recorded
        /\ result'.threat = result.threat /\ result'.verification = result.verification
        /\ result'.review = result.review /\ result'.posture = result.posture
        /\ result'.findings = result.findings
        /\ result'.safety = result.safety /\ result'.screened = result.screened
    BY <1>1, <2>1 DEF ResultType
  <2> QED
    BY <2>1, <2>2, <2>3 DEF Undecided, Cleared, Calm, Unobjected, Early, Judged
<1>16. CASE Fail
  BY <1>3, <1>16 DEF Fail, Early
<1>17. CASE Enforce
  <2>1. phase = "enforce" /\ phase' = "done" /\ session' = session
    BY <1>17 DEF Enforce
  <2>2. CASE UNCHANGED <<status, result>>
    BY <2>1, <2>2 DEF Undecided, Cleared, Calm, Unobjected, Early, Judged
  <2> DEFINE report == SafetyReport(Scanned, result.dossier, result.threat, result.verification,
                                    result.threat # "none" /\ session.evidence)
  <2>3. ASSUME result' = [result EXCEPT !.safety = IF report.blocked # {} THEN "blocked" ELSE "passed",
                                        !.warnings = report.warnings],
               status' = IF report.blocked # {} THEN "WITHHELD" ELSE status
        PROVE  StatusInv'
    <3>0. report.blocked = Scanned \cap HardWording
      BY DEF SafetyReport
    <3> HIDE DEF report
    <3>1. CASE report.blocked # {}
      BY <1>3, <2>1, <2>3, <3>1 DEF Early
    <3>2. CASE report.blocked = {}
      <4>1. /\ result'.archived = result.archived
            /\ result'.verdict = result.verdict /\ result'.tasks = result.tasks
            /\ result'.recorded = result.recorded
            /\ result'.threat = result.threat /\ result'.verification = result.verification
            /\ result'.review = result.review /\ result'.posture = result.posture
            /\ result'.screened = result.screened /\ result'.findings = result.findings
            /\ result'.advice = result.advice /\ result'.dossier = result.dossier
        BY <1>1, <2>3, <3>2 DEF ResultType
      <4>2. Scanned \cap HardWording = {}
        BY <3>0, <3>2
      <4>3. Scanned' = Scanned
        BY <2>1, <4>1 DEF Scanned
      <4>4. Unobjected'
        BY <2>1, <4>2, <4>3 DEF Unobjected
      <4>5. status' = status
        BY <2>3, <3>2
      <4> QED
        BY <2>1, <4>1, <4>4, <4>5 DEF Undecided, Cleared, Calm, Early, Judged
    <3> QED
      BY <3>1, <3>2
  <2>4. \/ UNCHANGED <<status, result>>
        \/ /\ result' = [result EXCEPT !.safety = IF report.blocked # {} THEN "blocked" ELSE "passed",
                                        !.warnings = report.warnings]
           /\ status' = IF report.blocked # {} THEN "WITHHELD" ELSE status
    BY <1>17, Zenon DEF Enforce
  <2> QED
    BY <2>2, <2>3, <2>4
<1>18. CASE UNCHANGED vars
  <2>1. UNCHANGED <<phase, status, session, result>>
    BY <1>18 DEF vars
  <2>2. Undecided' /\ (Calm' <=> Calm) /\ (Unobjected' <=> Unobjected)
    BY <2>1 DEF Undecided, Calm, Unobjected, Scanned
  <2> QED
    BY <2>1, <2>2 DEF Cleared
<1> QED
  BY <1>5, <1>6, <1>7, <1>8, <1>9, <1>10, <1>11, <1>12, <1>13, <1>14, <1>15, <1>16, <1>17,
     <1>18 DEF Next

LEMMA AlwaysStatus == Spec => [](Typed /\ StatusInv)
<1> QED
  BY TypedInit, StatusInit, NextTyped, StatusNext, PTL DEF Spec

\* What is answered COMPLETE has passed verification, gate and guardrails, whatever
\* their inputs, and neither the black swan detector nor the enforcer objected to it
\* if it answered.
THEOREM ReleaseIsChecked == Spec => []ReleasedIsChecked
<1>1. Typed /\ StatusInv => ReleasedIsChecked
  BY DEF StatusInv, Cleared, Calm, Unobjected, ReleasedIsChecked, Judged
<1> QED
  BY <1>1, AlwaysStatus, PTL

\* What asked for a human, in the package, the briefing or the narrative, is
\* never answered COMPLETE.
THEOREM ReviewIsNeverReleased == Spec => []ReviewNeverReleased
<1>1. StatusInv => ReviewNeverReleased
  BY DEF StatusInv, Cleared, ReviewNeverReleased
<1> QED
  BY <1>1, AlwaysStatus, PTL

\* What is answered COMPLETE agrees with the audit log and the archive.
THEOREM ReleaseAgreesWithRecords == Spec => []ReleasedAgreesWithRecords
<1>1. StatusInv => ReleasedAgreesWithRecords
  BY DEF StatusInv, Cleared, ReleasedAgreesWithRecords, Judged
<1> QED
  BY <1>1, AlwaysStatus, PTL

\* No later step of a call releases what an earlier one held back.
THEOREM HeldIsNeverReleased == Spec => HeldStaysHeld
<1>1. StatusInv /\ [Next]_vars => [(status \in Held) => (status' # "COMPLETE")]_vars
  <2> SUFFICES ASSUME StatusInv, Next, status \in Held PROVE status' # "COMPLETE"
    OBVIOUS
  <2>1. phase \notin Early
    BY DEF StatusInv, Undecided, Held
  <2>2. \/ Finalize \/ Gate \/ Forecast \/ Store \/ Brief \/ Guard \/ Narrate \/ Fail \/ Enforce
    BY <2>1 DEF Early, Next, RefuseBlank, Begin, Research, ResearchNext, Collect, StopReady,
                StopOnPlateau, StopExhausted, RequestInformation, Gather, Reason, Synthesize,
                SynthesizeAgain, Verify
  <2>3. status' \in {status, "HUMAN_REVIEW", "WITHHELD", "ERROR"}
    BY <2>2 DEF Finalize, Gate, Forecast, Store, Brief, Guard, Narrate, Fail, Enforce
  <2> QED
    BY <2>3 DEF Held
<1> QED
  BY <1>1, AlwaysStatus, PTL DEF Spec, HeldStaysHeld
=============================================================================
