------------------------------ MODULE Pipeline ------------------------------
(***************************************************************************)
(* One call of unified_pipeline.execute(): collection and the research     *)
(* loop, synthesis, verification, the gate, the guardrails, the narrative  *)
(* and the safety enforcer, and what each does to the status of the        *)
(* result.  A step the code wraps in its own try may leave its output      *)
(* unset; any other step may raise, and execute() answers ERROR.           *)
(***************************************************************************)
EXTENDS ResearchLoop, Outlook

CONSTANTS
    Contexts,         \* what collection, the SRE and the council may have left
    LlmScores,        \* what the model may score a dimension
    LlmConfidences,   \* and its confidence
    Verifications,    \* what verify() may return as the score
    Dossiers          \* the wording the composed dossier may have

\* What the steps after the council read of it and of the state context.
NoContext ==
    [signals |-> <<>>, observations |-> 0, trends |-> <<>>, believed |-> FALSE, escalation |-> 0,
     sre |-> 0, capability |-> 0, rejected |-> FALSE,           \* by the legal firewall
     hypotheses |-> FALSE, confidence |-> 500, said |-> {},      \* wording of their types
     evidence |-> FALSE, concerns |-> FALSE]                     \* of the red team

ASSUME InputAssumption ==
    /\ IsFiniteSet(Dims)
    /\ \A c \in Contexts :
         /\ c.capability \in Scores /\ c.sre \in Scores /\ c.confidence \in Scores
         /\ c.escalation \in Scores /\ c.evidence \in BOOLEAN
         /\ HeuristicRail(c.signals) \in [Dims -> Scores]
         /\ Velocity(c.trends) \in Int /\ Len(Spiking(c.trends)) \in Nat
    /\ LlmScores \subseteq Int
    /\ LlmConfidences \subseteq Int
    /\ Verifications \subseteq Scores
    /\ Dossiers \subseteq SUBSET Wording

VARIABLES
    session,   \* the CouncilSession, its state_context's SRE included
    result     \* the result dictionary, but for its status

vars == <<phase, status, research, session, result>>

Phases == {"start", "collect", "evaluate", "search", "reason", "synthesize", "investigate",
           "verify", "finalize", "gate", "forecast", "store", "brief", "guard",
           "narrate", "enforce", "done"}

Statuses == {"ONGOING", "RFI_REQUIRED", "HUMAN_OVERRIDE_REQUIRED", "REFUSED",
             "HUMAN_REVIEW", "COMPLETE", "WITHHELD", "ERROR"}

\* Answers that are not for release.
Held == {"REFUSED", "HUMAN_REVIEW", "WITHHELD", "ERROR"}

NoSession ==
    [context |-> NoContext,
     rail |-> [d \in Dims |-> 0],   \* heuristic threat_dimensions
     level |-> "none",              \* final_decision
     confidence |-> 0, course |-> "none",
     saysHigh |-> FALSE,            \* its text contains "HIGH"
     dual |-> "none",               \* dual_mode_assessment's final level
     evidence |-> FALSE, verification |-> 0]

NoResult ==
    [threat |-> "none", course |-> "none", verification |-> 0,
     refusal |-> {}, review |-> "none",
     verdict |-> "none", tasks |-> {}, recorded |-> "none",   \* status in the audit log
     trajectory |-> NoTrajectory, reliability |-> 0,
     screened |-> FALSE, swan |-> {},           \* has black_swan, and its channels
     dossier |-> {}, archived |-> "none",       \* vault, learning and archive
     posture |-> "none", pulse |-> "none", options |-> {}, caveats |-> {},
     findings |-> {}, advice |-> "none", safety |-> "none", warnings |-> {}]

SessionType ==
    [context : Contexts \cup {NoContext}, rail : [Dims -> Scores],
     level : Levels \cup {"none"}, confidence : Int, course : Courses \cup {"model", "none"},
     saysHigh : BOOLEAN, dual : Levels \cup {"none"}, evidence : BOOLEAN, verification : Scores]

TrajectoryType ==
    [p14 : Scores, p30 : Scores, p60 : Scores, velocity : Int, label : Labels]

ResultType ==
    [threat : Levels \cup {"none"}, course : Courses \cup {"model", "none"}, verification : Scores,
     refusal : SUBSET Reasons, review : Priorities \cup {"none"},
     verdict : {"none", "APPROVED", "WITHHELD"}, tasks : SUBSET Modalities,
     recorded : Statuses \cup {"none"},
     trajectory : TrajectoryType, reliability : Int, screened : BOOLEAN, swan : SUBSET Channels,
     dossier : SUBSET Wording, archived : Levels \cup {"none"},
     posture : Postures \cup {"none"}, pulse : Pulses \cup {"none"},
     options : SUBSET Options, caveats : SUBSET AllCaveats,
     findings : SUBSET Rules, advice : Advices \cup {"none"},
     safety : {"none", "passed", "blocked"}, warnings : SUBSET Warnings]

\* Every variable keeps its type: the phase and status of the call, the
\* counts and locals of the loop, the session and the result.
TypeOK ==
    /\ phase \in Phases
    /\ status \in Statuses
    /\ ResearchTypeOK
    /\ session \in SessionType
    /\ result \in ResultType

Init ==
    /\ phase = "start"
    /\ status = "ONGOING"
    /\ ResearchInit
    /\ session = NoSession
    /\ result = NoResult

\* An empty query is refused before anything runs.
RefuseBlank ==
    /\ phase = "start"
    /\ status' = "REFUSED"
    /\ result' = [result EXCEPT !.threat = "LOW"]
    /\ phase' = "done"
    /\ UNCHANGED <<research, session>>

Begin ==
    /\ phase = "start"
    /\ phase' = "collect"
    /\ UNCHANGED <<status, research, session, result>>

Research == ResearchNext /\ UNCHANGED <<session, result>>

\* SRE, council, red team and first CRAG.  The signals do not change after
\* this, so they fix the heuristic scores that every decide() starts from.
Reason ==
    /\ phase = "reason"
    /\ \E c \in Contexts :
         session' = [session EXCEPT !.context = c, !.rail = HeuristicRail(c.signals),
                                    !.evidence = c.evidence]
    /\ phase' = "synthesize"
    /\ UNCHANGED <<status, research, result>>

\* _finalize: what validate_assessment objects to is written into the text,
\* with the word HIGH; the model, the gaps and the red team may write it too.
\* A second CRAG may add to the evidence log before the second decide().
Decided(level, scores, confidence, course, dual) ==
    LET unstable == Contradictory(level, scores, confidence, session.context.signals)
    IN  \E said \in BOOLEAN, found \in {FALSE, phase = "investigate"} :
          session' = [session EXCEPT !.level = level, !.confidence = confidence, !.course = course,
                                     !.saysHigh = said \/ unstable, !.dual = dual,
                                     !.evidence = @ \/ found]

\* decide() without an answer of the model: the heuristic stands, and the
\* dual-mode record keeps what an earlier decide() left in it.
DecideAlone ==
    LET level == LevelOf(session.rail)
    IN  Decided(level, session.rail, session.context.confidence, Course(level), session.dual)

DecideWith(llm, confidence) ==
    LET scores == Bounded(session.rail, llm)
        level == LevelOf(scores)
    IN  Decided(level, scores, BoundedConfidence(session.context.confidence, confidence),
                "model", level)

\* structured_completion: the first answer that fits IntelligenceAssessment, whose
\* fields all have a default.  With no provider at hand the deterministic chat
\* model answers; its fields are none of these.
Canned == [scores |-> [d \in Dims |-> 0], confidence |-> 0]
LlmAnswers == [scores : [Dims -> LlmScores], confidence : LlmConfidences] \cup {Canned}

\* The first decide().  A disagreement sends the session to CRAG once more.
Synthesize ==
    /\ phase = "synthesize"
    /\ \/ DecideAlone /\ phase' = "verify"
       \/ \E llm \in LlmAnswers :
            /\ DecideWith(llm.scores, llm.confidence)
            /\ phase' = IF Disagree(session.rail, llm.scores, session.context.confidence,
                                    llm.confidence)
                        THEN "investigate" ELSE "verify"
    /\ UNCHANGED <<status, research, result>>

\* CRAG fills the evidence log, not the signals: decide() sees the same rail.
SynthesizeAgain ==
    /\ phase = "investigate"
    /\ \/ DecideAlone
       \/ \E llm \in LlmAnswers : DecideWith(llm.scores, llm.confidence)
    /\ phase' = "verify"
    /\ UNCHANGED <<status, research, result>>

\* The test execute() makes on the text of final_decision.
NamesHigh == session.level = "HIGH" \/ session.saysHigh

\* Not verified: a refusal, and a package for review when the text says HIGH.
Verify ==
    /\ phase = "verify"
    /\ \E v \in Verifications :
         /\ session' = [session EXCEPT !.verification = v]
         /\ \/ /\ Verified(v)
               /\ status' = "COMPLETE"
               /\ UNCHANGED result
            \/ /\ ~Verified(v)
               /\ LET review == NamesHigh /\ v < 700
                      c == session.context
                  IN  /\ status' = IF review THEN "HUMAN_REVIEW" ELSE "REFUSED"
                      /\ result' = [result EXCEPT
                            !.refusal = RefusalReasons(c.hypotheses, v, session.evidence, c.concerns),
                            !.review = IF review THEN Priority(v) ELSE "none"]
    /\ phase' = "finalize"
    /\ UNCHANGED research

\* Mutant: a level missing from the list of known ones falls back to LOW.
FinalizeKnownLevels ==
    /\ phase = "finalize"
    /\ result' = [result EXCEPT !.threat = IF session.level = "MODERATE" THEN "LOW" ELSE session.level,
                                !.course = session.course, !.verification = session.verification]
    /\ phase' = "gate"
    /\ UNCHANGED <<status, research, session>>

\* The assessed fields are filled before the gate and the stores read them.
Finalize ==
    /\ phase = "finalize"
    /\ result' = [result EXCEPT !.threat = session.level,
                                !.course = session.course, !.verification = session.verification]
    /\ phase' = "gate"
    /\ UNCHANGED <<status, research, session>>

\* The audit log takes the status as it is before the verdict changes it.
\* Nothing has looked for a black swan yet, so mandatory_review is never set.
Gate ==
    /\ phase = "gate"
    /\ LET verdict == GateVerdict(AssessmentState(session.context.capability, result.verification,
                                                 result.threat, result.swan # {}))
       IN  /\ result' = [result EXCEPT !.verdict = IF verdict.withheld THEN "WITHHELD" ELSE "APPROVED",
                                       !.tasks = verdict.collection_tasks, !.recorded = status]
           /\ status' = IF ~verdict.withheld THEN status
                        ELSE IF verdict.mandatory_review THEN "HUMAN_REVIEW" ELSE "WITHHELD"
    /\ phase' = "forecast"
    /\ UNCHANGED <<research, session>>

\* What compute_trajectory leaves in the result, unless it raises.
Foreseen ==
    LET c == session.context
        trajectory == Trajectory(c.believed, c.escalation, c.trends)
    IN  {result, [result EXCEPT !.trajectory = trajectory,
                                !.reliability = Reliability(session.verification, trajectory)]}

\* Mutant: the absence of a black swan clears an approved assessment.
ForecastClears ==
    /\ phase = "forecast"
    /\ \E foreseen \in Foreseen :
          \/ \E swan \in {BlackSwan(session.context.signals, session.context.trends)} :
                /\ result' = [foreseen EXCEPT !.screened = TRUE, !.swan = swan]
                /\ status' = IF swan # {} THEN "HUMAN_REVIEW"
                             ELSE IF result.verdict = "APPROVED" THEN "COMPLETE" ELSE status
          \/ result' = foreseen /\ UNCHANGED status
    /\ phase' = "store"
    /\ UNCHANGED <<research, session>>

\* A black swan asks for review, whatever the gate said.  When the detector
\* raises, that is logged, and the status stays.
Forecast ==
    /\ phase = "forecast"
    /\ \E foreseen \in Foreseen :
          \/ \E swan \in {BlackSwan(session.context.signals, session.context.trends)} :
                /\ result' = [foreseen EXCEPT !.screened = TRUE, !.swan = swan]
                /\ status' = IF swan # {} THEN "HUMAN_REVIEW" ELSE status
          \/ result' = foreseen /\ UNCHANGED status
    /\ phase' = "store"
    /\ UNCHANGED <<research, session>>

\* The dossier is composed; memory vault, learning and forecast archive keep
\* the level, or fail unnoticed.
Store ==
    /\ phase = "store"
    /\ \E dossier \in Dossiers, archived \in {result.threat, result.archived} :
         result' = [result EXCEPT !.dossier = dossier, !.archived = archived]
    /\ phase' = "brief"
    /\ UNCHANGED <<status, research, session>>

\* build_head_of_country_briefing
Brief ==
    /\ phase = "brief"
    /\ LET c == session.context
           blindspots == Blindspots(c.observations, c.signals)
       IN  \E pressure \in {Pressure(c.signals, blindspots, c.sre, result.threat)} :
             result' = [result EXCEPT !.posture = Posture(status, result.threat, pressure.urgency > 700),
                                      !.pulse = Pulse(pressure),
                                      !.options = RiskOptions(result.threat, pressure),
                                      !.caveats = Caveats(blindspots, pressure, result.refusal # {})]
    /\ phase' = "guard"
    /\ UNCHANGED <<status, research, session>>

GuardFindings ==
    Violations(result.threat, result.verification, session.context.sre, session.context.rejected,
             result.posture # "none")

\* Mutant: a report that passed releases the assessment.
GuardReleases ==
    /\ phase = "guard"
    /\ result' = [result EXCEPT !.findings = GuardFindings]
    /\ status' = IF GuardFindings \cap HardRules # {} THEN "HUMAN_REVIEW" ELSE "COMPLETE"
    /\ phase' = "narrate"
    /\ UNCHANGED <<research, session>>

\* A hard finding holds back an assessment that was to be released.
Guard ==
    /\ phase = "guard"
    /\ result' = [result EXCEPT !.findings = GuardFindings]
    /\ status' = IF GuardFindings \cap HardRules # {} /\ status = "COMPLETE"
                 THEN "HUMAN_REVIEW" ELSE status
    /\ phase' = "narrate"
    /\ UNCHANGED <<research, session>>

Narrate ==
    /\ phase = "narrate"
    /\ \/ result' = [result EXCEPT !.advice = Advice(status)]
       \/ UNCHANGED result
    /\ phase' = "enforce"
    /\ UNCHANGED <<status, research, session>>

\* Steps outside every inner try; the checkpoint before the narrative is one.
\* What a step did before it raised is left out: after it only the enforcer
\* runs, and it reads none of that.
Unguarded == {"collect", "evaluate", "reason", "synthesize", "investigate", "verify",
              "finalize", "gate", "brief", "guard", "narrate"}

Fail ==
    /\ phase \in Unguarded
    /\ status' = "ERROR"
    /\ phase' = "enforce"
    /\ UNCHANGED <<research, session, result>>

\* The text the enforcer looks at: the hypotheses' types, and the dossier when
\* there is no briefing, whose own summary is a fixed sentence.
Scanned ==
    (IF result.posture = "none" THEN result.dossier ELSE {})
      \cup (IF result.threat = "none" THEN {} ELSE session.context.said)

\* The enforcer sees every answer but a blank query's, ERROR included.  When it
\* raises, that is logged, and the answer goes out as it is.
Enforce ==
    /\ phase = "enforce"
    /\ \/ \E report \in {SafetyReport(Scanned, result.dossier, result.threat, result.verification,
                                     result.threat # "none" /\ session.evidence)} :
             /\ result' = [result EXCEPT !.safety = IF report.blocked # {} THEN "blocked" ELSE "passed",
                                         !.warnings = report.warnings]
             /\ status' = IF report.blocked # {} THEN "WITHHELD" ELSE status
       \/ UNCHANGED <<status, result>>
    /\ phase' = "done"
    /\ UNCHANGED <<research, session>>

Next ==
    \/ RefuseBlank
    \/ Begin
    \/ Research
    \/ Reason
    \/ Synthesize
    \/ SynthesizeAgain
    \/ Verify
    \/ Finalize
    \/ Gate
    \/ Forecast
    \/ Store
    \/ Brief
    \/ Guard
    \/ Narrate
    \/ Fail
    \/ Enforce

Spec == Init /\ [][Next]_vars

\* execute() is one sequential coroutine that nothing but its own end stops.
FairSpec == Spec /\ WF_vars(Next)

----------------------------------------------------------------------------
(* Safety *)

\* What execute() answers COMPLETE has passed verification above 0.7, an
\* approving gate and the hard symbolic rules; and neither the black swan detector
\* nor the enforcer, if it answered, objected.  These two are passed over when they
\* raise.  Five steps guard the status between them, and each of them could be
\* undone by a later one.
ReleasedIsChecked ==
    phase = "done" /\ status = "COMPLETE" =>
      /\ session.verification > 700
      /\ session.context.capability >= 350
      /\ result.verdict = "APPROVED" /\ result.tasks = {}
      /\ result.findings \cap HardRules = {}
      /\ result.screened => BlackSwan(session.context.signals, session.context.trends) = {}
      /\ result.safety # "none" => Scanned \cap HardWording = {}

\* What told its reader to wait for a human is never answered COMPLETE: an
\* assessment with a review package, a briefing with the posture WITHHOLD, a
\* narrative that asks for review.
ReviewNeverReleased ==
    phase = "done" /\ (result.review # "none" \/ result.posture = "WITHHOLD" \/ result.advice = "review") =>
      status # "COMPLETE"

\* The audit log, the archive and the released answer tell one story: what is
\* answered COMPLETE was recorded as COMPLETE, with the level and the
\* verification of the session, and archived under that level if at all.
ReleasedAgreesWithRecords ==
    phase = "done" /\ status = "COMPLETE" =>
      /\ result.recorded = "COMPLETE"
      /\ result.threat = session.level
      /\ result.verification = session.verification
      /\ result.archived \in {result.threat, "none"}

\* However far the model's scores are from the heuristic ones, and whether or
\* not decide() ran twice, the level is at most one band from the heuristic's.
LevelWithinRail ==
    session.level # "none" =>
      /\ Rank[session.level] <= Rank[LevelOf(session.rail)] + 1
      /\ Rank[LevelOf(session.rail)] <= Rank[session.level] + 1

\* An assessment once refused, withheld, in review or failed never becomes
\* COMPLETE in a later step of the same call.
HeldStaysHeld == [][(status \in Held) => (status' # "COMPLETE")]_vars

\* A round of research never lowers readiness: what an RFI brings is added to
\* the evidence, whatever its source, and no term of the score falls with it.
ReadinessNeverFalls ==
    [][phase = "search" => Score(evidence') >= Score(evidence)]_vars

\* The loop stops for a plateau only when no evidence gap is open: while one
\* is, each round brings a signal, and the patience is never used up.
GivesUpOnlyWithoutGap ==
    [][phase = "evaluate" /\ outcome' = "plateau" => ~HasGap(evidence)]_vars

----------------------------------------------------------------------------
(* Liveness *)

\* Every call of execute() returns, whatever the evidence, the model and the
\* failures: the loop, its re-runs and the steps after it all come to an end.
AssessmentEnds == <>(phase = "done")

=============================================================================
