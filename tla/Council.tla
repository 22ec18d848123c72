------------------------------- MODULE Council -------------------------------
(***************************************************************************)
(* What execute() makes of the scored signals: the heuristic baseline, the *)
(* council of ministers and experts, the merge of both, the red team, the  *)
(* corrective investigation of the gaps (CRAG) and the verification.       *)
(*                                                                         *)
(* Confidences are counted in thousandths and cut where the code rounds.   *)
(* A hypothesis keeps its confidence, whether it matched a signal and the  *)
(* categories of the gaps it names; a category is filled when all its gaps *)
(* are.  Every answer of a model is a choice, among them that none came.   *)
(***************************************************************************)
EXTENDS Cabinet, Scoring

CONSTANTS
    Bench,        \* the ministers, in the order they are asked
    Baseliners,   \* those who have a heuristic hypothesis as well
    Experts,      \* the roles a model may spawn
    Standing,     \* the roles that stand in when it spawns none
    Refinements,  \* a model's answers to a minister, pending RFIs among the gaps
    Opinions,     \* what a model makes of an expert's or the arbiter's prompt
    MaxRounds     \* MAX_INVESTIGATION_ROUNDS (5)

ASSUME CouncilAssumption ==
    /\ Bench \in Seq(DOMAIN Ministers)
    /\ Baseliners \subseteq DOMAIN BaselineGap
    /\ (Experts \cup Standing) \cap ({"Arbiter"} \cup DOMAIN Ministers) = {}
    /\ Standing # {} /\ MaxRounds \in Nat
    /\ \A answer \in Refinements \cup Opinions : answer.confidence \in 0..1000

NoOne == <<>>

VARIABLES
    turn,        \* the next minister on the bench
    hypotheses,  \* session.hypotheses, by author
    missing,     \* session.missing_signals
    conflict,    \* session.conflicts is not empty
    report,      \* what the red team's report holds against the council
    hunt,        \* CRAG's locals: the round and the gaps that remain
    again,       \* CRAG was called a second time
    verdict      \* what verify() returned

session == <<turn, hypotheses, missing, conflict, report, hunt, again, verdict>>
vars == <<scoringVars, session>>

AtRest == [round |-> 0, remaining |-> {}]

Init ==
    /\ ScoringInit
    /\ turn = 1
    /\ hypotheses = NoOne
    /\ missing = {}
    /\ conflict = FALSE /\ report = {} /\ again = FALSE
    /\ hunt = AtRest
    /\ verdict = "open"

-----------------------------------------------------------------------------
Sum(Of(_)) == Total([i \in DOMAIN signals |-> Of(signals[i])])

\* _heuristic_council: 0.9 of the mean intensity, for every minister alike.
Baseline ==
    IF signals = <<>> THEN NoOne
    ELSE [m \in Baseliners |->
            [confidence |-> AtMost(1000, (9 * Sum(LAMBDA s : s.intensity)) \div Len(signals)),
             matched    |-> \E i \in DOMAIN signals : signals[i].confidence > 50,
             missing    |-> {BaselineGap[m]}]]

\* _heuristic_proposal, k signals matching the minister's keywords.  No source of
\* the program has a name of the higher tiers, so all weights are 1.
Proposal(m, k) ==
    LET pressure == Sum(LAMBDA s : s.confidence * AtLeast(40, s.intensity)) \div Len(signals)
        match == AtMost(150, (150 * k) \div Ministers[m].predicted)
    IN [confidence |->
            IF signals = <<>> THEN 150
            ELSE IF k > 0
            THEN AtMost(950, AtLeast(400, 450 + (300 * pressure) \div Unit + match
                                              + (100 * score) \div Unit))
            ELSE AtMost(800, AtLeast(300, (450 * pressure + 300 * score) \div Unit)),
        matched |-> k > 0,
        missing |-> Ministers[m].gaps]

\* DeterministicHeuristicChatModel: its answer names no field of the schema but the
\* confidence, and fits.
Canned == [confidence |-> 850, cited |-> FALSE, matched |-> FALSE, missing |-> {}]

\* get_chat_model: a provider that has a key, a local model that is served or,
\* where there is neither, the deterministic one.
ChatAnswers == Refinements \cup {Canned}

\* structured_acompletion: the first attempt whose answer fits the schema - the
\* chat model is the last - or None.
ModelAnswers == ChatAnswers \cup {NoOne}

\* _merge_dual_mode: without a citation the model moves it by 0.15 at most.
Refined(own, model) ==
    LET moved == model.confidence - own.confidence
        bounded == IF moved > 0 THEN AtMost(1000, own.confidence + 150)
                                ELSE AtLeast(0, own.confidence - 150)
    IN [confidence |-> IF (moved > 150 \/ moved < -150) /\ ~model.cited
                       THEN bounded ELSE model.confidence,
        matched    |-> model.matched,
        missing    |-> model.missing]

\* A council with further voices; one that has spoken is not replaced.
Alone(name, view) == [n \in {name} |-> view]
Joined(council, others) ==
    [n \in DOMAIN council \cup DOMAIN others |->
        IF n \in DOMAIN council THEN council[n] ELSE others[n]]

Confidences(council) == {council[n].confidence : n \in DOMAIN council}
Spread(S) == S # {} /\ Max(S) - Min(S) > 300

Convene ==
    /\ step = "scored"
    /\ step' = IF forced THEN "merged" ELSE "ministers"
    /\ hypotheses' = IF forced THEN Baseline ELSE NoOne
    /\ UNCHANGED <<forced, context, turn, missing, conflict, report, hunt, again, verdict>>

MinisterSpeaks ==
    /\ step = "ministers" /\ turn <= Len(Bench)
    /\ \E k \in 0..AtMost(5, Len(signals)) :
       \E model \in ModelAnswers :
         LET own == Proposal(Bench[turn], k)
             final == IF model = NoOne THEN own ELSE Refined(own, model)
         IN /\ hypotheses' = Joined(hypotheses, Alone(Bench[turn], final))
            /\ missing' = missing \cup final.missing
    /\ turn' = turn + 1
    /\ UNCHANGED <<step, forced, context, conflict, report, hunt, again, verdict>>

\* A minister that raises is passed over.
MinisterFails ==
    /\ step = "ministers" /\ turn <= Len(Bench)
    /\ turn' = turn + 1
    /\ UNCHANGED <<step, forced, context, hypotheses, missing, conflict, report, hunt,
                   again, verdict>>

\* spawn_experts: the model's first four roles, or the standing ones.
Panels == {Standing} \cup {R \in SUBSET Experts : Cardinality(R) \in 1..4}

\* DynamicExpert.analyze, with what an expert says when the model gives it nothing.
NoAnalysis == [confidence |-> 500, matched |-> FALSE, missing |-> {}]
Analyses(panel) == [panel -> Opinions \cup {NoAnalysis}]

\* resolve_conflicts: the arbiter's own view or, when the model fails, that of the
\* most confident.  Only experts have the rationale it then reads: the error of a
\* minister's, or the baseline's, loses every expert.
Arbitrated(opinions, others) ==
    LET loudest == Max(Confidences(opinions) \cup Confidences(others))
    IN {Joined(opinions, Alone("Arbiter", view)) : view \in Opinions}
       \cup IF \E e \in DOMAIN opinions : opinions[e].confidence = loudest
            THEN {Joined(opinions, Alone("Arbiter", opinions[e])) :
                     e \in {x \in DOMAIN opinions : opinions[x].confidence = loudest}}
            ELSE {NoOne}

\* The experts answer in parallel; if they and the baseline disagree the arbiter
\* reconciles them.
ConsultExperts ==
    /\ step = "ministers" /\ turn > Len(Bench)
    /\ LET others == IF Baseline # NoOne THEN Baseline ELSE hypotheses
       IN \E panel \in Panels : \E opinions \in Analyses(panel) :
          \E voices \in IF Spread(Confidences(opinions) \cup Confidences(others))
                         THEN Arbitrated(opinions, others) ELSE {opinions} :
             hypotheses' = Joined(hypotheses, voices)
    /\ conflict' = Spread(Confidences(hypotheses'))
    /\ step' = "merge"
    /\ UNCHANGED <<forced, context, turn, missing, report, hunt, again, verdict>>

\* Mutant: two hypotheses that disagree are averaged as well.
ConsensusMean(heuristic, ai) ==
    IF heuristic >= 700 /\ ai >= 700
    THEN AtMost(1000, AtLeast(heuristic, ai) + 100)
    ELSE (heuristic + ai) \div 2

\* Both high: higher; both low: the mean; otherwise the heuristic's.
Consensus(heuristic, ai) ==
    IF heuristic >= 700 /\ ai >= 700
    THEN AtMost(1000, AtLeast(heuristic, ai) + 100)
    ELSE IF heuristic < 400 /\ ai < 400 THEN (heuristic + ai) \div 2
    ELSE heuristic

\* _merge_dual_engine_hypotheses
MergeEngines ==
    /\ step = "merge"
    /\ LET both(m) == [confidence |-> Consensus(Baseline[m].confidence, hypotheses[m].confidence),
                       matched    |-> Baseline[m].matched \/ hypotheses[m].matched,
                       missing    |-> Baseline[m].missing \cup hypotheses[m].missing]
           agreed == DOMAIN Baseline \cap DOMAIN hypotheses
       IN hypotheses' = Joined([m \in agreed |-> both(m)], Joined(Baseline, hypotheses))
    /\ step' = "merged"
    /\ UNCHANGED <<forced, context, turn, missing, conflict, report, hunt, again, verdict>>

\* _select_targets: the weak hypotheses, and the conflict found before the merge.
Weak == {n \in DOMAIN hypotheses : hypotheses[n].confidence < 400}
Targeted == Weak # {} \/ conflict

\* _heuristic_challenge: it is not asked about a council without a target, so
\* that one of which everybody is sure hears of groupthink only after a conflict.
Biases ==
    LET all == Confidences(hypotheses)
    IN {b \in {"low_confidence", "conflict", "polarization", "groupthink"} :
          \/ b = "low_confidence" /\ Weak # {}
          \/ b = "conflict" /\ conflict
          \/ b = "polarization" /\ Max(all) - Min(all) > 500
          \/ b = "groupthink" /\ Cardinality(DOMAIN hypotheses) >= 3 /\ Min(all) > 700}

\* challenge(): by rules, or in the words of a model.
Challenges(targeted) ==
    IF ~targeted THEN {{}} ELSE IF forced THEN {Biases} ELSE {Biases, {"model"}}

\* The gaps of the hypotheses count when the ministers named none; the red team
\* is called if there is anything to contradict.
Challenge ==
    /\ step = "merged"
    /\ missing' = IF missing # {} THEN missing
                  ELSE UNION {hypotheses[n].missing : n \in DOMAIN hypotheses}
    /\ report' \in Challenges(Targeted /\ (conflict \/ Cardinality(DOMAIN hypotheses) > 1))
    /\ step' = IF missing' = {} THEN "decide" ELSE "crag"
    /\ hunt' = [round |-> 0, remaining |-> missing']
    /\ UNCHANGED <<forced, context, turn, hypotheses, conflict, again, verdict>>

-----------------------------------------------------------------------------
\* _llm_investigate, one round: the gaps whose request some signal mentions are
\* filled.  Requests and gaps are paired by position, whatever they ask.
CoverGaps ==
    /\ step = "crag" /\ ~forced
    /\ hunt.round < MaxRounds /\ hunt.remaining # {}
    /\ \E covered \in SUBSET hunt.remaining :
         /\ signals = <<>> => covered = {}
         /\ hunt' = [round |-> hunt.round + 1, remaining |-> hunt.remaining \ covered]
    /\ UNCHANGED <<step, forced, context, turn, hypotheses, missing, conflict, report,
                   again, verdict>>

EndHunt(left) ==
    /\ missing' = left
    /\ hunt' = AtRest
    /\ step' = "decide"
    /\ UNCHANGED <<forced, context, turn, hypotheses, conflict, report, again, verdict>>

CragEnds ==
    /\ step = "crag" /\ ~forced
    /\ hunt.round = MaxRounds \/ hunt.remaining = {}
    /\ EndHunt(hunt.remaining)

\* _heuristic_investigate, at once or when the model fails: a gap of a known
\* category is struck off, corroborated or not, and only written to the log.
CragByRules ==
    /\ step = "crag"
    /\ forced \/ (hunt.round < MaxRounds /\ hunt.remaining # {})
    /\ EndHunt(missing \ Categories)

\* Mutant: CRAG is called as long as the engines disagree.
DecideInAgreement ==
    /\ step = "decide"
    /\ \/ step' = "verify" /\ UNCHANGED <<hunt, again>>
       \/ /\ ~forced
          /\ again' = TRUE
          /\ step' = IF missing = {} THEN "decide" ELSE "crag"
          /\ hunt' = [round |-> 0, remaining |-> missing]
    /\ UNCHANGED <<forced, context, turn, hypotheses, missing, conflict, report, verdict>>

\* decide(), and once more with CRAG when its two engines disagree.
Decide ==
    /\ step = "decide"
    /\ \/ step' = "verify" /\ UNCHANGED <<hunt, again>>
       \/ /\ ~forced /\ ~again
          /\ again' = TRUE
          /\ step' = IF missing = {} THEN "decide" ELSE "crag"
          /\ hunt' = [round |-> 0, remaining |-> missing]
    /\ UNCHANGED <<forced, context, turn, hypotheses, missing, conflict, report, verdict>>

-----------------------------------------------------------------------------
Outlets == {Outlet(signals[i].source) : i \in DOMAIN signals}

\* The mean support of the beliefs, or of the signals when there is no belief.
MeanSupport ==
    IF DOMAIN beliefs # {} THEN Total(beliefs) \div Cardinality(DOMAIN beliefs)
    ELSE IF signals # <<>> THEN Sum(LAMBDA s : s.confidence) \div Len(signals)
    ELSE 0

\* Mutant: without any support there is nothing to hold against the claims.
CorroborationByDefault ==
    IF DOMAIN beliefs = {} /\ signals = <<>> THEN Unit
    ELSE Trapezoid(MeanSupport, 15, 35, 75, 100)

Corroboration == Trapezoid(MeanSupport, 15, 35, 75, 100)

Diversity == AtMost(Unit, AtLeast(0, ((10 * Cardinality(Outlets) - 5) * Unit) \div 35))

\* decompose(): the rules make a claim of every hypothesis, a model perhaps none.
Claims ==
    IF hypotheses = NoOne THEN {FALSE} ELSE IF forced THEN {TRUE} ELSE BOOLEAN

\* verify(): the claims are on the evidence log they are looked up in, so that
\* their coverage is always full.
Verify ==
    /\ step = "verify"
    /\ \E claimed \in Claims :
         verdict' = IF claimed /\ (Unit \div 2 + Diversity \div 4 + Corroboration \div 4 + 5)
                                     \div 10 > 700
                    THEN "verified" ELSE "unverified"
    /\ step' = "done"
    /\ UNCHANGED <<forced, context, turn, hypotheses, missing, conflict, report, hunt, again>>

CouncilNext ==
    \/ Convene \/ MinisterSpeaks \/ MinisterFails \/ ConsultExperts \/ MergeEngines
    \/ Challenge \/ CoverGaps \/ CragEnds \/ CragByRules \/ Decide \/ Verify

Next == (ScoringNext /\ UNCHANGED session) \/ CouncilNext

Spec == Init /\ [][Next]_vars

\* execute() is one coroutine: what it awaits returns or raises.
FairSpec == Spec /\ WF_vars(Next)

-----------------------------------------------------------------------------
Band(confidence) == IF confidence < 400 THEN "low" ELSE IF confidence < 700 THEN "open" ELSE "high"

\* Whatever ministers, experts and arbiter say, or fail to say, every baseline
\* minister still has a hypothesis after the merge, and in its own band.
BaselineBandsHold ==
    step \in {"merged", "crag", "decide", "verify", "done"} =>
        \A m \in DOMAIN Baseline :
            /\ m \in DOMAIN hypotheses
            /\ Band(hypotheses[m].confidence) = Band(Baseline[m].confidence)

\* A verified assessment rests on signals of four outlets, or on support that is
\* neither negligible nor complete, and answers for some hypothesis.
VerifiedIsGrounded ==
    verdict = "verified" =>
        /\ signals # <<>> /\ hypotheses # NoOne
        /\ Cardinality(Outlets) >= 4 \/ MeanSupport \in 16..99

\* However often the models fail or find nothing, the assessment is verified or
\* refused in the end.
CouncilEnds == <>(step = "done")
=============================================================================
