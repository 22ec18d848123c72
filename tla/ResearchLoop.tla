---------------------------- MODULE ResearchLoop ----------------------------
(***************************************************************************)
(* InvestigationController.run_loop: evaluate readiness, and while it is   *)
(* too low send RFIs and take in what they bring, until the evidence is    *)
(* ready, the score stops improving, or the rounds run out.                *)
(*                                                                         *)
(* phase and status belong to the pipeline that calls the loop.            *)
(***************************************************************************)
EXTENDS Readiness

CONSTANTS
    MaxIterations,    \* max_iterations (5)
    MinReadiness,     \* min_readiness, in half points (150)
    PlateauPatience,  \* plateau_patience (2)
    SeedEvidence,     \* what collection may bring before the loop
    ModelYields       \* how many signals the model may extract from one RFI

ASSUME LoopAssumption ==
    /\ MaxIterations \in Nat \ {0}
    /\ MinReadiness \in Nat
    /\ PlateauPatience \in Nat \ {0}
    /\ SeedEvidence \subseteq Evidence
    /\ ModelYields \subseteq Nat \ {0}

VARIABLES
    phase,     \* the step of execute() that comes next
    status,    \* result["status"]
    evidence,  \* the counts of state_context
    loop,      \* run_loop's locals: iteration, previous score, plateau count
    outcome    \* why the loop ended (readiness_report)

research == <<evidence, loop, outcome>>

LoopStart == [iteration |-> 1, previous |-> 0, plateau |-> 0]

ResearchInit ==
    /\ evidence = NoEvidence
    /\ loop = LoopStart
    /\ outcome = "open"

ResearchTypeOK ==
    /\ evidence \in Evidence
    /\ loop \in [iteration : 1..MaxIterations, previous : 0..200, plateau : 0..PlateauPatience]
    /\ outcome \in {"open", "ready", "plateau", "exhausted"}

\* build_state_context: the feeds, or the query itself when they are silent.
Collect ==
    /\ phase = "collect"
    /\ evidence' \in SeedEvidence
    /\ phase' = "evaluate"
    /\ UNCHANGED <<status, loop, outcome>>

Ready(e) == Score(e) >= 160 \/ Score(e) >= MinReadiness

\* Mutant: a gain of at most five points counts as a plateau.
PlateauCountSteep ==
    IF loop.iteration = 1 THEN loop.plateau
    ELSE IF Score(evidence) <= loop.previous + 10 THEN loop.plateau + 1
    ELSE 0

\* A gain of at most one point is a plateau; the first round is none.
PlateauCount ==
    IF loop.iteration = 1 THEN loop.plateau
    ELSE IF Score(evidence) <= loop.previous + 2 THEN loop.plateau + 1
    ELSE 0

\* The loop's locals die with it, and no later step reads the counts.
Leave(how) ==
    /\ outcome' = how
    /\ phase' = "reason"
    /\ loop' = LoopStart
    /\ evidence' = NoEvidence

StopReady ==
    /\ phase = "evaluate"
    /\ Ready(evidence)
    /\ Leave("ready")
    /\ UNCHANGED status

StopOnPlateau ==
    /\ phase = "evaluate"
    /\ ~Ready(evidence)
    /\ loop.iteration > 1
    /\ PlateauCount >= PlateauPatience
    /\ Leave("plateau")
    /\ UNCHANGED status

KeepsGoing == ~Ready(evidence) /\ (loop.iteration = 1 \/ PlateauCount < PlateauPatience)

StopExhausted ==
    /\ phase = "evaluate"
    /\ KeepsGoing
    /\ loop.iteration = MaxIterations
    /\ status' = "HUMAN_OVERRIDE_REQUIRED"
    /\ Leave("exhausted")

\* Mutant: the last round asks for information once more.
RequestInformationOnceMore ==
    /\ phase = "evaluate"
    /\ KeepsGoing
    /\ status' = "RFI_REQUIRED"
    /\ loop' = [loop EXCEPT !.previous = Score(evidence), !.plateau = PlateauCount]
    /\ phase' = "search"
    /\ UNCHANGED <<evidence, outcome>>

RequestInformation ==
    /\ phase = "evaluate"
    /\ KeepsGoing
    /\ loop.iteration < MaxIterations
    /\ status' = "RFI_REQUIRED"
    /\ loop' = [loop EXCEPT !.previous = Score(evidence), !.plateau = PlateauCount]
    /\ phase' = "search"
    /\ UNCHANGED <<evidence, outcome>>

\* extract_signals never comes back empty: the keyword fallback gives one signal.
Findings ==
    IF HasGap(evidence)
    THEN {Extended(evidence, n, "rfi-query") : n \in ModelYields}
           \cup {Extended(evidence, 1, "rfi-extract")}
    ELSE {evidence}

\* Mutant: the round is not counted.
GatherUncounted ==
    /\ phase = "search"
    /\ evidence' \in Findings
    /\ phase' = "evaluate"
    /\ UNCHANGED <<status, loop, outcome>>

Gather ==
    /\ phase = "search"
    /\ evidence' \in Findings
    /\ loop' = [loop EXCEPT !.iteration = @ + 1]
    /\ phase' = "evaluate"
    /\ UNCHANGED <<status, outcome>>

ResearchNext ==
    \/ Collect
    \/ StopReady
    \/ StopOnPlateau
    \/ StopExhausted
    \/ RequestInformation
    \/ Gather
=============================================================================
