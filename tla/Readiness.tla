------------------------------ MODULE Readiness ------------------------------
(***************************************************************************)
(* The readiness score of the investigation control loop                   *)
(* (runtime/control_loop/readiness_engine.py, gap_analyzer.py).            *)
(*                                                                         *)
(* A score is counted in half points, 0..200 for the code's 0.0..100.0, so *)
(* that every weighted term is a whole number.  Evidence is reduced to the *)
(* counts the score reads.  The contradiction term is full: nothing on the *)
(* pipeline's path gives a StateContext contradictions.                    *)
(***************************************************************************)
EXTENDS Naturals, FiniteSets

AtMost(cap, n) == IF n > cap THEN cap ELSE n
AtLeast(floor, n) == IF n < floor THEN floor ELSE n

\* The source_ref of a signal an RFI brings: the model's, or the keyword fallback's.
RfiSources == {"rfi-query", "rfi-extract"}

Evidence == [signals      : Nat,
             observations : Nat,
             trends       : Nat,              \* temporal_indicators
             feeds        : Nat,              \* distinct sources of the seed
             rfi          : SUBSET RfiSources]

NoEvidence == [signals |-> 0, observations |-> 0, trends |-> 0, feeds |-> 0, rfi |-> {}]

Coverage(e)     == AtMost(60, 4 * e.signals)
Temporal(e)     == IF e.signals > 0 THEN AtLeast(8, AtMost(20, 3 * e.trends))
                                    ELSE AtMost(20, 3 * e.trends)
Diversity(e)    == AtMost(40, 10 * (e.feeds + Cardinality(e.rfi)))
Entities(e)     == AtMost(30, 3 * e.observations)
Connectivity(e) == IF e.signals >= 5 THEN 30 ELSE 18

Score(e) == Coverage(e) + Temporal(e) + Diversity(e) + Entities(e) + Connectivity(e) + 20

\* EVIDENCE_SHORTAGE, the one gap for which the loop sends an RFI: a goal has no
\* domains, and the explicit gaps have priority LOW.
HasGap(e) == e.signals < 12

\* Mutant: the answer of an RFI replaces the signals.
ExtendedReplacing(e, n, source) ==
    [signals |-> n, observations |-> e.observations + n,
     trends |-> e.trends, feeds |-> e.feeds, rfi |-> e.rfi \cup {source}]

\* The signals of one RFI are appended, and counted as observations too.
Extended(e, n, source) ==
    [signals |-> e.signals + n, observations |-> e.observations + n,
     trends |-> e.trends, feeds |-> e.feeds, rfi |-> e.rfi \cup {source}]
=============================================================================
