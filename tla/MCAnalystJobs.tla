--------------------------- MODULE MCAnalystJobs ---------------------------
(* Symmetry for the safety runs of AnalystJobs (liveness runs do without). *)
EXTENDS AnalystJobs, TLC

Symmetry == Permutations(Jobs) \cup Permutations(Workers)
=============================================================================
