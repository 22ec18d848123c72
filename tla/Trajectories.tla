---------------------------- MODULE Trajectories ----------------------------
(***************************************************************************)
(* The beliefs of an agent over time (belief_revision.py) and what the     *)
(* trajectory engine projects from them (trajectory_engine.py).            *)
(*                                                                         *)
(* A stated probability is in percent; a momentum, a projection and a      *)
(* share, of which the code keeps four decimals, are in hundredths of a    *)
(* percent, cut to a whole one.                                            *)
(***************************************************************************)
EXTENDS Integers, SequencesExt

CONSTANT Kernel  \* what a state weighs at this distance from its centre

\* How far a projection may lie from a centre.
Reach == 9000

\* A Gaussian of width 0.15 in the code.  Only its falling matters to what is said
\* of it, and that the state nearest to a projection weighs something.
ASSUME KernelAssumption ==
    /\ Kernel \in [0..Reach -> Nat]
    /\ \A d \in 0..(Reach - 1) : Kernel[d + 1] <= Kernel[d]
    /\ Kernel[1000] > 0

Abs(n) == IF n < 0 THEN -n ELSE n
Between(lo, hi, n) == IF n < lo THEN lo ELSE IF n > hi THEN hi ELSE n

\* The snapshots of an agent that states these probabilities in turn.
Recorded(probabilities) ==
    [i \in DOMAIN probabilities |->
        [p |-> probabilities[i],
         delta |-> IF i = 1 THEN 0 ELSE probabilities[i] - probabilities[i - 1]]]

\* Average change over the last three snapshots; the first one's is 0 and counts.
Momentum(snapshots) ==
    LET n == Len(snapshots)
        recent == (IF n > 3 THEN n - 2 ELSE 1)..n
    IN IF n < 2 THEN 0
       ELSE (100 * SumFunction([i \in recent |-> snapshots[i].delta])) \div Cardinality(recent)

\* For how many snapshots the last direction has held; standing still is a rise.
Persistence(snapshots) ==
    LET n == Len(snapshots)
        Same(i) == (snapshots[i].delta >= 0) = (snapshots[n].delta >= 0)
    IN IF n < 2 THEN 0
       ELSE Cardinality({i \in 1..n : \A j \in i..n : Same(j)})

\* base + average momentum * horizon / 7, decaying with the horizon.
Projected(base, trajectories, horizon) ==
    LET heard == {i \in DOMAIN trajectories : trajectories[i] # <<>>}
        sum == SumFunction([i \in heard |-> Momentum(trajectories[i])])
    IN IF heard = {} THEN 100 * base
       ELSE Between(0, 10000,
                100 * base + (sum * 50 * horizon) \div (Cardinality(heard) * 7 * (50 + horizon)))

ConflictStates == <<"PEACE", "CRISIS", "LIMITED_CONFLICT", "ACTIVE_CONFLICT", "FULL_WAR">>
Centre == <<1000, 3000, 5000, 7000, 9000>>

Weight(projected, i) == Kernel[Abs(projected - Centre[i])]

\* The share of the states of this set in the distribution.
Share(projected, states) ==
    LET Mass(set) == SumFunction([i \in set |-> Weight(projected, i)]) IN
    (10000 * Mass({i \in 1..5 : ConflictStates[i] \in states})) \div Mass(1..5)

\* The state that weighs most; the first of equals.
Heaviest(projected, i) ==
    \A j \in 1..5 : \/ Weight(projected, j) < Weight(projected, i)
                    \/ Weight(projected, j) = Weight(projected, i) /\ i <= j

Dominant(projected) ==
    CHOOSE s \in ToSet(ConflictStates) :
        \E i \in 1..5 : s = ConflictStates[i] /\ Heaviest(projected, i)

Warnings(snapshots) ==
    IF snapshots = <<>> THEN {}
    ELSE {w \in {"THRESHOLD_CROSSING", "MOMENTUM_SPIKE", "PERSISTENCE_ALERT"} :
            CASE w = "THRESHOLD_CROSSING" -> Last(snapshots).p >= 65
              [] w = "MOMENTUM_SPIKE" -> Abs(Momentum(snapshots)) >= 1000
              [] w = "PERSISTENCE_ALERT" -> Persistence(snapshots) >= 3}
=============================================================================
