--------------------------- MODULE Repartitioning ---------------------------
(***************************************************************************)
(* What _repartition leaves of a job's cached partition and of its         *)
(* stagnation tracker, whatever the partitioners compute: the depth of the *)
(* partition, the tracker's best score and stagnant calls, and whether a   *)
(* partitioner found no feasible partition.  The control loop is built     *)
(* from these outcomes, and the partitioner is shown to have no others.    *)
(***************************************************************************)
EXTENDS Integers

CONSTANTS
    Patience,   \* stagnation_patience
    MaxScore    \* bound: partition scores are 0 .. MaxScore

ASSUME RepartitioningAssumption == Patience \in Nat \ {0} /\ MaxScore \in Nat

Infinite == MaxScore + 1

Outcome(depth, low, c, f) == [part |-> depth, best |-> low, calls |-> c, fails |-> f]

\* StagnationTracker.observe
Lowest(score, low) == IF score < low THEN score ELSE low
Stagnant(score, low, c) == IF score < low THEN 0 ELSE c + 1

\* A first partition, or one of another depth: the full DP, then reset_all.
\* The infeasible case (RuntimeError) keeps the old partition and tracker.
FullOutcomes(t, depth, low, c) == {Outcome(t, Infinite, 0, 0), Outcome(depth, low, c, 1)}

\* The same depth: slide the cuts within the window, let the tracker observe
\* the score, and on stagnation run the full DP and reset the counter.  When
\* that DP is infeasible the counter stands.
SlideOutcomes(depth, low, c) ==
    UNION {IF Stagnant(score, low, c) < Patience
           THEN {Outcome(depth, Lowest(score, low), Stagnant(score, low, c), 0)}
           ELSE {Outcome(depth, Lowest(score, low), 0, 0),
                 Outcome(depth, Lowest(score, low), Stagnant(score, low, c), 1)} :
           score \in 0 .. MaxScore}
=============================================================================
