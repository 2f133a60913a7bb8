-------------------------- MODULE DeficitRoundRobin --------------------------
(***************************************************************************)
(* The deficit-weighted round robin of inter_batch.py.  Every node earns   *)
(* its weight in each pick, the node with the largest deficit is chosen    *)
(* once it has earned a whole turn, and pays for the turn.                 *)
(*                                                                         *)
(* Weights are fractions of one turn, kept as numbers of parts of which    *)
(* Turn make one turn.  The code adds them up as floats: ten times 0.1 is  *)
(* a little less than 1.0.  Its errors are taken to stay below one part,   *)
(* so they decide only where the parts say equal, and there either way: a  *)
(* deficit of exactly one turn may be enough or not, and of nodes with the *)
(* same deficit any may have the largest float.                            *)
(***************************************************************************)
EXTENDS Integers, FiniteSets, FiniteSetsExt

CONSTANTS
    NumNodes,   \* nodes of the stage, in the order of the scheduler's list
    Turn        \* parts of one turn: a multiple of every sum of raw weights

ASSUME RoundRobinAssumption == NumNodes \in Nat \ {0} /\ Turn \in Nat \ {0}

Nodes == 1 .. NumNodes
Nobody == 0

Total(raw) == MapThenSumSet(LAMBDA n : raw[n], Nodes)

\* Normalised weights: the sum is one turn, or nothing when every raw one is 0.
Normalised(raw) ==
    [n \in Nodes |-> IF Total(raw) = 0 THEN 0 ELSE (raw[n] * Turn) \div Total(raw)]

\* deficit after every node has earned its weight
Earned(deficit, weights) == [n \in Nodes |-> deficit[n] + weights[n]]

\* max(nodes, key=deficit): the nodes whose float may be the largest.
Richest(deficit) == {n \in Nodes : \A m \in Nodes : deficit[m] <= deficit[n]}

\* Mutant: half a turn is enough, as if deficits were rounded.
PicksEarly(deficit, weights) ==
    LET earned == Earned(deficit, weights)
    IN {n \in Richest(earned) : 2 * earned[n] >= Turn}
         \cup {n \in {Nobody} : \A m \in Nodes : 2 * earned[m] <= Turn}

\* The nodes pick may return; Nobody when it may find that none has earned a turn.
Picks(deficit, weights) ==
    LET earned == Earned(deficit, weights)
    IN {n \in Richest(earned) : earned[n] >= Turn}
         \cup {n \in {Nobody} : \A m \in Nodes : earned[m] <= Turn}

\* Mutant: a pick that finds no node leaves the deficits as they were.
ChargedWhenPicked(deficit, weights, node) ==
    [n \in Nodes |-> IF node = Nobody THEN deficit[n]
                     ELSE Earned(deficit, weights)[n] - IF n = node THEN Turn ELSE 0]

\* The deficits a pick of node leaves behind.
Charged(deficit, weights, node) ==
    [n \in Nodes |-> Earned(deficit, weights)[n] - IF n = node THEN Turn ELSE 0]
=============================================================================
