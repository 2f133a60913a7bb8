---------------------------- MODULE MCEnergyLoop ----------------------------
(* Small instances of the energy-aware control loop.                       *)
EXTENDS EnergyLoop

CONSTANTS a, b   \* jobs

MCLinear == [x \in Shares |-> x]

\* Three layers: too few for a pipeline of four stages.
MCThreeLayers == [j \in Jobs |-> 3]

\* Only job b has a context, deep enough for every width.
MCDeepB == [j \in Jobs |-> IF j = b THEN 3 ELSE 0]

\* Only job b has a context, too shallow for more than two stages.
MCShallow == [j \in Jobs |-> IF j = b THEN 2 ELSE 0]
=============================================================================
