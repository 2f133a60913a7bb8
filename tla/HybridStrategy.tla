--------------------------- MODULE HybridStrategy ----------------------------
(***************************************************************************)
(* The planner: how many replicas (dp) of how many stages (mp) a job gets  *)
(* from a number of GPUs, by the analytic runtime model.  A model m has    *)
(* the time of a sample on one device (work), the time to move the model   *)
(* over the network, there and back (link), the bubble of a stage in       *)
(* percent (bubble), the samples of a replica (micro), and the global      *)
(* batch that is split among the replicas instead, 0 for None (batch).     *)
(* Runtimes are exact fractions; the rounding of floats is not modelled.   *)
(***************************************************************************)
EXTENDS Integers

Model == [work : Nat \ {0}, link : Nat, bubble : Nat, micro : Nat \ {0}, batch : Nat]

\* SimpleRuntimeModel: compute, split over the stages, the bubble on top of
\* it, and the all-reduce of a stage's shard among the replicas.
Runtime(m, dp, mp) ==
    LET samples == IF m.batch = 0 THEN m.micro * dp ELSE m.batch
    IN [num |-> m.work * samples * (100 + m.bubble * (mp - 1)) + 100 * m.link * (dp - 1) * dp,
        den |-> 100 * dp * mp]

Less(a, b) == a.num * b.den < b.num * a.den

\* The runtime with mp stages when the replicas take what GPUs there are.
Filled(m, gpus, mp) == Runtime(m, gpus \div mp, mp)

\* Mutant: the range ends before the cluster size.
SelectShort(m, gpus) ==
    LET best[mp \in 1 .. gpus] ==
            IF mp = 1 \/ (mp < gpus /\ Less(Filled(m, gpus, mp), Filled(m, gpus, best[mp - 1])))
            THEN mp ELSE best[mp - 1]
    IN <<gpus \div best[gpus], best[gpus]>>

\* select_hybrid_strategy: the first number of stages with the least runtime.
Select(m, gpus) ==
    LET best[mp \in 1 .. gpus] ==
            IF mp = 1 \/ Less(Filled(m, gpus, mp), Filled(m, gpus, best[mp - 1]))
            THEN mp ELSE best[mp - 1]
    IN <<gpus \div best[gpus], best[gpus]>>
=============================================================================
