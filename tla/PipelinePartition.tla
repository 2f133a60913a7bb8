-------------------------- MODULE PipelinePartition --------------------------
(***************************************************************************)
(* The two partitioners of partitioner.py, as operators: the dynamic       *)
(* program over all cuts, and the search that slides the cuts of an        *)
(* earlier partition.  A partition of n layers over K stages is its K - 1  *)
(* cuts: the last layer of every stage but the last.                       *)
(*                                                                         *)
(* Layers and stages are numbered from 1, times are counted in halves of   *)
(* a unit, and a stage has a slowness (time for one FLOP) where the code   *)
(* divides by its throughput: no quotient is left to round.                *)
(***************************************************************************)
EXTENDS Integers, Sequences, FiniteSets, FiniteSetsExt, Functions

CONSTANTS
    Links,       \* links[s]: [latency, perByte] from stage s to the next
    Unreachable  \* bound: larger than every score of a partition

ASSUME PartitionAssumption ==
    /\ Unreachable \in Nat
    /\ Links \in Seq([latency : Nat, perByte : Nat])

\* A RepartitionContext: its layers, objective and boundary_window.
ContextType ==
    [layers : Seq([flops : Nat, activation : Nat]),
     objective : {"bottleneck", "energy"}, window : Nat]

Flops(ctx, a, b) == SumFunction([i \in a .. b |-> ctx.layers[i].flops])
Memory(ctx, a, b) == SumFunction([i \in a .. b |-> ctx.layers[i].activation])

\* Can the stage hold the layers a .. b?
SegmentFeasible(ctx, stage, a, b) ==
    Memory(ctx, a, b) <= stage.memory /\ stage.draw <= stage.cap

CommTime(s, bytes) == Links[s].latency + bytes * Links[s].perByte

\* Twice the execution time of the layers a .. b on stage s.
ExecTime(ctx, stages, s, a, b) ==
    2 * stages[s].slowness * Flops(ctx, a, b)
    + (IF s < Len(stages) THEN CommTime(s, ctx.layers[b].activation) ELSE 0)
    + (IF s > 1 THEN CommTime(s - 1, ctx.layers[a - 1].activation) ELSE 0)

\* The score so far, with one more stage.
Scored(ctx, stage, time, before) ==
    IF ctx.objective = "bottleneck" THEN Max({before, time}) ELSE before + stage.draw * time
-----------------------------------------------------------------------------
(* _build_partition.                                                       *)

FirstLayer(cuts, s) == IF s = 1 THEN 1 ELSE cuts[s - 1] + 1
LastLayer(ctx, cuts, s) == IF s = Len(cuts) + 1 THEN Len(ctx.layers) ELSE cuts[s]

\* No RuntimeError: no segment is empty, every segment fits its stage.
Buildable(ctx, stages, cuts) ==
    \A s \in 1 .. Len(stages) :
        /\ FirstLayer(cuts, s) <= LastLayer(ctx, cuts, s)
        /\ SegmentFeasible(ctx, stages[s], FirstLayer(cuts, s), LastLayer(ctx, cuts, s))

ScoreOfCuts(ctx, stages, cuts) ==
    LET score[s \in 0 .. Len(stages)] ==
            IF s = 0 THEN 0
            ELSE Scored(ctx, stages[s],
                        ExecTime(ctx, stages, s, FirstLayer(cuts, s), LastLayer(ctx, cuts, s)),
                        score[s - 1])
    IN score[Len(stages)]

\* A Partition, with the one of its figures the objective reads.
Built(ctx, stages, cuts) ==
    [cuts |-> cuts, covers |-> Len(ctx.layers), score |-> ScoreOfCuts(ctx, stages, cuts)]
-----------------------------------------------------------------------------
(* partition_pipeline.                                                     *)

\* seg_score; what follows on an unreachable score is unreachable.
SegScore(ctx, stages, s, a, b, before) ==
    IF before < Unreachable /\ SegmentFeasible(ctx, stages[s], a, b)
    THEN Scored(ctx, stages[s], ExecTime(ctx, stages, s, a, b), before)
    ELSE Unreachable

\* Mutant: stage s - 1 ends one layer later than it may.
EndsLate(s, j) == s .. j - 1

\* Where stage s - 1 may end when stage s ends with layer j.
Ends(s, j) == s - 1 .. j - 1

\* What layers 1 .. j may cost over stages 1 .. s, by the end of stage s - 1,
\* of the costs over stages 1 .. s - 1 in row.
Cells(ctx, stages, s, j, row) ==
    {<<Unreachable, 0>>} \cup
    {<<SegScore(ctx, stages, s, i + 1, j, row[i][1]), i>> : i \in Ends(s, j)}

FirstLeast(cells) ==
    CHOOSE c \in cells : \A d \in cells : c[1] < d[1] \/ (c[1] = d[1] /\ c[2] <= d[2])

\* dp[s][j] = (score, backpointer): the least score of the layers 1 .. j over
\* the stages 1 .. s, and the first end of stage s - 1 that gives it.
DP(ctx, stages) ==
    LET dp[s \in 1 .. Len(stages)] ==
            [j \in 1 .. Len(ctx.layers) |->
                IF s = 1 THEN <<SegScore(ctx, stages, 1, 1, j, 0), 0>>
                ELSE FirstLeast(Cells(ctx, stages, s, j, dp[s - 1]))]
    IN dp

\* The cuts found by following the backpointers.
Backtracked(dp, n, K) ==
    LET end[s \in 1 .. K] == IF s = K THEN n ELSE dp[s + 1][end[s + 1]][2]
    IN [s \in 1 .. K - 1 |-> end[s]]

\* The partition, or none: "No feasible partition found."
PartitionPipeline(ctx, stages) ==
    LET dp == DP(ctx, stages)
        cuts == Backtracked(dp, Len(ctx.layers), Len(stages))
    IN IF dp[Len(stages)][Len(ctx.layers)][1] = Unreachable \/ ~Buildable(ctx, stages, cuts)
       THEN {}
       ELSE {Built(ctx, stages, cuts)}
-----------------------------------------------------------------------------
(* incremental_partition.                                                  *)

Increasing(cuts) == \A s \in 1 .. Len(cuts) - 1 : cuts[s] < cuts[s + 1]

\* The cuts within the window of the given ones, in the code's ranges.
Slid(ctx, cuts) ==
    LET n == Len(ctx.layers)
        K == Len(cuts) + 1
        range(s) == Max({s, cuts[s] - ctx.window}) .. Min({n + 1 - K + s, cuts[s] + ctx.window})
    IN {c \in [1 .. K - 1 -> 1 .. n] : Increasing(c) /\ \A s \in 1 .. K - 1 : c[s] \in range(s)}

\* The order of itertools.product.
Before(c, d) ==
    \E s \in DOMAIN c : c[s] < d[s] /\ \A r \in 1 .. s - 1 : c[r] = d[r]

Valid(n, cuts) == Increasing(cuts) /\ \A s \in DOMAIN cuts : cuts[s] \in 1 .. n - 1

\* The first of the best new cuts.
BestSlid(ctx, stages, cuts) ==
    LET new == {c \in Slid(ctx, cuts) : c # cuts /\ Buildable(ctx, stages, c)}
        low == Min({ScoreOfCuts(ctx, stages, c) : c \in new})
        lowest == {c \in new : ScoreOfCuts(ctx, stages, c) = low}
    IN IF new = {} THEN {}
       ELSE {Built(ctx, stages, c) :
               c \in {c \in lowest : \A d \in lowest : d = c \/ Before(c, d)}}

\* Mutant: the score of the previous partition is the one it was built with.
IncrementalStale(previous, ctx, stages) ==
    LET slid == {p \in BestSlid(ctx, stages, previous.cuts) : p.score < previous.score}
    IN IF slid = {} THEN previous ELSE CHOOSE p \in slid : TRUE

\* The previous cuts, rebuilt for the layers and stages of now, unless new
\* ones are better; the previous partition as it was when neither is feasible.
Incremental(previous, ctx, stages) ==
    LET rebuilt == IF /\ Valid(Len(ctx.layers), previous.cuts)
                      /\ Buildable(ctx, stages, previous.cuts)
                   THEN {Built(ctx, stages, previous.cuts)} ELSE {}
        slid == {p \in BestSlid(ctx, stages, previous.cuts) :
                   \A q \in rebuilt : p.score < q.score}
    IN CASE slid # {} -> CHOOSE p \in slid : TRUE
         [] slid = {} /\ rebuilt # {} -> CHOOSE p \in rebuilt : TRUE
         [] OTHER -> previous
=============================================================================
