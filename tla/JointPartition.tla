--------------------------- MODULE JointPartition ---------------------------
(***************************************************************************)
(* joint_partition and stochastic_joint_partition: the cuts of a pipeline  *)
(* and a throttle for every stage, for the least energy of an iteration    *)
(* under a floor on the throughput, the stages' power caps and memories.   *)
(* The one keeps the best (energy, slowest stage) of each cell, the other  *)
(* a frontier of (mean, variance), entries pointing back by their index.   *)
(*                                                                         *)
(* A throttle is a point of a curve: its ratio, how much longer a stage    *)
(* takes and how much energy it needs, in parts of Unit; ceiling is the    *)
(* longest cycle allowed (the floor's inverse), in the units of time.      *)
(***************************************************************************)
EXTENDS PipelinePartition, SequencesExt

CONSTANT Unit   \* parts of a scale of 1

ASSUME UnitAssumption == Unit \in Nat \ {0}

\* _build_throttle_set in parts of Unit.
ThrottleSet(low, granularity) ==
    IF granularity = 1 THEN <<IF low >= Unit THEN Unit ELSE low>>
    ELSE IF low >= Unit THEN <<Unit>>
    ELSE [i \in 1 .. granularity |->
            IF i = granularity THEN Unit
            ELSE low + (i - 1) * ((Unit - low) \div (granularity - 1))]

\* ThrottleCurve.from_alpha for voltage_alpha = 2.
FromAlpha(low, granularity) ==
    LET ratios == ThrottleSet(low, granularity)
    IN [i \in DOMAIN ratios |->
          [ratio |-> ratios[i], time |-> (Unit * Unit) \div ratios[i], energy |-> ratios[i]]]

Fits(ctx, stage, a, b) == Memory(ctx, a, b) <= stage.memory

\* A throttled stage within the ceiling and its cap on the average power.
Admissible(stage, time, point, ceiling) ==
    /\ time * point.time <= ceiling * Unit
    /\ stage.draw * point.energy <= stage.cap * point.time

Energy(stage, time, point) == stage.draw * point.energy * time
-----------------------------------------------------------------------------
(* joint_partition.                                                        *)

\* An entry of the table before the first stage.
Start == [energy |-> 0, slowest |-> 0, from |-> 0, point |-> 0]

\* Mutant: the deepest admissible throttle, as if saving power saved energy.
DeepestLocal(curve, stage, time, before, ceiling) ==
    LET ok == {p \in DOMAIN curve :
                 Admissible(stage, time, curve[p], ceiling) /\ before <= ceiling * Unit}
    IN IF ok = {} THEN {} ELSE {Min(ok)}

\* best_local: the first throttle of the least energy, if one is admissible.
BestLocal(curve, stage, time, before, ceiling) ==
    LET ok == {p \in DOMAIN curve :
                 Admissible(stage, time, curve[p], ceiling) /\ before <= ceiling * Unit}
    IN {p \in ok : \A q \in ok : LET e(i) == Energy(stage, time, curve[i])
                                 IN e(p) < e(q) \/ (e(p) = e(q) /\ p <= q)}

\* The entry that adds stage s over the layers i + 1 .. j to one before it.
Extended(ctx, stages, curve, ceiling, before, s, i, j) ==
    LET time == ExecTime(ctx, stages, s, i + 1, j)
    IN {[energy |-> before.energy + Energy(stages[s], time, curve[p]),
         slowest |-> Max({before.slowest, time * curve[p].time}),
         from |-> i, point |-> p] :
           p \in IF Fits(ctx, stages[s], i + 1, j)
                 THEN BestLocal(curve, stages[s], time, before.slowest, ceiling) ELSE {}}

\* What the cell (s, j) is chosen from, after the row of the stage before.
JointCells(ctx, stages, curve, ceiling, s, j, row) ==
    LET ends == IF s = 1 THEN {0} ELSE Ends(s, j)
        entries(i) == IF s = 1 THEN {Start} ELSE row[i]
    IN UNION {UNION {Extended(ctx, stages, curve, ceiling, before, s, i, j) :
                       before \in entries(i)} : i \in ends}

\* The first of the least energy, if there is one.
Frugal(cells) ==
    {c \in cells :
        \A d \in cells : c.energy < d.energy \/ (c.energy = d.energy /\ c.from <= d.from)}

\* dp[s][j], and for a single stage the same; empty where it is infinite.
JointDP(ctx, stages, curve, ceiling) ==
    LET dp[s \in 1 .. Len(stages)] ==
            [j \in 1 .. Len(ctx.layers) |->
                Frugal(JointCells(ctx, stages, curve, ceiling, s, j,
                                  IF s = 1 THEN <<>> ELSE dp[s - 1]))]
    IN dp

The(cell) == CHOOSE e \in cell : TRUE

\* A JointPlan, by following the backpointers; none when infeasible.
JointPlan(ctx, stages, curve, ceiling) ==
    LET dp == JointDP(ctx, stages, curve, ceiling)
        K == Len(stages)
        end[s \in 1 .. K] ==
            IF s = K THEN Len(ctx.layers) ELSE The(dp[s + 1][end[s + 1]]).from
    IN {[cuts |-> [s \in 1 .. K - 1 |-> end[s]],
         points |-> [s \in 1 .. K |-> The(dp[s][end[s]]).point],
         energy |-> last.energy] : last \in dp[K][Len(ctx.layers)]}
-----------------------------------------------------------------------------
(* stochastic_joint_partition.                                             *)

\* transition_terms.  A curve is used by its ratios only; margins inflate
\* time and power, in parts of Unit; the variance is in sigma_combined_sq.
Chances(stage, time, ratio, ceiling, margins) ==
    /\ time * margins.time <= ratio * ceiling
    /\ stage.draw * ratio * ratio * margins.power <= stage.cap * Unit * Unit * Unit

Mean(stage, time, ratio) == stage.draw * ratio * time
Variance(stage, time, ratio) == Mean(stage, time, ratio) * Mean(stage, time, ratio)

\* Mutant: the plan with the smaller mean is the better one.
DominatesByMean(a, b) == a.mean < b.mean

\* _dominates.
Dominates(a, b) ==
    a.mean <= b.mean /\ a.var <= b.var /\ (a.mean < b.mean \/ a.var < b.var)

\* _insert_pareto.
Inserted(frontier, new) ==
    IF \E k \in DOMAIN frontier :
         Dominates(frontier[k], new) \/ (frontier[k].mean = new.mean /\ frontier[k].var = new.var)
    THEN frontier
    ELSE Append(FlattenSeq([k \in DOMAIN frontier |->
                               IF Dominates(new, frontier[k]) THEN <<>> ELSE <<frontier[k]>>]), new)

\* What stage s over the layers i + 1 .. j adds to the entries before it: the
\* loops over the ratios and over these entries.
Candidates(ctx, stages, ratios, ceiling, margins, s, i, j, before) ==
    LET time == ExecTime(ctx, stages, s, i + 1, j)
        of(r) == IF ~Fits(ctx, stages[s], i + 1, j)
                    \/ ~Chances(stages[s], time, ratios[r], ceiling, margins)
                 THEN <<>>
                 ELSE [k \in 1 .. Len(before) |->
                        [mean |-> before[k].mean + Mean(stages[s], time, ratios[r]),
                         var |-> before[k].var + Variance(stages[s], time, ratios[r]),
                         from |-> i, point |-> r, entry |-> k]]
    IN FlattenSeq([r \in DOMAIN ratios |-> of(r)])

\* The only entry before the first stage.
Nothing == [mean |-> 0, var |-> 0, from |-> 0, point |-> 0, entry |-> 0]

\* The frontier of the cell (s, j), after the row of the stage before.
Frontier(ctx, stages, ratios, ceiling, margins, s, j, row) ==
    LET ends == IF s = 1 THEN <<0>> ELSE [m \in 1 .. j - s + 1 |-> s + m - 2]
        entries(i) == IF s = 1 THEN <<Nothing>> ELSE row[i]
        new(i) == Candidates(ctx, stages, ratios, ceiling, margins, s, i, j, entries(i))
    IN FoldLeft(Inserted, <<>>, FlattenSeq([m \in DOMAIN ends |-> new(ends[m])]))

Frontiers(ctx, stages, ratios, ceiling, margins) ==
    LET dp[s \in 1 .. Len(stages)] ==
            [j \in 1 .. Len(ctx.layers) |->
                Frontier(ctx, stages, ratios, ceiling, margins, s, j,
                         IF s = 1 THEN <<>> ELSE dp[s - 1])]
    IN dp

\* The plans of the last cell's entries, each by its backpointers.  The code
\* returns the one of the least mean + kappa * sqrt(variance), which is the
\* least of all plans if it is the least of these, whatever kappa >= 0.
FrontierPlans(ctx, stages, ratios, ceiling, margins) ==
    LET dp == Frontiers(ctx, stages, ratios, ceiling, margins)
        K == Len(stages)
        last == dp[K][Len(ctx.layers)]
        plan(k) ==
            LET back[s \in 1 .. K] ==
                  IF s = K THEN [end |-> Len(ctx.layers), e |-> last[k]]
                  ELSE LET next == back[s + 1]
                       IN [end |-> next.e.from, e |-> dp[s][next.e.from][next.e.entry]]
            IN [cuts |-> [s \in 1 .. K - 1 |-> back[s].end],
                points |-> [s \in 1 .. K |-> back[s].e.point],
                mean |-> last[k].mean, var |-> last[k].var]
    IN {plan(k) : k \in DOMAIN last}
=============================================================================
