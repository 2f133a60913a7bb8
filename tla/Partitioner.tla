----------------------------- MODULE Partitioner -----------------------------
(***************************************************************************)
(* The partition of one job over the repartitions of the control loop:     *)
(* _repartition with the partitioners it calls and the stagnation tracker  *)
(* between them.  The stages are built anew from telemetry for each call,  *)
(* so a partition that was the best, or feasible, need not be so at the    *)
(* next.                                                                   *)
(***************************************************************************)
EXTENDS JointPartition, Repartitioning

CONSTANTS
    Contexts,    \* what a job's RepartitionContext may be
    StageLists,  \* lists of stages stages_factory may return
    MaxCalls,    \* bound: stagnant calls, beyond patience
    Goals        \* what the joint partitioners may be asked for

ASSUME PartitionerAssumption ==
    /\ Contexts \subseteq ContextType
    /\ StageLists \subseteq Seq([slowness : Nat, memory : Nat, draw : Nat, cap : Nat])
    /\ \A fleet \in StageLists : Len(fleet) >= 2 /\ Len(Links) >= Len(fleet) - 1
    /\ MaxCalls \in Nat
    /\ Goals \subseteq [curve : Seq([ratio : Nat, time : Nat, energy : Nat]) \ {<<>>},
                        ceiling : Nat, margins : [time : Nat, power : Nat]]
    /\ Unreachable > MaxScore

\* All ways to cut the layers into as many segments as there are stages.
Feasible(ctx, fleet) ==
    {cuts \in [1 .. Len(fleet) - 1 -> 1 .. Len(ctx.layers) - 1] :
        Increasing(cuts) /\ Buildable(ctx, fleet, cuts)}

\* MaxScore bounds the scores there are.
ASSUME ScoresBounded ==
    \A ctx \in Contexts, fleet \in StageLists :
        Len(fleet) <= Len(ctx.layers) =>
            \A cuts \in Feasible(ctx, fleet) : ScoreOfCuts(ctx, fleet, cuts) <= MaxScore

VARIABLES
    context, \* the job's
    stages,  \* the stages of the last repartition
    part,    \* the cached partition
    best,    \* _best_score of the tracker
    calls,   \* its _stagnant_calls
    how      \* what the last repartition did

tracker == <<best, calls>>
partitionVars == <<context, stages, part, tracker, how>>

NoPartition == [cuts |-> <<>>, covers |-> 0, score |-> 0]

PartitionInit ==
    /\ context \in Contexts
    /\ stages = <<>> /\ part = NoPartition
    /\ best = Infinite /\ calls = 0
    /\ how = "nothing"
-----------------------------------------------------------------------------
\* No partition yet, or one of another depth.
FullDP ==
    LET found == PartitionPipeline(context, stages')
    IN \/ /\ found = {} /\ how' = "failed"
          /\ UNCHANGED <<part, tracker>>
       \/ /\ part' \in found /\ how' = "full"
          /\ best' = Infinite /\ calls' = 0

\* Mutant: the tracker forgets its best score when it escapes.
SlideForgetting ==
    LET p == Incremental(part, context, stages')
        stagnant == Stagnant(p.score, best, calls)
        found == PartitionPipeline(context, stages')
    IN \/ /\ stagnant < Patience /\ how' = "slid"
          /\ part' = p /\ best' = Lowest(p.score, best) /\ calls' = stagnant
       \/ /\ stagnant >= Patience /\ found = {} /\ how' = "failed"
          /\ best' = Lowest(p.score, best) /\ calls' = stagnant
          /\ UNCHANGED part
       \/ /\ stagnant >= Patience /\ part' \in found /\ how' = "escaped"
          /\ best' = Infinite /\ calls' = 0

\* The same depth: slide, and escape when the tracker says so.
Slide ==
    LET p == Incremental(part, context, stages')
        stagnant == Stagnant(p.score, best, calls)
        found == PartitionPipeline(context, stages')
    IN /\ best' = Lowest(p.score, best)
       /\ \/ /\ stagnant < Patience /\ how' = "slid"
             /\ part' = p /\ calls' = stagnant
          \/ /\ stagnant >= Patience /\ found = {} /\ how' = "failed"
             /\ calls' = stagnant /\ UNCHANGED part
          \/ /\ stagnant >= Patience /\ part' \in found /\ how' = "escaped"
             /\ calls' = 0

\* A change of width to as many stages as the fleet has, with the speed,
\* memory and power they have by now.  With fewer layers than stages a
\* ValueError leaves everything as it was.
Repartition(fleet) ==
    /\ Len(fleet) <= Len(context.layers) /\ calls < Patience + MaxCalls
    /\ stages' = fleet
    /\ IF Len(part.cuts) # Len(fleet) - 1 THEN FullDP ELSE Slide
    /\ UNCHANGED context

\* The context is registered anew, with other layers.
Register(ctx) ==
    /\ ctx # context /\ ctx.objective = context.objective
    /\ context' = ctx /\ how' = "nothing"
    /\ UNCHANGED <<stages, part, tracker>>

PartitionNext ==
    \/ \E fleet \in StageLists : Repartition(fleet)
    \/ \E ctx \in Contexts : Register(ctx)

PartitionSpec == PartitionInit /\ [][PartitionNext]_partitionVars
-----------------------------------------------------------------------------
(* What must hold.                                                         *)

FeasibleCuts == Feasible(context, stages)

\* The dynamic program against all cuts: what it finds is feasible and no cut
\* has a better score; it finds nothing only when no cut is feasible.  After
\* it was called to escape, or for a first partition, the cached partition is
\* the best there is for the stages of now.
FullIsBest ==
    /\ how = "failed" => FeasibleCuts = {}
    /\ how \in {"full", "escaped"} =>
         /\ part.cuts \in FeasibleCuts
         /\ part = Built(context, stages, part.cuts)
         /\ \A cuts \in FeasibleCuts : part.score <= ScoreOfCuts(context, stages, cuts)

\* As far as any cut in the window of the previous ones is feasible, a slide
\* leaves the best of them, with the score it has on the stages of now and
\* not the one it had when it was found.
SlideIsBest ==
    [][LET reach == {c \in FeasibleCuts' :
                       \A s \in DOMAIN part.cuts :
                          part.cuts[s] - context.window <= c[s] /\ c[s] <= part.cuts[s] + context.window}
       IN how' = "slid" /\ reach # {} =>
            /\ part'.cuts \in reach
            /\ part' = Built(context', stages', part'.cuts)
            /\ \A c \in reach : part'.score <= ScoreOfCuts(context', stages', c)]_partitionVars

\* The outcomes of a repartition are those the control loop's model takes it
\* to have: the depth follows the stages, a partition of the same depth is
\* never lost, and the tracker forgets its best score with the depth only.
OutcomesAsInLoop ==
    [][LET depth(p) == IF p = NoPartition THEN 0 ELSE Len(p.cuts) + 1
           t == Len(stages')
           outcome == Outcome(depth(part'), best', calls', IF how' = "failed" THEN 1 ELSE 0)
       IN how' # "nothing" =>
            outcome \in IF depth(part) # t THEN FullOutcomes(t, depth(part), best, calls)
                        ELSE SlideOutcomes(t, best, calls)]_partitionVars
-----------------------------------------------------------------------------
(* The joint partitioners, called with the layers and stages of a first    *)
(* repartition, of which they may also get the first few only.             *)

Asked == how = "full" \/ (how = "failed" /\ part = NoPartition)

Pipelines == {SubSeq(stages, 1, K) : K \in 1 .. Len(stages)}

\* All cuts whose segments fit and all throttles.
JointChoices(ctx, fleet, goal) ==
    {cuts \in [1 .. Len(fleet) - 1 -> 1 .. Len(ctx.layers) - 1] :
        /\ Increasing(cuts)
        /\ \A s \in 1 .. Len(fleet) :
              Fits(ctx, fleet[s], FirstLayer(cuts, s), LastLayer(ctx, cuts, s))}
    \X [1 .. Len(fleet) -> DOMAIN goal.curve]

StageTime(ctx, fleet, c, s) ==
    ExecTime(ctx, fleet, s, FirstLayer(c[1], s), LastLayer(ctx, c[1], s))

\* The choices a floor on the throughput and the stages' caps admit, and the
\* energy of one.
JointAdmitted(ctx, fleet, goal) ==
    {c \in JointChoices(ctx, fleet, goal) : \A s \in 1 .. Len(fleet) :
        Admissible(fleet[s], StageTime(ctx, fleet, c, s), goal.curve[c[2][s]], goal.ceiling)}

JointCost(ctx, fleet, goal, c) ==
    SumFunction([s \in 1 .. Len(fleet) |->
                    Energy(fleet[s], StageTime(ctx, fleet, c, s), goal.curve[c[2][s]])])

\* joint_partition against every choice: a plan is admissible in each stage
\* and costs what it says, none costs less, and there is none only if no
\* choice is admissible.  A stage over its cap is throttled, not refused.
JointIsBest ==
    Asked => \A fleet \in Pipelines, goal \in Goals :
        LET ok == JointAdmitted(context, fleet, goal)
            plans == JointPlan(context, fleet, goal.curve, goal.ceiling)
        IN /\ plans = {} <=> ok = {}
           /\ \A p \in plans :
                /\ <<p.cuts, p.points>> \in ok
                /\ p.energy = JointCost(context, fleet, goal, <<p.cuts, p.points>>)
                /\ \A c \in ok : p.energy <= JointCost(context, fleet, goal, c)

\* The choices that meet the chance constraints, and the mean or the variance
\* of one.
ChancesAdmitted(ctx, fleet, goal) ==
    {c \in JointChoices(ctx, fleet, goal) : \A s \in 1 .. Len(fleet) :
        Chances(fleet[s], StageTime(ctx, fleet, c, s), goal.curve[c[2][s]].ratio, goal.ceiling, goal.margins)}

MeanOf(ctx, fleet, goal, c) ==
    SumFunction([s \in 1 .. Len(fleet) |->
                    Mean(fleet[s], StageTime(ctx, fleet, c, s), goal.curve[c[2][s]].ratio)])
VarianceOf(ctx, fleet, goal, c) ==
    SumFunction([s \in 1 .. Len(fleet) |->
                    Variance(fleet[s], StageTime(ctx, fleet, c, s), goal.curve[c[2][s]].ratio)])

\* The stochastic one: its frontier holds, each at the end of its own
\* backpointers, plans that meet their chance constraints and of which no
\* other has a smaller mean and variance; so the plan of the least CVaR is
\* among them, and there is none only if no choice meets the constraints.
FrontierIsBest ==
    Asked => \A fleet \in Pipelines, goal \in Goals :
        LET ratios == [p \in DOMAIN goal.curve |-> goal.curve[p].ratio]
            ok == ChancesAdmitted(context, fleet, goal)
            mean(c) == MeanOf(context, fleet, goal, c)
            var(c) == VarianceOf(context, fleet, goal, c)
            plans == FrontierPlans(context, fleet, ratios, goal.ceiling, goal.margins)
        IN /\ \A p \in plans :
                LET c == <<p.cuts, p.points>>
                IN c \in ok /\ p.mean = mean(c) /\ p.var = var(c)
           /\ \A c \in ok : \E p \in plans : p.mean <= mean(c) /\ p.var <= var(c)
=============================================================================
