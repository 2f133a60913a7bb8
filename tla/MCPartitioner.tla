---------------------------- MODULE MCPartitioner ----------------------------
(* Five uneven layers and three of others, over two or three stages. *)
EXTENDS Partitioner

Layer(f, a) == [flops |-> f, activation |-> a]

MCContexts ==
    [layers : {<<Layer(1, 2), Layer(3, 1), Layer(1, 1), Layer(2, 2), Layer(1, 1)>>,
               <<Layer(2, 1), Layer(1, 2), Layer(1, 1)>>},
     objective : {"bottleneck", "energy"}, window : {1}]

\* A fast stage, a frugal slow one with room, and one over its power cap.
Fast == [slowness |-> 1, memory |-> 4, draw |-> 2, cap |-> 2]
Slow == [slowness |-> 2, memory |-> 7, draw |-> 1, cap |-> 2]
Over == [slowness |-> 1, memory |-> 7, draw |-> 3, cap |-> 2]

MCStageLists ==
    {<<Fast, Slow>>, <<Slow, Fast>>, <<Fast, Over>>,
     <<Fast, Fast, Slow>>, <<Slow, Fast, Fast>>, <<Fast, Slow, Fast>>, <<Slow, Slow, Slow>>,
     <<Slow, Slow, Fast>>, <<Fast, Slow, Slow>>,
     <<Over, Fast, Fast>>}

MCLinks == <<[latency |-> 1, perByte |-> 1], [latency |-> 0, perByte |-> 2]>>

\* The parametric throttles of alpha = 2, and a measured curve whose deepest
\* throttle needs more energy than none.
UShaped == <<[ratio |-> 6, time |-> 24, energy |-> 13], [ratio |-> 9, time |-> 16, energy |-> 8],
             [ratio |-> 12, time |-> 12, energy |-> 12]>>

Goal(curve, ceiling) ==
    [curve |-> curve, ceiling |-> ceiling, margins |-> [time |-> 13, power |-> 13]]

\* Tight enough that some pipelines have no plan, and loose.
MCGoals == {Goal(FromAlpha(6, 3), 18), Goal(UShaped, 14), Goal(UShaped, 30)}
=============================================================================
