---------------------------- MODULE ScalingCurve ----------------------------
(***************************************************************************)
(* Throughput as a function of the number of GPUs, the minimum             *)
(* satisfactory share it induces, and the deadline floor derived from that *)
(* share on every tick.  Rates and times are whole units, and rates are    *)
(* compared by cross-multiplication: the rounding of the code's floating   *)
(* point quotients is abstracted.                                          *)
(***************************************************************************)
EXTENDS Naturals

CONSTANTS
    CurveGpus,   \* ScalingCurve.max_gpus: the length of the curve
    MaxRate      \* bound: the largest throughput on a curve

ASSUME CurveAssumption == CurveGpus \in Nat \ {0} /\ MaxRate \in Nat

Shares == 1 .. CurveGpus

\* The curves ElasticFlow's optimality argument asks for (concavity is not
\* needed for the search to be right).
Curves ==
    {c \in [Shares -> 0 .. MaxRate] :
        \A x, y \in Shares : x <= y => c[x] <= c[y]}

\* x GPUs finish the iterations before the deadline.
Meets(curve, x, iters, deadline) == curve[x] * deadline >= iters

IsShare(curve, x, iters, deadline) ==
    /\ Meets(curve, x, iters, deadline)
    /\ \A y \in Shares : Meets(curve, y, iters, deadline) => x <= y

\* minimum_satisfactory_share, as its docstring promises it: the smallest
\* share that meets the deadline, 0 when there is none or nothing to do.
MSS(curve, iters, deadline) ==
    IF /\ iters > 0 /\ deadline > 0
       /\ \E x \in Shares : Meets(curve, x, iters, deadline)
    THEN CHOOSE x \in Shares : IsShare(curve, x, iters, deadline)
    ELSE 0

\* DeadlineFloorSelector.evaluate with its default arguments: one GPU when
\* nothing is left, every GPU of the curve when the deadline is out of reach.
Floor(curve, left, remaining) ==
    CASE left = 0 -> 1
      [] left > 0 /\ MSS(curve, left, remaining) = 0 -> CurveGpus
      [] OTHER -> MSS(curve, left, remaining)
=============================================================================
