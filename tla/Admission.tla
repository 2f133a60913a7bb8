----------------------------- MODULE Admission ------------------------------
(***************************************************************************)
(* EnergyBudgetMSS.find: a binary search for the minimum satisfactory      *)
(* share, then a walk upwards from it to the first share whose projected   *)
(* energy, and projected emissions when they are constrained, fit.  The    *)
(* projections are abstracted to the set of shares that fit the budgets.   *)
(***************************************************************************)
EXTENDS ScalingCurve, Integers

CONSTANTS
    MaxIterations,   \* bound: iterations_remaining of the calls checked
    MaxDeadline      \* bound: deadline_seconds of the calls checked

ASSUME CallAssumption == MaxIterations \in Nat /\ MaxDeadline \in Nat

VARIABLES
    curve, iters, deadline,   \* the arguments of the call
    affordable,               \* shares whose projections fit the budgets
    pc,                       \* "search" the share, "walk" up from it, "done"
    lo, hi,                   \* bounds of the binary search
    x,                        \* share the walk looks at
    gpus                      \* AdmissionDecision.gpus, 0 when not admitted

vars == <<curve, iters, deadline, affordable, pc, lo, hi, x, gpus>>
args == <<curve, iters, deadline, affordable>>

TypeOK ==
    /\ curve \in Curves
    /\ iters \in 0 .. MaxIterations /\ deadline \in 0 .. MaxDeadline
    /\ affordable \in SUBSET Shares
    /\ pc \in {"search", "walk", "done"}
    /\ lo \in Shares /\ hi \in Shares
    /\ x \in 1 .. CurveGpus + 1
    /\ gpus \in 0 .. CurveGpus

\* The search is not entered when nothing is left to do or no time is.
Init ==
    /\ curve \in Curves
    /\ iters \in 0 .. MaxIterations /\ deadline \in 0 .. MaxDeadline
    /\ affordable \in SUBSET Shares
    /\ pc = IF iters > 0 /\ deadline > 0 THEN "search" ELSE "done"
    /\ lo = 1 /\ hi = CurveGpus
    /\ x = 1
    /\ gpus = 0

Mid == (lo + hi) \div 2

\* Mutant: the upper half keeps its middle in.
HalveNotFarEnough ==
    /\ pc = "search" /\ lo < hi
    /\ IF Meets(curve, Mid, iters, deadline)
       THEN hi' = Mid /\ UNCHANGED lo
       ELSE lo' = Mid /\ UNCHANGED hi
    /\ UNCHANGED <<args, pc, x, gpus>>

\* Mutant: a share that takes exactly the deadline is taken for too slow.
HalveStrictly ==
    /\ pc = "search" /\ lo < hi
    /\ IF curve[Mid] * deadline > iters
       THEN hi' = Mid /\ UNCHANGED lo
       ELSE lo' = Mid + 1 /\ UNCHANGED hi
    /\ UNCHANGED <<args, pc, x, gpus>>

\* One turn of the binary search.
Halve ==
    /\ pc = "search" /\ lo < hi
    /\ IF Meets(curve, Mid, iters, deadline)
       THEN hi' = Mid /\ UNCHANGED lo
       ELSE lo' = Mid + 1 /\ UNCHANGED hi
    /\ UNCHANGED <<args, pc, x, gpus>>

\* The search has closed in on one share, which may still be too slow.
Found ==
    /\ pc = "search" /\ lo = hi
    /\ IF Meets(curve, lo, iters, deadline)
       THEN x' = lo /\ pc' = "walk"
       ELSE pc' = "done" /\ UNCHANGED x
    /\ UNCHANGED <<args, lo, hi, gpus>>

\* What the walk asks of a share: its duration within the deadline, its
\* projected energy and emissions within the budgets.
Fits(s) == Meets(curve, s, iters, deadline) /\ s \in affordable

\* Mutant: the share is doubled until it fits.
DoubleToFit ==
    /\ pc = "walk" /\ x <= CurveGpus /\ ~Fits(x)
    /\ x' = IF 2 * x <= CurveGpus THEN 2 * x ELSE CurveGpus + 1
    /\ UNCHANGED <<args, pc, lo, hi, gpus>>

SkipShare ==
    /\ pc = "walk" /\ x <= CurveGpus /\ ~Fits(x)
    /\ x' = x + 1
    /\ UNCHANGED <<args, pc, lo, hi, gpus>>

Admit ==
    /\ pc = "walk" /\ x <= CurveGpus /\ Fits(x)
    /\ gpus' = x
    /\ pc' = "done"
    /\ UNCHANGED <<args, lo, hi, x>>

\* No share of the curve is left.
Drop ==
    /\ pc = "walk" /\ x > CurveGpus
    /\ pc' = "done"
    /\ UNCHANGED <<args, lo, hi, x, gpus>>

Next == Halve \/ Found \/ SkipShare \/ Admit \/ Drop

Spec == Init /\ [][Next]_vars
-----------------------------------------------------------------------------
\* The binary search never steps over the smallest share that meets the
\* deadline: the walk starts from the minimum satisfactory share of the
\* docstring, the same one the deadline floor is built from.
SearchFindsMSS ==
    pc = "walk" => lo = MSS(curve, iters, deadline)

\* A share is admitted exactly when some share meets the deadline within the
\* budgets, and then it is the smallest such share (energy_admit_or_drop:
\* "the smallest GPU count meeting both constraints").
Suitable(s) == iters > 0 /\ deadline > 0 /\ Fits(s)

SmallestAffordable ==
    pc = "done" =>
        IF gpus = 0
        THEN \A s \in Shares : ~Suitable(s)
        ELSE Suitable(gpus) /\ \A s \in Shares : Suitable(s) => gpus <= s
-----------------------------------------------------------------------------
\* The search keeps the smallest satisfactory share between its bounds, the
\* walk leaves nothing suitable behind.
SearchInv ==
    /\ lo <= hi
    /\ pc # "done" => iters > 0 /\ deadline > 0
    /\ pc = "search" =>
         /\ gpus = 0
         /\ \A s \in Shares : s < lo => ~Meets(curve, s, iters, deadline)
         /\ hi < CurveGpus => Meets(curve, hi, iters, deadline)
    /\ pc = "walk" =>
         /\ gpus = 0 /\ lo <= x
         /\ IsShare(curve, lo, iters, deadline)
         /\ \A s \in Shares : s < x => ~Suitable(s)

IInv == TypeOK /\ SearchInv /\ SmallestAffordable
=============================================================================
