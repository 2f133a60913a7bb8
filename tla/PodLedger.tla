----------------------------- MODULE PodLedger ------------------------------
(***************************************************************************)
(* PodEnergyLedger: lifecycle marks, and the two ways it turns them into   *)
(* energy per phase.  report takes the differences of the meter's readings *)
(* at the marks; report_from_trace integrates the recorded power trace     *)
(* between the marks' timestamps.  A trace sample is [t, w]: its time and  *)
(* the watts above the background; energy is in watt-ticks.                *)
(***************************************************************************)
EXTENDS Integers, Sequences, FiniteSetsExt, Folds

AtLeast(a, b) == IF a >= b THEN a ELSE b
AtMost(a, b) == IF a <= b THEN a ELSE b

LedgerMark == [t : Int, e : Int]

Total(f, n) == MapThenFoldSet(+, 0, LAMBDA i : f[i], LAMBDA S : CHOOSE x \in S : TRUE, 1 .. n)

\* report: the energy of each interval, the last one sealed by the reading
\* `now`; the clamp guards against a meter that ran backwards.
Report(marks, now) ==
    LET reading == Append([k \in DOMAIN marks |-> marks[k].e], now)
    IN  [k \in DOMAIN marks |-> AtLeast(0, reading[k + 1] - reading[k])]

\* Mutant: a slice is billed whole to the interval it reaches into.
OverlapWhole(trace, i, from, to) ==
    IF AtMost(trace[i + 1].t, to) > AtLeast(trace[i].t, from)
    THEN trace[i + 1].t - trace[i].t ELSE 0

\* The ticks that the slice between two samples shares with an interval.
Overlap(trace, i, from, to) ==
    AtLeast(0, AtMost(trace[i + 1].t, to) - AtLeast(trace[i].t, from))

\* marginal_kwh_from_trace: each slice at the power of its right endpoint.
MarginalFromTrace(trace, from, to) ==
    Total([i \in 1 .. Len(trace) - 1 |-> trace[i + 1].w * Overlap(trace, i, from, to)],
          Len(trace) - 1)

\* report_from_trace: the trailing phase runs to the last sample, or to the
\* last mark when nothing was recorded.
ReportFromTrace(marks, trace) ==
    LET end == IF trace # <<>> THEN trace[Len(trace)].t ELSE marks[Len(marks)].t
        at == Append([k \in DOMAIN marks |-> marks[k].t], end)
    IN  [k \in DOMAIN marks |-> MarginalFromTrace(trace, at[k], at[k + 1])]
=============================================================================
