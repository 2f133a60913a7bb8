--------------------------- MODULE EnergyPolicies ---------------------------
(***************************************************************************)
(* What a policy answers to one call of decide: the target width, whether  *)
(* the job is to pause, and the hysteresis counters it leaves behind.  The *)
(* readings that decide are abstracted to the side of each threshold they  *)
(* fall on.                                                                *)
(***************************************************************************)
EXTENDS Integers

CONSTANTS
    Policy,       \* which policy the loop was given
    MinGpus,      \* min_gpus of the policy
    MaxGpus,      \* max_gpus of the policy
    Hysteresis,   \* hysteresis_ticks of PowerAwareRulePolicy
    Gated         \* carbon_pause_above_g_per_kwh is configured

ASSUME PolicyAssumption ==
    /\ Policy \in {"rule", "power", "search"}
    /\ MinGpus \in Nat \ {0} /\ MaxGpus \in Nat /\ MinGpus <= MaxGpus
    /\ Hysteresis \in Nat \ {0}
    /\ Gated \in BOOLEAN

AtLeast(n, m) == IF n >= m THEN n ELSE m
AtMost(n, m) == IF n <= m THEN n ELSE m

\* Carbon intensity bands of RuleBasedPolicy; sides of the J/iter thresholds
\* of PowerAwareRulePolicy, "silent" when no worker reports a valid signal
\* and "gate" when the grid is dirty enough for the spatial shift.
Readings ==
    CASE Policy = "rule"   -> {"clean", "mid", "dirty", "filthy"}
      [] Policy = "power"  -> {"above", "below", "healthy", "silent"}
                                \cup (IF Gated THEN {"gate"} ELSE {})
      [] Policy = "search" -> {"any"}

\* RuleBasedPolicy.decide
RuleTarget(cur, reading) ==
    CASE reading = "filthy" -> MinGpus
      [] reading = "dirty"  -> AtLeast(MinGpus, cur \div 2)
      [] reading = "clean"  -> AtMost(MaxGpus, AtLeast(cur * 2, MinGpus + 1))
      [] OTHER              -> cur

\* PowerAwareRulePolicy.decide: a counter fires, and is cleared, on the call
\* that brings it to hysteresis_ticks.
Fires(ticks) == ticks + 1 >= Hysteresis

PowerTarget(cur, reading, above, below) ==
    CASE reading = "gate"                   -> AtLeast(MinGpus, cur \div 2)
      [] reading = "above" /\ Fires(above)  -> AtLeast(MinGpus, cur - 1)
      [] reading = "below" /\ Fires(below)  -> AtMost(MaxGpus, cur + 1)
      [] OTHER                              -> cur

\* Mutant: readings on the healthy side leave the counters standing.
CountedLoosely(reading, side, ticks) ==
    IF reading = side THEN (IF Fires(ticks) THEN 0 ELSE ticks + 1) ELSE ticks

\* The counter of one side after a reading: every other reading resets it.
Counted(reading, side, ticks) ==
    IF reading = side /\ ~Fires(ticks) THEN ticks + 1 ELSE 0

\* MPCPolicy and OnlinePrimalDualPolicy pick a width of their range, by costs
\* that depend on forecasts, profiles and the dual multiplier: any width of
\* it, or the current one when MPC's costs are all infinite.
SearchTargets(cur) == (MinGpus .. MaxGpus) \cup {cur}

\* The answers decide may give a job of width cur on a reading.
Decisions(cur, reading, above, below) ==
    CASE Policy = "rule" ->
           {[gpus |-> RuleTarget(cur, reading), pause |-> reading = "filthy"]}
      [] Policy = "power" ->
           {[gpus |-> PowerTarget(cur, reading, above, below), pause |-> FALSE]}
      [] Policy = "search" ->
           {[gpus |-> g, pause |-> FALSE] : g \in SearchTargets(cur)}
=============================================================================
