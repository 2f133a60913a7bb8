----------------------------- MODULE EnergyLoop -----------------------------
(***************************************************************************)
(* EnergyAwareControlLoop.tick over the job store it shares with the API:  *)
(* the tick reads the running and then the paused jobs, and for each asks  *)
(* the policy, lifts the answer to the deadline floor, repartitions the    *)
(* pipeline, emits a reshard event when the world of a running job         *)
(* changes, writes the job back and drives the pool.  Submissions come     *)
(* from the API's worker threads, between any two steps of the tick; the   *)
(* tick's result reaches the workers only when the tick returns.           *)
(***************************************************************************)
EXTENDS EnergyPolicies, ScalingCurve, Repartitioning

CONSTANTS
    Jobs,
    Context,     \* layers of each job's RepartitionContext, 0 without one
    Selected,    \* jobs that have a DeadlineFloorSelector
    Curve,       \* the curve of admission and of the selectors
    Iterations,  \* iterations_target of a submitted job
    Deadlines,   \* the deadline_s a job may be submitted with
    MaxClock,    \* bound: the wall clock
    MaxFaults    \* bound: failed pool scalings and infeasible partitions

ASSUME LoopAssumption ==
    /\ Context \in [Jobs -> Nat]
    /\ Selected \subseteq Jobs
    /\ Curve \in Curves
    /\ Iterations \in Nat /\ Deadlines \subseteq Nat
    /\ MaxClock \in Nat /\ MaxFaults \in Nat

VARIABLES
    state,     \* Job.state of each job, "absent" before it is submitted
    gpus,      \* Job.allocated_gpus
    left,      \* Job.iters_remaining()
    due,       \* Job.submitted_at + Job.deadline_s
    before,    \* the insertion order of the store's dict
    phase,     \* where the tick is
    now,       \* now_seconds of the tick
    running,   \* RUNNING jobs the tick has yet to decide
    paused,    \* PAUSED jobs the tick has yet to decide
    decided,   \* keys of result.decisions
    events,    \* to_world of result.reshard_events, 0 without an event
    above, below,   \* the policy's _ticks_above and _ticks_below
    hist,      \* readings of the last Hysteresis ticks (history)
    part,      \* depth of each job's partition, 0 without one
    best, calls,    \* _best_score and _stagnant_calls of its tracker
    replicas,  \* replicas of each job's pool
    world,     \* the world its workers were told to form, 0 while released
    clock,     \* wall-clock time
    faults     \* failures so far

store     == <<state, gpus, left, due, before>>
tick      == <<phase, now, running, paused, decided, events>>
policy    == <<above, below, hist>>
partition == <<part, best, calls>>
env       == <<clock, faults>>
vars == <<store, tick, policy, partition, replicas, world, env>>

States == {"absent", "RUNNING", "PAUSED", "DROPPED"}
Widths == 1 .. AtLeast(MaxGpus, CurveGpus)

TypeOK ==
    /\ state \in [Jobs -> States]
    /\ gpus \in [Jobs -> Widths \cup {0}]
    /\ left \in [Jobs -> 0 .. Iterations]
    /\ due \in [Jobs -> Nat]
    /\ before \in SUBSET (Jobs \X Jobs)
    /\ phase \in {"idle", "reading", "deciding"}
    /\ now \in 0 .. MaxClock /\ clock \in 0 .. MaxClock
    /\ running \in SUBSET Jobs /\ paused \in SUBSET Jobs /\ decided \in SUBSET Jobs
    /\ events \in [Jobs -> Widths \cup {0}]
    /\ above \in 0 .. Hysteresis - 1 /\ below \in 0 .. Hysteresis - 1
    /\ hist \in [1 .. Hysteresis -> SUBSET Readings]
    /\ part \in [Jobs -> Widths \cup {0}]
    /\ best \in [Jobs -> 0 .. Infinite]
    /\ calls \in [Jobs -> 0 .. Patience + MaxFaults]
    /\ replicas \in [Jobs -> Widths \cup {0}]
    /\ world \in [Jobs -> Widths \cup {0}]
    /\ faults \in 0 .. MaxFaults

Zero == [j \in Jobs |-> 0]

Init ==
    /\ state = [j \in Jobs |-> "absent"]
    /\ gpus = Zero /\ left = Zero /\ due = Zero /\ before = {}
    /\ phase = "idle" /\ now = 0
    /\ running = {} /\ paused = {} /\ decided = {} /\ events = Zero
    /\ above = 0 /\ below = 0 /\ hist = [k \in 1 .. Hysteresis |-> {}]
    /\ part = Zero /\ best = [j \in Jobs |-> Infinite] /\ calls = Zero
    /\ replicas = Zero /\ world = Zero
    /\ clock = 0 /\ faults = 0

InState(s) == {j \in Jobs : state[j] = s}
-----------------------------------------------------------------------------
(* The rest of the system.                                                 *)

\* submit_job: admission decides, an admitted job is stored RUNNING on its
\* minimum satisfactory share.
Submit(j) ==
    /\ state[j] = "absent"
    /\ \E deadline \in Deadlines :
         LET share == MSS(Curve, Iterations, deadline)
         IN /\ state' = [state EXCEPT ![j] = IF share = 0 THEN "DROPPED" ELSE "RUNNING"]
            /\ gpus' = [gpus EXCEPT ![j] = share]
            /\ world' = [world EXCEPT ![j] = share]
            /\ left' = [left EXCEPT ![j] = Iterations]
            /\ due' = [due EXCEPT ![j] = clock + deadline]
    /\ before' = before \cup ((Jobs \ InState("absent")) \X {j})
    /\ UNCHANGED <<tick, policy, partition, replicas, env>>

\* A worker's progress, told to the store; only the floor reads it.
Progress(j) ==
    /\ j \in Selected /\ state[j] = "RUNNING" /\ left[j] > 0
    /\ left' = [left EXCEPT ![j] = @ - 1]
    /\ UNCHANGED <<state, gpus, due, before, tick, policy, partition, replicas, world, env>>

Elapse ==
    /\ clock < MaxClock
    /\ clock' = clock + 1
    /\ UNCHANGED <<store, tick, policy, partition, replicas, world, faults>>
-----------------------------------------------------------------------------
(* The tick.                                                               *)

\* now, and the by_state(RUNNING) half of the list of jobs.
TickStart ==
    /\ phase = "idle"
    /\ phase' = "reading"
    /\ now' = clock
    /\ running' = InState("RUNNING")
    /\ decided' = {} /\ events' = Zero
    /\ hist' = [k \in 1 .. Hysteresis |-> IF k = Hysteresis THEN {} ELSE hist[k + 1]]
    /\ UNCHANGED <<store, paused, above, below, partition, replicas, world, env>>

\* Mutant: the second half takes every scheduled job of the store.
ReadScheduled ==
    /\ phase = "reading"
    /\ phase' = "deciding"
    /\ paused' = InState("PAUSED") \cup InState("RUNNING")
    /\ UNCHANGED <<store, now, running, decided, events, policy, partition, replicas, world, env>>

\* The by_state(PAUSED) half: a second look at the store.
ReadPaused ==
    /\ phase = "reading"
    /\ phase' = "deciding"
    /\ paused' = InState("PAUSED")
    /\ UNCHANGED <<store, now, running, decided, events, policy, partition, replicas, world, env>>

\* The next job of the list: running before paused, in insertion order.
Oldest(batch) == {j \in batch : \A i \in batch \ {j} : <<j, i>> \in before}
NextJob == IF running # {} THEN Oldest(running) ELSE Oldest(paused)

Current(j) == AtLeast(1, gpus[j])

Remaining(j) == IF due[j] > now THEN due[j] - now ELSE 0

\* Mutant: the floor is computed for the whole deadline, not for what is left.
FloorOfSubmission(j) == Floor(Curve, left[j], due[j])

DeadlineFloor(j) == Floor(Curve, left[j], Remaining(j))

\* The width after the deadline override.
Target(j, asked) ==
    IF j \in Selected
    THEN AtLeast(AtLeast(1, asked), DeadlineFloor(j))
    ELSE AtLeast(1, asked)

\* _repartition runs only for a changed width of at least two stages.
Repartitioned(j, t) == t # Current(j) /\ t >= 2 /\ Context[j] # 0

\* partition_pipeline wants a layer per stage: a ValueError, which
\* _repartition does not catch.
TooShallow(j, t) == Repartitioned(j, t) /\ part[j] # t /\ Context[j] < t

FullDP(j, t) == FullOutcomes(t, part[j], best[j], calls[j])

\* Mutant: the tracker is not reset after the full DP it asked for.
SlideWithoutReset(j) ==
    {Outcome(part[j], Lowest(score, best[j]),
             AtMost(Stagnant(score, best[j], calls[j]), Patience + MaxFaults), 0) :
        score \in 0 .. MaxScore}

Slide(j) == SlideOutcomes(part[j], best[j], calls[j])

\* Mutant: a job that resumes keeps the partition it was paused with.
RepartitionsOfRunning(j, t) ==
    CASE ~Repartitioned(j, t) \/ state[j] = "PAUSED" ->
           {Outcome(part[j], best[j], calls[j], 0)}
      [] Repartitioned(j, t) /\ state[j] # "PAUSED" /\ part[j] # t -> FullDP(j, t)
      [] OTHER -> Slide(j)

Repartitions(j, t) ==
    CASE ~Repartitioned(j, t) -> {Outcome(part[j], best[j], calls[j], 0)}
      [] Repartitioned(j, t) /\ part[j] # t -> FullDP(j, t)
      [] OTHER -> Slide(j)

\* What one call of the policy leaves behind, raised exceptions included.
PolicyCalled(reading) ==
    /\ above' = Counted(reading, "above", above)
    /\ below' = Counted(reading, "below", below)
    /\ hist' = [hist EXCEPT ![Hysteresis] = @ \cup {reading}]

\* Mutant: a pause that changes the width is an event as well.
EventOfPauses(j, d, t) ==
    IF state[j] = "RUNNING" /\ t # Current(j) THEN t ELSE 0

\* The reshard event of a decision, 0 when there is none.
EventOf(j, d, t) ==
    IF state[j] = "RUNNING" /\ ~d.pause /\ t # Current(j) THEN t ELSE 0

\* A released job's workers are gone; a resumed one's start afresh at the
\* decided width; a running one's wait for the event.
WorldAfter(j, d, t) ==
    CASE d.pause -> 0
      [] ~d.pause /\ state[j] = "PAUSED" -> t
      [] OTHER -> world[j]

PoolTarget(d, t) == IF d.pause THEN 0 ELSE t

\* Mutant: the pool is driven only when the width changes.
ScaledOnChange(j, want, failed) ==
    IF want = gpus[j] THEN failed = 0 /\ UNCHANGED replicas
    ELSE \/ failed = 0 /\ replicas' = [replicas EXCEPT ![j] = want]
         \/ /\ failed = 1
            /\ \E some \in Widths \cup {0} :
                 /\ some <= AtLeast(replicas[j], want) /\ some >= AtMost(replicas[j], want)
                 /\ replicas' = [replicas EXCEPT ![j] = some]

\* pool_scale_fn on every decision; an exception is logged and leaves the
\* pool anywhere on the way.
Scaled(j, want, failed) ==
    \/ failed = 0 /\ replicas' = [replicas EXCEPT ![j] = want]
    \/ /\ failed = 1
       /\ \E some \in Widths \cup {0} :
            /\ some <= AtLeast(replicas[j], want) /\ some >= AtMost(replicas[j], want)
            /\ replicas' = [replicas EXCEPT ![j] = some]

Decide(j) ==
    /\ phase = "deciding" /\ j \in NextJob
    /\ \E reading \in Readings : \E d \in Decisions(Current(j), reading, above, below) :
         LET t == Target(j, d.gpus)
         IN /\ ~TooShallow(j, t)
            /\ PolicyCalled(reading)
            /\ \E o \in Repartitions(j, t), failed \in {0, 1} :
                 /\ part' = [part EXCEPT ![j] = o.part]
                 /\ best' = [best EXCEPT ![j] = o.best]
                 /\ calls' = [calls EXCEPT ![j] = o.calls]
                 /\ faults' = faults + o.fails + failed
                 /\ faults' <= MaxFaults
                 /\ Scaled(j, PoolTarget(d, t), failed)
            /\ events' = [events EXCEPT ![j] = IF EventOf(j, d, t) # 0 THEN EventOf(j, d, t) ELSE @]
            /\ world' = [world EXCEPT ![j] = WorldAfter(j, d, t)]
            /\ gpus' = [gpus EXCEPT ![j] = t]
            /\ state' = [state EXCEPT ![j] = IF d.pause THEN "PAUSED" ELSE "RUNNING"]
    /\ decided' = decided \cup {j}
    /\ running' = running \ {j}
    /\ paused' = IF j \in running THEN paused ELSE paused \ {j}
    /\ UNCHANGED <<left, due, before, phase, now, clock>>

\* The ValueError ends the tick: the policy was called, the jobs decided so
\* far were written, and the result with their events is lost.
TickRaises(j) ==
    /\ phase = "deciding" /\ j \in NextJob
    /\ \E reading \in Readings : \E d \in Decisions(Current(j), reading, above, below) :
         TooShallow(j, Target(j, d.gpus)) /\ PolicyCalled(reading)
    /\ phase' = "idle"
    /\ running' = {} /\ paused' = {} /\ decided' = {} /\ events' = Zero
    /\ UNCHANGED <<store, now, partition, replicas, world, env>>

\* The tick returns, and its events reach the workers.
TickReturn ==
    /\ phase = "deciding" /\ running = {} /\ paused = {}
    /\ phase' = "idle"
    /\ world' = [j \in Jobs |-> IF events[j] # 0 THEN events[j] ELSE world[j]]
    /\ events' = Zero
    /\ UNCHANGED <<store, now, running, paused, decided, policy, partition, replicas, env>>

TickStep ==
    \/ TickStart \/ ReadPaused \/ TickReturn
    \/ \E j \in Jobs : Decide(j) \/ TickRaises(j)

Next ==
    \/ TickStep
    \/ \E j \in Jobs : Submit(j) \/ Progress(j)
    \/ Elapse

Spec == Init /\ [][Next]_vars

\* The loop task ticks forever, whatever a tick raised.
FairSpec == Spec /\ WF_vars(TickStep)
-----------------------------------------------------------------------------
(* What must hold.                                                         *)

\* Between ticks the workers of a running job form exactly the world the
\* store says, and those of a paused job are released: no change of width is
\* lost between the event path (ReshardEvent) and the pause/resume path, and
\* none is applied by both.
WorkersFollow ==
    phase = "idle" =>
        \A j \in Jobs :
            /\ state[j] = "RUNNING" => world[j] = gpus[j]
            /\ state[j] = "PAUSED" => world[j] = 0

\* A tick decides no job twice, although it reads the store twice while it
\* changes: a second decision would compound the first.
NoJobTwice ==
    /\ running \cap paused = {}
    /\ decided \cap (running \cup paused) = {}

\* A pool follows its job: it drains when the job stays paused, and reaches
\* the width when the job stays on one, however often scaling failed on the
\* way (the failure is logged and the next tick drives the pool again).
PoolFollowsJob ==
    \A j \in Jobs :
        /\ <>[](state[j] = "PAUSED") => <>[](replicas[j] = 0)
        /\ \A g \in Widths :
             <>[](state[j] = "RUNNING" /\ gpus[j] = g) => <>[](replicas[j] = g)

\* As long as no time has passed since a tick, every scheduled job with a
\* selector has at least the width its remaining work needs by its deadline.
FloorHeld ==
    phase = "idle" /\ clock = now =>
        \A j \in Selected :
            state[j] \in {"RUNNING", "PAUSED"} =>
                gpus[j] >= Floor(Curve, left[j], AtLeast(due[j] - clock, 0))

\* A job on two GPUs or more is never left with a partition of another depth,
\* unless a repartition was infeasible: not over a pause, nor over a stay at
\* width one, which _repartition does not see.
PartitionFits ==
    faults = 0 =>
        \A j \in Jobs : part[j] # 0 /\ gpus[j] >= 2 => part[j] = gpus[j]

\* The tracker asks for the full DP as soon as its patience is over: it is
\* found beyond it only by as many calls as that DP was infeasible.
StagnationEscaped == \A j \in Jobs : calls[j] < Patience + faults

\* The power policy changes a width only after hysteresis_ticks consecutive
\* ticks on one side of the thresholds, or on a dirty grid.
ConsecutiveReadings ==
    [][\A j \in Jobs :
          gpus'[j] # gpus[j] /\ state[j] # "absent" =>
              \/ hist'[Hysteresis] = {"gate"}
              \/ \E side \in {"above", "below"} :
                    \A k \in 1 .. Hysteresis : hist'[k] = {side}]_vars
-----------------------------------------------------------------------------
(* The inductive invariant: what a tick under way knows of the store, and  *)
(* where a change of width is between the store and the workers.           *)

Reading ==
    /\ phase = "idle" => running = {} /\ paused = {} /\ events = Zero
    /\ phase = "reading" => paused = {} /\ decided = {} /\ events = Zero
    /\ \A j \in running : state[j] = "RUNNING"
    /\ \A j \in paused : state[j] = "PAUSED"
    /\ \A j \in decided : state[j] \in {"RUNNING", "PAUSED"}

Allocated ==
    \A j \in Jobs : state[j] \in {"RUNNING", "PAUSED"} => gpus[j] \in Widths

Delivered ==
    \A j \in Jobs :
        /\ events[j] # 0 => j \in decided /\ state[j] = "RUNNING" /\ events[j] = gpus[j]
        /\ state[j] = "RUNNING" => world[j] = gpus[j] \/ events[j] = gpus[j]
        /\ state[j] = "PAUSED" => world[j] = 0

Partitioned ==
    \A j \in Jobs : part[j] # 0 =>
        Context[j] # 0 /\ state[j] \in {"RUNNING", "PAUSED"}

\* As long as no time has passed since the tick began, a job is at its floor
\* or will be decided by this tick.
Held(j) == gpus[j] >= Floor(Curve, left[j], AtLeast(due[j] - clock, 0))

Awaited(j) ==
    \/ phase = "reading" /\ (j \in running \/ state[j] = "PAUSED")
    \/ phase = "deciding" /\ j \in running \cup paused

Floored ==
    /\ now <= clock
    /\ clock = now => \A j \in Selected :
          state[j] \in {"RUNNING", "PAUSED"} => Held(j) \/ Awaited(j)

\* A side of the thresholds has been counted in the ticks before, and in the
\* one under way once its job is decided; a tick has one reading of its job.
Seen(side, n) ==
    IF phase # "idle" /\ decided = {}
    THEN \A k \in Hysteresis - n .. Hysteresis - 1 : hist[k] = {side}
    ELSE \A k \in Hysteresis - n + 1 .. Hysteresis : hist[k] = {side}

Counting ==
    /\ phase # "idle" /\ decided = {} => hist[Hysteresis] = {}
    /\ Seen("above", above) /\ Seen("below", below)
    /\ \A j \in Jobs : /\ state[j] # "PAUSED"
                       /\ above + below > 0 => state[j] = "RUNNING"
                       /\ above + below > 0 /\ phase # "idle" => j \in running \cup decided

\* What holds whatever a tick raises.
LoopInv ==
    /\ TypeOK /\ Reading /\ Allocated /\ NoJobTwice
    /\ Partitioned /\ PartitionFits /\ StagnationEscaped

\* What holds when every job with a context has a layer for each stage it
\* may be given.
DeepEnough ==
    \A j \in Jobs : Context[j] = 0 \/ Context[j] >= AtLeast(MaxGpus, CurveGpus)

IInv == LoopInv /\ Delivered

\* A loop of one job under the power policy, without a deadline selector.
OneJob == Policy = "power" /\ Selected = {} /\ \E j : Jobs = {j}
=============================================================================
