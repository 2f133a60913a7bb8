-------------------------- MODULE GreedyAllocation --------------------------
(***************************************************************************)
(* The two greedy allocators of mss.py: while GPUs are left, the next one  *)
(* goes to the job with the highest marginal throughput, or to the one     *)
(* whose added iterations draw the least power each.  A profile is the     *)
(* throughput and the power (energy per iteration times throughput) of     *)
(* each share; quotients are compared by cross-multiplication.             *)
(***************************************************************************)
EXTENDS Integers, Sequences, FiniteSetsExt

CONSTANTS
    Profiles,      \* the profiles a job may have
    MaxJobs,       \* bound: jobs admitted
    MaxAvailable   \* bound: available_gpus

Steps(c) == [x \in 1 .. Len(c) - 1 |-> c[x + 1] - c[x]]

\* Non-decreasing and concave throughput (ScalingCurve), non-decreasing and
\* convex power (validate_power_convexity): what the allocators rely on.
ASSUME GreedyAssumption ==
    /\ MaxJobs \in Nat /\ MaxAvailable \in Nat
    /\ \A p \in Profiles :
         /\ p \in [rate : Seq(Nat), power : Seq(Nat)]
         /\ Len(p.rate) = Len(p.power) /\ Len(p.rate) > 0
         /\ \A x \in DOMAIN Steps(p.rate) :
              /\ Steps(p.rate)[x] >= 0 /\ Steps(p.power)[x] >= 0
              /\ x > 1 => /\ Steps(p.rate)[x] <= Steps(p.rate)[x - 1]
                          /\ Steps(p.power)[x] >= Steps(p.power)[x - 1]

VARIABLES
    profiles,  \* of the jobs admitted, in their order; none before the call
    alloc,     \* the share of each job
    start,     \* the share each had
    available, \* available_gpus
    objective  \* which of the two allocators runs

greedyVars == <<profiles, alloc, start, available, objective>>

GreedyIdle ==
    /\ profiles = <<>> /\ alloc = <<>> /\ start = <<>>
    /\ available = 0 /\ objective = "throughput"

MaxShare(p) == Len(p.rate)
SharesOf(ps) ==
    {b \in [DOMAIN ps -> UNION {1 .. MaxShare(ps[j]) : j \in DOMAIN ps}] :
        \A j \in DOMAIN ps : b[j] <= MaxShare(ps[j])}

\* A call, with the shares the jobs hold.
GreedyCall ==
    /\ profiles \in UNION {[1 .. k -> Profiles] : k \in 1 .. MaxJobs}
    /\ start \in SharesOf(profiles)
    /\ alloc = start
    /\ available \in 0 .. MaxAvailable
    /\ objective \in {"throughput", "energy"}

Jobs == DOMAIN profiles
Total(shares) == MapThenSumSet(LAMBDA j : shares[j], Jobs)
Headroom == {j \in Jobs : alloc[j] < MaxShare(profiles[j])}

DeltaT(j) == profiles[j].rate[alloc[j] + 1] - profiles[j].rate[alloc[j]]
DeltaP(j) == profiles[j].power[alloc[j] + 1] - profiles[j].power[alloc[j]]

\* The jobs the next GPU may go to; a saturated one gets none for the energy.
Candidates ==
    IF objective = "throughput" THEN Headroom ELSE {j \in Headroom : DeltaT(j) > 0}

\* Mutant: the energy allocator ranks by the power added, whatever it yields.
BetterByPower(i, j) ==
    IF objective = "throughput" THEN DeltaT(i) > DeltaT(j) ELSE DeltaP(i) < DeltaP(j)

\* Strictly more throughput, or strictly less power per added iteration.
Better(i, j) ==
    IF objective = "throughput" THEN DeltaT(i) > DeltaT(j)
    ELSE DeltaP(i) * DeltaT(j) < DeltaP(j) * DeltaT(i)

\* best_jid: the first of the best.
Best(j) ==
    /\ j \in Candidates
    /\ \A i \in Candidates : ~Better(i, j) /\ (i < j => Better(j, i))

CanGive == available > Total(alloc) /\ Candidates # {}

Give ==
    /\ CanGive
    /\ \E j \in Jobs : Best(j) /\ alloc' = [alloc EXCEPT ![j] = @ + 1]
    /\ UNCHANGED <<profiles, start, available, objective>>
-----------------------------------------------------------------------------
Rate(shares) == Total([j \in Jobs |-> profiles[j].rate[shares[j]]])
Power(shares) == Total([j \in Jobs |-> profiles[j].power[shares[j]]])

\* What else could have been given, taking from no job.
Others ==
    {b \in SharesOf(profiles) :
        (\A j \in Jobs : start[j] <= b[j]) /\ (b = start \/ Total(b) <= available)}

\* One GPU at a time is good enough: when the allocator returns, no other way
\* to hand out the GPUs has more throughput; and for the energy, none has as
\* much throughput for less power ("global optimality").
GreedyIsBest ==
    profiles # <<>> /\ ~CanGive =>
        /\ alloc \in Others
        /\ \A b \in Others :
             IF objective = "throughput" THEN Rate(b) <= Rate(alloc)
             ELSE Rate(b) >= Rate(alloc) => Power(b) >= Power(alloc)
-----------------------------------------------------------------------------
(* The inductive invariant: what the last GPU of a job was worth.          *)

\* What one more GPU than x gains a job, and what it costs: a GPU, or power.
Gain(j, x) == profiles[j].rate[x + 1] - profiles[j].rate[x]
Cost(j, x) ==
    IF objective = "throughput" THEN 1
    ELSE profiles[j].power[x + 1] - profiles[j].power[x]

\* No job that was given a GPU paid more for what it gained than any job
\* would pay for the next one.
Threshold ==
    \A i \in Jobs : alloc[i] > start[i] =>
        /\ objective = "energy" => Gain(i, alloc[i] - 1) > 0
        /\ \A j \in Candidates :
              Cost(i, alloc[i] - 1) * DeltaT(j) <= Cost(j, alloc[j]) * Gain(i, alloc[i] - 1)

GreedyInv ==
    profiles # <<>> =>
        /\ profiles \in UNION {[1 .. k -> Profiles] : k \in 1 .. MaxJobs}
        /\ available \in Nat /\ objective \in {"throughput", "energy"}
        /\ {start, alloc} \subseteq SharesOf(profiles)
        /\ \A j \in Jobs : start[j] <= alloc[j]
        /\ alloc = start \/ Total(alloc) <= available
        /\ Threshold
=============================================================================
