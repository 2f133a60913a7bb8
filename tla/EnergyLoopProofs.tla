-------------------------- MODULE EnergyLoopProofs --------------------------
(***************************************************************************)
(* The control loop, for every set of jobs, policy, curve, context and     *)
(* sequence of submissions.                                                *)
(***************************************************************************)
EXTENDS EnergyLoop, WellFoundedInduction, TLAPS

LEMMA LessThan ==
    \A m, n \in Nat : n < m => <<n, m>> \in OpToRel(<, Nat)
BY DEF OpToRel

\* Every non-empty set of naturals has a least element.
LEMMA Smallest ==
    ASSUME NEW T, T \subseteq Nat, T # {}
    PROVE  \E m \in T : \A n \in T : m <= n
<1> DEFINE R == OpToRel(<, Nat)
<1>1. \E m \in T : \A n \in T : ~ (<<n, m>> \in R)
  BY NatLessThanWellFounded, WFMin
<1>2. \A m, n \in Nat : n < m => <<n, m>> \in R
  BY LessThan
<1> HIDE DEF R
<1>3. PICK m \in T : \A n \in T : ~ (<<n, m>> \in R)
  BY <1>1
<1>4. \A n \in T : ~ (n < m)
  BY <1>2, <1>3
<1>5. \A n \in T : m <= n
  BY <1>4, <1>3
<1> QED
  BY <1>5
-----------------------------------------------------------------------------
(* The widths the policies, the selectors and the admission produce.       *)

LEMMA WidthFacts ==
    /\ AtLeast(MaxGpus, CurveGpus) \in Nat \ {0}
    /\ Shares \subseteq Widths /\ Widths \subseteq Nat \ {0}
    /\ MinGpus \in Widths /\ MaxGpus \in Widths /\ 1 \in Widths
BY PolicyAssumption, CurveAssumption DEF AtLeast, Shares, Widths

LEMMA MSSType ==
    ASSUME NEW i \in Nat, NEW d \in Nat
    PROVE  MSS(Curve, i, d) \in Shares \cup {0}
<1>1. CASE i > 0 /\ d > 0 /\ \E s \in Shares : Meets(Curve, s, i, d)
  <2>1. MSS(Curve, i, d) = CHOOSE s \in Shares : IsShare(Curve, s, i, d)
    BY <1>1 DEF MSS
  <2>2. \E s \in Shares : IsShare(Curve, s, i, d)
    <3> DEFINE Meeting == {s \in Shares : Meets(Curve, s, i, d)}
    <3>1. Meeting \subseteq Nat /\ Meeting # {}
      BY <1>1 DEF Shares
    <3> HIDE DEF Meeting
    <3>2. PICK s \in Meeting : \A r \in Meeting : s <= r
      BY <3>1, Smallest
    <3> USE DEF Meeting
    <3> QED
      BY <3>2 DEF IsShare
  <2> QED
    BY <2>1, <2>2
<1>2. CASE ~(i > 0 /\ d > 0 /\ \E s \in Shares : Meets(Curve, s, i, d))
  BY <1>2 DEF MSS
<1> QED
  BY <1>1, <1>2

LEMMA FloorType ==
    ASSUME NEW i \in Nat, NEW d \in Nat
    PROVE  Floor(Curve, i, d) \in Widths
<1>1. MSS(Curve, i, d) \in Shares \cup {0} /\ CurveGpus \in Widths /\ 1 \in Widths
  BY MSSType, WidthFacts, CurveAssumption DEF Shares
<1>2. i = 0 \/ i > 0
  OBVIOUS
<1> QED
  BY <1>1, <1>2, WidthFacts DEF Floor

LEMMA DecisionType ==
    ASSUME NEW cur \in Widths, NEW reading \in Readings,
           NEW m \in Nat, NEW n \in Nat, NEW d \in Decisions(cur, reading, m, n)
    PROVE  d.gpus \in Widths /\ d.pause \in BOOLEAN
<1> DEFINE W == AtLeast(MaxGpus, CurveGpus)
<1>0. /\ cur \in Nat /\ cur >= 1 /\ cur <= W /\ W \in Nat
      /\ MinGpus \in Nat /\ MaxGpus \in Nat /\ 1 <= MinGpus /\ MinGpus <= MaxGpus
      /\ MaxGpus <= W /\ Widths = 1 .. W
  BY PolicyAssumption, CurveAssumption DEF Widths, AtLeast
<1> HIDE DEF W
<1>a. cur \div 2 \in Nat /\ cur \div 2 <= cur
  BY <1>0
<1>b. AtLeast(MinGpus, cur \div 2) \in 1 .. W
  BY <1>0, <1>a DEF AtLeast
<1>1. CASE Policy = "rule"
  <2>1. d = [gpus |-> RuleTarget(cur, reading), pause |-> reading = "filthy"]
    BY <1>1 DEF Decisions
  <2>2. RuleTarget(cur, reading) \in 1 .. W
    <3>1. 1 <= AtMost(MaxGpus, AtLeast(cur * 2, MinGpus + 1))
          /\ AtMost(MaxGpus, AtLeast(cur * 2, MinGpus + 1)) <= MaxGpus
          /\ AtMost(MaxGpus, AtLeast(cur * 2, MinGpus + 1)) \in Nat
      <4>1. cur * 2 \in Nat /\ cur * 2 >= 1 /\ MinGpus + 1 \in Nat /\ MinGpus + 1 >= 1
        BY <1>0
      <4> QED
        BY <4>1, <1>0 DEF AtLeast, AtMost
    <3> QED
      BY <3>1, <1>0, <1>b DEF RuleTarget
  <2> QED
    BY <2>1, <2>2, <1>0
<1>2. CASE Policy = "power"
  <2>1. d = [gpus |-> PowerTarget(cur, reading, m, n), pause |-> FALSE]
    BY <1>2 DEF Decisions
  <2>2. PowerTarget(cur, reading, m, n) \in 1 .. W
    <3>1. AtLeast(MinGpus, cur - 1) \in 1 .. W
      BY <1>0 DEF AtLeast
    <3>2. AtMost(MaxGpus, cur + 1) \in 1 .. W
      BY <1>0 DEF AtMost
    <3> QED
      BY <3>1, <3>2, <1>0, <1>b DEF PowerTarget
  <2> QED
    BY <2>1, <2>2, <1>0
<1>3. CASE Policy = "search"
  <2>1. PICK g \in SearchTargets(cur) : d = [gpus |-> g, pause |-> FALSE]
    BY <1>3 DEF Decisions
  <2>2. g \in Widths
    BY <1>0 DEF SearchTargets
  <2> QED
    BY <2>1, <2>2
<1> QED
  BY <1>1, <1>2, <1>3, PolicyAssumption

LEMMA CurrentType ==
    ASSUME TypeOK, NEW j \in Jobs PROVE Current(j) \in Widths
BY WidthFacts DEF TypeOK, Current, AtLeast

LEMMA TargetType ==
    ASSUME TypeOK, NEW j \in Jobs, NEW g \in Widths
    PROVE  Target(j, g) \in Widths
<1>1. left[j] \in Nat /\ Remaining(j) \in Nat
  BY LoopAssumption DEF TypeOK, Remaining
<1>2. DeadlineFloor(j) \in Widths
  BY <1>1, FloorType DEF DeadlineFloor
<1>3. AtLeast(1, g) = g /\ g \in Nat
  BY WidthFacts DEF AtLeast
<1> QED
  BY <1>2, <1>3, WidthFacts DEF Target, AtLeast

\* What a repartition may leave behind.
LEMMA RepartitionType ==
    ASSUME TypeOK, StagnationEscaped, NEW j \in Jobs, NEW t \in Widths,
           NEW o \in Repartitions(j, t)
    PROVE  /\ o.part \in Widths \cup {0} /\ o.best \in 0 .. Infinite
           /\ o.fails \in {0, 1}
           /\ o.calls \in Nat /\ o.calls < Patience + faults + o.fails
           /\ o.part # part[j] => o.part = t /\ Repartitioned(j, t)
           /\ Repartitioned(j, t) /\ o.fails = 0 => o.part = t
<1>0. /\ part[j] \in Widths \cup {0} /\ best[j] \in 0 .. Infinite
      /\ calls[j] \in Nat /\ calls[j] < Patience + faults
      /\ Patience \in Nat /\ Patience >= 1 /\ faults \in Nat
      /\ MaxScore \in Nat /\ Infinite \in Nat /\ Infinite = MaxScore + 1
  BY RepartitioningAssumption, LoopAssumption DEF TypeOK, StagnationEscaped, Infinite
<1>1. CASE ~Repartitioned(j, t)
  BY <1>0, <1>1 DEF Repartitions, Outcome
<1>2. CASE Repartitioned(j, t) /\ part[j] # t
  <2>1. o \in FullDP(j, t)
    BY <1>2 DEF Repartitions
  <2> QED
    BY <2>1, <1>0, <1>2 DEF FullDP, FullOutcomes, Outcome
<1>3. CASE Repartitioned(j, t) /\ part[j] = t
  <2>1. o \in Slide(j)
    BY <1>3 DEF Repartitions
  <2> DEFINE low(score) == Lowest(score, best[j])
             c(score) == Stagnant(score, best[j], calls[j])
  <2>2. PICK score \in 0 .. MaxScore :
          o \in IF c(score) < Patience
                THEN {Outcome(part[j], low(score), c(score), 0)}
                ELSE {Outcome(part[j], low(score), 0, 0),
                      Outcome(part[j], low(score), c(score), 1)}
    BY <2>1 DEF Slide, SlideOutcomes
  <2>3. low(score) \in 0 .. Infinite
    BY <1>0 DEF Lowest
  <2>4. c(score) \in Nat /\ c(score) < Patience + faults + 1
    BY <1>0 DEF Stagnant
  <2>5. \/ o = Outcome(part[j], low(score), c(score), 0) /\ c(score) < Patience
        \/ o = Outcome(part[j], low(score), 0, 0)
        \/ o = Outcome(part[j], low(score), c(score), 1)
    BY <2>2
  <2> HIDE DEF low, c
  <2> QED
    BY <2>3, <2>4, <2>5, <1>0, <1>3 DEF Outcome
<1> QED
  BY <1>1, <1>2, <1>3

LEMMA CountedType ==
    ASSUME NEW reading, NEW side, NEW n \in 0 .. Hysteresis - 1
    PROVE  Counted(reading, side, n) \in 0 .. Hysteresis - 1
BY PolicyAssumption DEF Counted, Fires

LEMMA PolicyType ==
    ASSUME TypeOK, NEW reading \in Readings, PolicyCalled(reading)
    PROVE  /\ above' \in 0 .. Hysteresis - 1 /\ below' \in 0 .. Hysteresis - 1
           /\ hist' \in [1 .. Hysteresis -> SUBSET Readings]
<1>1. above \in 0 .. Hysteresis - 1 /\ below \in 0 .. Hysteresis - 1
  BY DEF TypeOK
<1>2. above' \in 0 .. Hysteresis - 1 /\ below' \in 0 .. Hysteresis - 1
  BY <1>1, CountedType DEF PolicyCalled
<1>3. hist' \in [1 .. Hysteresis -> SUBSET Readings]
  BY DEF TypeOK, PolicyCalled
<1> QED
  BY <1>2, <1>3

LEMMA NextJobScheduled ==
    ASSUME TypeOK, Reading, NEW j \in NextJob
    PROVE  /\ j \in Jobs /\ j \in running \cup paused
           /\ state[j] \in {"RUNNING", "PAUSED"}
           /\ j \notin running => running = {}
BY DEF TypeOK, Reading, NextJob, Oldest
-----------------------------------------------------------------------------
(* What holds whatever a tick raises, action by action.                    *)

LEMMA InitLoop == Init => LoopInv
<1> SUFFICES ASSUME Init PROVE LoopInv
  OBVIOUS
<1>1. TypeOK
  BY PolicyAssumption, LoopAssumption, RepartitioningAssumption, WidthFacts DEF Init, TypeOK, States, Zero, Infinite
<1>2. Reading /\ Allocated /\ NoJobTwice /\ Partitioned /\ PartitionFits
  BY DEF Init, Reading, Allocated, NoJobTwice, Partitioned, PartitionFits, Zero
<1>3. StagnationEscaped
  BY LoopAssumption, RepartitioningAssumption DEF Init, StagnationEscaped, Zero
<1> QED
  BY <1>1, <1>2, <1>3 DEF LoopInv

LEMMA SubmitLoop ==
    ASSUME LoopInv, NEW j \in Jobs, Submit(j) PROVE LoopInv'
<1> USE DEF LoopInv
<1>1. PICK deadline \in Deadlines :
        LET share == MSS(Curve, Iterations, deadline)
        IN /\ state' = [state EXCEPT ![j] = IF share = 0 THEN "DROPPED" ELSE "RUNNING"]
           /\ gpus' = [gpus EXCEPT ![j] = share]
           /\ world' = [world EXCEPT ![j] = share]
           /\ left' = [left EXCEPT ![j] = Iterations]
           /\ due' = [due EXCEPT ![j] = clock + deadline]
  BY DEF Submit
<1> DEFINE share == MSS(Curve, Iterations, deadline)
<1>2. /\ share \in Widths \cup {0}
      /\ state' = [state EXCEPT ![j] = IF share = 0 THEN "DROPPED" ELSE "RUNNING"]
      /\ gpus' = [gpus EXCEPT ![j] = share]
      /\ world' = [world EXCEPT ![j] = share]
      /\ deadline \in Nat
  BY <1>1, MSSType, WidthFacts, LoopAssumption
<1> HIDE DEF share
<1>3. /\ state[j] = "absent"
      /\ UNCHANGED <<phase, now, running, paused, decided, events, above, below, hist>>
      /\ UNCHANGED <<part, best, calls, replicas, clock, faults>>
  BY DEF Submit, tick, policy, partition, env
<1>4. TypeOK'
  <2>1. left' \in [Jobs -> 0 .. Iterations] /\ due' \in [Jobs -> Nat]
    BY <1>1, <1>2, LoopAssumption DEF TypeOK
  <2>2. before' \in SUBSET (Jobs \X Jobs)
    BY DEF Submit, TypeOK, InState
  <2>3. state' \in [Jobs -> States] /\ gpus' \in [Jobs -> Widths \cup {0}]
        /\ world' \in [Jobs -> Widths \cup {0}]
    BY <1>2 DEF TypeOK, States
  <2> QED
    BY <2>1, <2>2, <2>3, <1>3 DEF TypeOK
<1>5. Reading'
  BY <1>2, <1>3 DEF Reading, TypeOK
<1>6. Allocated' /\ NoJobTwice'
  BY <1>2, <1>3 DEF Allocated, NoJobTwice, TypeOK
<1>7. Partitioned' /\ PartitionFits' /\ StagnationEscaped'
  BY <1>2, <1>3 DEF Partitioned, PartitionFits, StagnationEscaped, TypeOK
<1> QED
  BY <1>4, <1>5, <1>6, <1>7

\* Progress, the clock, and the steps of a tick that write no job.
LEMMA QuietLoop ==
    ASSUME LoopInv,
           \/ \E j \in Jobs : Progress(j)
           \/ Elapse \/ TickStart \/ ReadPaused \/ TickReturn
           \/ \E j \in Jobs : TickRaises(j)
           \/ UNCHANGED vars
    PROVE  LoopInv'
<1> USE DEF LoopInv
<1>1. ASSUME NEW j \in Jobs, Progress(j) PROVE LoopInv'
  <2>1. /\ UNCHANGED <<state, gpus, due, before, replicas, world, clock, faults>>
        /\ UNCHANGED <<phase, now, running, paused, decided, events>>
        /\ UNCHANGED <<above, below, hist, part, best, calls>>
    BY <1>1 DEF Progress, tick, policy, partition, env
  <2>2. left' \in [Jobs -> 0 .. Iterations]
    BY <1>1, LoopAssumption, SMTT(30) DEF Progress, TypeOK
  <2>3. TypeOK'
    BY <2>1, <2>2 DEF TypeOK
  <2> QED
    BY <2>1, <2>3 DEF Reading, Allocated, NoJobTwice, Partitioned, PartitionFits, StagnationEscaped
<1>2. CASE Elapse
  <2>1. /\ UNCHANGED <<state, gpus, left, due, before, replicas, world, faults>>
        /\ UNCHANGED <<phase, now, running, paused, decided, events>>
        /\ UNCHANGED <<above, below, hist, part, best, calls>>
        /\ clock' = clock + 1 /\ clock < MaxClock
    BY <1>2 DEF Elapse, store, tick, policy, partition
  <2>2. TypeOK'
    BY <2>1, LoopAssumption, RepartitioningAssumption, SMTT(30) DEF TypeOK
  <2>3. Reading' /\ NoJobTwice'
    BY <2>1, Zenon DEF Reading, NoJobTwice
  <2>4. Allocated'
    BY <2>1 DEF Allocated
  <2>5. Partitioned' /\ PartitionFits' /\ StagnationEscaped'
    BY <2>1, SMTT(20) DEF Partitioned, PartitionFits, StagnationEscaped
  <2> QED
    BY <2>2, <2>3, <2>4, <2>5
<1>3. CASE TickStart
  <2>1. /\ UNCHANGED <<state, gpus, left, due, before, replicas, world, clock, faults>>
        /\ UNCHANGED <<paused, above, below, part, best, calls>>
        /\ phase = "idle" /\ phase' = "reading" /\ now' = clock
        /\ running' = InState("RUNNING") /\ decided' = {} /\ events' = Zero
        /\ paused = {}
    BY <1>3 DEF TickStart, store, partition, env, Reading
  <2>2. hist' \in [1 .. Hysteresis -> SUBSET Readings]
    BY <1>3, PolicyAssumption DEF TickStart, TypeOK
  <2>3. TypeOK'
    BY <2>1, <2>2 DEF TypeOK, InState, Zero
  <2> QED
    BY <2>1, <2>3 DEF Reading, Allocated, NoJobTwice, Partitioned, PartitionFits,
                      StagnationEscaped, InState
<1>4. CASE ReadPaused
  <2>1. /\ UNCHANGED <<state, gpus, left, due, before, replicas, world, clock, faults>>
        /\ UNCHANGED <<now, running, decided, events, above, below, hist, part, best, calls>>
        /\ phase = "reading" /\ phase' = "deciding"
        /\ paused' = InState("PAUSED") /\ decided = {}
    BY <1>4 DEF ReadPaused, store, policy, partition, env, Reading
  <2>2. TypeOK'
    BY <2>1 DEF TypeOK, InState
  <2> QED
    BY <2>1, <2>2 DEF Reading, Allocated, NoJobTwice, Partitioned, PartitionFits,
                      StagnationEscaped, InState
<1>5. CASE TickReturn
  <2>1. /\ UNCHANGED <<state, gpus, left, due, before, replicas, clock, faults>>
        /\ UNCHANGED <<now, running, paused, decided, above, below, hist, part, best, calls>>
        /\ phase' = "idle" /\ running = {} /\ paused = {} /\ events' = Zero
        /\ world' = [j \in Jobs |-> IF events[j] # 0 THEN events[j] ELSE world[j]]
    BY <1>5 DEF TickReturn, store, policy, partition, env
  <2>2. TypeOK'
    BY <2>1 DEF TypeOK, Zero
  <2> QED
    BY <2>1, <2>2 DEF Reading, Allocated, NoJobTwice, Partitioned, PartitionFits, StagnationEscaped
<1>6. ASSUME NEW j \in Jobs, TickRaises(j) PROVE LoopInv'
  <2>1. /\ UNCHANGED <<state, gpus, left, due, before, replicas, world, clock, faults>>
        /\ UNCHANGED <<now, part, best, calls>>
        /\ phase' = "idle" /\ running' = {} /\ paused' = {} /\ decided' = {} /\ events' = Zero
    BY <1>6 DEF TickRaises, store, partition, env
  <2>2. PICK reading \in Readings : PolicyCalled(reading)
    BY <1>6 DEF TickRaises
  <2>3. TypeOK'
    BY <2>1, <2>2, PolicyType DEF TypeOK, Zero
  <2> QED
    BY <2>1, <2>3 DEF Reading, Allocated, NoJobTwice, Partitioned, PartitionFits, StagnationEscaped
<1>7. CASE UNCHANGED vars
  <2>1. /\ UNCHANGED <<state, gpus, left, due, before, replicas, world, clock, faults>>
        /\ UNCHANGED <<phase, now, running, paused, decided, events>>
        /\ UNCHANGED <<above, below, hist, part, best, calls>>
    BY <1>7 DEF vars, store, tick, policy, partition, env
  <2>2. TypeOK'
    BY <2>1 DEF TypeOK
  <2> QED
    BY <2>1, <2>2 DEF Reading, Allocated, NoJobTwice, Partitioned, PartitionFits, StagnationEscaped
<1> QED
  BY <1>1, <1>2, <1>3, <1>4, <1>5, <1>6, <1>7

\* One decision, in the terms the invariants speak of.
LEMMA DecideEffect ==
    ASSUME TypeOK, Reading, StagnationEscaped, NEW j \in Jobs, Decide(j)
    PROVE  /\ j \in running \cup paused /\ state[j] \in {"RUNNING", "PAUSED"}
           /\ \E reading \in Readings, d \in [gpus : Widths, pause : BOOLEAN],
              t \in Widths, failed \in {0, 1} :
                \E o \in Repartitions(j, t) :
                   /\ d.pause \in BOOLEAN /\ t = Target(j, d.gpus)
                   /\ PolicyCalled(reading)
                   /\ part' = [part EXCEPT ![j] = o.part]
                   /\ best' = [best EXCEPT ![j] = o.best]
                   /\ calls' = [calls EXCEPT ![j] = o.calls]
                   /\ faults' = faults + o.fails + failed /\ faults' <= MaxFaults
                   /\ Scaled(j, PoolTarget(d, t), failed)
                   /\ events' = [events EXCEPT ![j] = IF EventOf(j, d, t) # 0 THEN EventOf(j, d, t) ELSE @]
                   /\ world' = [world EXCEPT ![j] = WorldAfter(j, d, t)]
                   /\ gpus' = [gpus EXCEPT ![j] = t]
                   /\ state' = [state EXCEPT ![j] = IF d.pause THEN "PAUSED" ELSE "RUNNING"]
<1>1. j \in NextJob
  BY DEF Decide
<1>2. j \in running \cup paused /\ state[j] \in {"RUNNING", "PAUSED"}
  BY <1>1, NextJobScheduled
<1>3. PICK reading \in Readings : \E d \in Decisions(Current(j), reading, above, below) :
        LET t == Target(j, d.gpus)
        IN /\ ~TooShallow(j, t)
           /\ PolicyCalled(reading)
           /\ \E o \in Repartitions(j, t), failed \in {0, 1} :
                /\ part' = [part EXCEPT ![j] = o.part]
                /\ best' = [best EXCEPT ![j] = o.best]
                /\ calls' = [calls EXCEPT ![j] = o.calls]
                /\ faults' = faults + o.fails + failed
                /\ faults' <= MaxFaults
                /\ Scaled(j, PoolTarget(d, t), failed)
           /\ events' = [events EXCEPT ![j] = IF EventOf(j, d, t) # 0 THEN EventOf(j, d, t) ELSE @]
           /\ world' = [world EXCEPT ![j] = WorldAfter(j, d, t)]
           /\ gpus' = [gpus EXCEPT ![j] = t]
           /\ state' = [state EXCEPT ![j] = IF d.pause THEN "PAUSED" ELSE "RUNNING"]
  BY DEF Decide
<1>a. PICK d \in Decisions(Current(j), reading, above, below) :
        LET t == Target(j, d.gpus)
        IN /\ ~TooShallow(j, t)
           /\ PolicyCalled(reading)
           /\ \E o \in Repartitions(j, t), failed \in {0, 1} :
                /\ part' = [part EXCEPT ![j] = o.part]
                /\ best' = [best EXCEPT ![j] = o.best]
                /\ calls' = [calls EXCEPT ![j] = o.calls]
                /\ faults' = faults + o.fails + failed
                /\ faults' <= MaxFaults
                /\ Scaled(j, PoolTarget(d, t), failed)
           /\ events' = [events EXCEPT ![j] = IF EventOf(j, d, t) # 0 THEN EventOf(j, d, t) ELSE @]
           /\ world' = [world EXCEPT ![j] = WorldAfter(j, d, t)]
           /\ gpus' = [gpus EXCEPT ![j] = t]
           /\ state' = [state EXCEPT ![j] = IF d.pause THEN "PAUSED" ELSE "RUNNING"]
  BY <1>3
<1>4. above \in Nat /\ below \in Nat
  BY PolicyAssumption DEF TypeOK
<1>5. d.gpus \in Widths /\ d.pause \in BOOLEAN
  BY <1>a, <1>4, CurrentType, DecisionType
<1>b. d \in [gpus : Widths, pause : BOOLEAN]
  <2>1. \E g, p : d = [gpus |-> g, pause |-> p]
    BY <1>a, PolicyAssumption DEF Decisions
  <2> QED
    BY <2>1, <1>5
<1>6. Target(j, d.gpus) \in Widths
  BY <1>5, TargetType
<1> DEFINE t == Target(j, d.gpus)
<1>7. PICK o \in Repartitions(j, t), failed \in {0, 1} :
        /\ part' = [part EXCEPT ![j] = o.part]
        /\ best' = [best EXCEPT ![j] = o.best]
        /\ calls' = [calls EXCEPT ![j] = o.calls]
        /\ faults' = faults + o.fails + failed
        /\ faults' <= MaxFaults
        /\ Scaled(j, PoolTarget(d, t), failed)
  BY <1>a
<1>8. /\ PolicyCalled(reading)
      /\ events' = [events EXCEPT ![j] = IF EventOf(j, d, t) # 0 THEN EventOf(j, d, t) ELSE @]
      /\ world' = [world EXCEPT ![j] = WorldAfter(j, d, t)]
      /\ gpus' = [gpus EXCEPT ![j] = t]
      /\ state' = [state EXCEPT ![j] = IF d.pause THEN "PAUSED" ELSE "RUNNING"]
  BY <1>a
<1>9. t \in Widths /\ t = Target(j, d.gpus)
  BY <1>6
<1> HIDE DEF t
<1> QED
  BY <1>2, <1>5, <1>b, <1>7, <1>8, <1>9

LEMMA DecideLoop ==
    ASSUME LoopInv, NEW j \in Jobs, Decide(j) PROVE LoopInv'
<1> USE DEF LoopInv
<1>0. j \in running \cup paused /\ state[j] \in {"RUNNING", "PAUSED"}
  BY DecideEffect
<1>1. PICK reading \in Readings, d \in [gpus : Widths, pause : BOOLEAN],
         t \in Widths, failed \in {0, 1} :
        \E o \in Repartitions(j, t) :
           /\ d.pause \in BOOLEAN /\ t = Target(j, d.gpus)
           /\ PolicyCalled(reading)
           /\ part' = [part EXCEPT ![j] = o.part]
           /\ best' = [best EXCEPT ![j] = o.best]
           /\ calls' = [calls EXCEPT ![j] = o.calls]
           /\ faults' = faults + o.fails + failed /\ faults' <= MaxFaults
           /\ Scaled(j, PoolTarget(d, t), failed)
           /\ events' = [events EXCEPT ![j] = IF EventOf(j, d, t) # 0 THEN EventOf(j, d, t) ELSE @]
           /\ world' = [world EXCEPT ![j] = WorldAfter(j, d, t)]
           /\ gpus' = [gpus EXCEPT ![j] = t]
           /\ state' = [state EXCEPT ![j] = IF d.pause THEN "PAUSED" ELSE "RUNNING"]
  BY DecideEffect
<1>2. PICK o \in Repartitions(j, t) :
           /\ part' = [part EXCEPT ![j] = o.part]
           /\ best' = [best EXCEPT ![j] = o.best]
           /\ calls' = [calls EXCEPT ![j] = o.calls]
           /\ faults' = faults + o.fails + failed /\ faults' <= MaxFaults
  BY <1>1
<1>3. /\ o.part \in Widths \cup {0} /\ o.best \in 0 .. Infinite
      /\ o.fails \in {0, 1}
      /\ o.calls \in Nat /\ o.calls < Patience + faults + o.fails
      /\ o.part # part[j] => o.part = t /\ Repartitioned(j, t)
      /\ Repartitioned(j, t) /\ o.fails = 0 => o.part = t
  BY <1>2, RepartitionType
<1>4. /\ decided' = decided \cup {j} /\ running' = running \ {j}
      /\ paused' = IF j \in running THEN paused ELSE paused \ {j}
      /\ UNCHANGED <<left, due, before, phase, now, clock>>
      /\ phase = "deciding"
  BY DEF Decide
<1>5. /\ t \in Widths /\ t # 0 /\ d.pause \in BOOLEAN
      /\ gpus' = [gpus EXCEPT ![j] = t]
      /\ state' = [state EXCEPT ![j] = IF d.pause THEN "PAUSED" ELSE "RUNNING"]
      /\ faults \in Nat /\ faults' \in 0 .. MaxFaults /\ MaxFaults \in Nat
      /\ Patience \in Nat
      /\ o.calls < Patience + faults' /\ faults <= faults'
      /\ (faults' = 0 => faults = 0 /\ o.fails = 0)
  <2>1. t \in Widths /\ t # 0 /\ d.pause \in BOOLEAN
    BY <1>1, WidthFacts
  <2>2. /\ gpus' = [gpus EXCEPT ![j] = t]
        /\ state' = [state EXCEPT ![j] = IF d.pause THEN "PAUSED" ELSE "RUNNING"]
    BY <1>1
  <2>3. faults \in Nat /\ MaxFaults \in Nat /\ Patience \in Nat
    BY LoopAssumption, RepartitioningAssumption DEF TypeOK
  <2>4. faults' = faults + o.fails + failed /\ faults' <= MaxFaults
    BY <1>2
  <2>5. failed \in {0, 1} /\ o.fails \in {0, 1} /\ o.calls \in Nat
        /\ o.calls < Patience + faults + o.fails
    BY <1>1, <1>3
  <2>6. faults' \in 0 .. MaxFaults /\ faults <= faults'
        /\ (faults' = 0 => faults = 0 /\ o.fails = 0)
    BY <2>3, <2>4, <2>5
  <2>7. o.calls < Patience + faults'
    BY <2>3, <2>4, <2>5
  <2> QED
    BY <2>1, <2>2, <2>3, <2>6, <2>7
<1>6. TypeOK'
  <2>1. above' \in 0 .. Hysteresis - 1 /\ below' \in 0 .. Hysteresis - 1
        /\ hist' \in [1 .. Hysteresis -> SUBSET Readings]
    BY <1>1, PolicyType
  <2>2. replicas' \in [Jobs -> Widths \cup {0}]
    <3>1. PoolTarget(d, t) \in Widths \cup {0}
      BY <1>5 DEF PoolTarget
    <3>2. Scaled(j, PoolTarget(d, t), failed)
      BY <1>1
    <3> QED
      BY <3>1, <3>2 DEF Scaled, TypeOK
  <2>3. EventOf(j, d, t) \in Widths \cup {0} /\ WorldAfter(j, d, t) \in Widths \cup {0}
    BY <1>5 DEF EventOf, WorldAfter, TypeOK
  <2>4. events' \in [Jobs -> Widths \cup {0}] /\ world' \in [Jobs -> Widths \cup {0}]
    BY <1>1, <2>3 DEF TypeOK
  <2>5. calls' \in [Jobs -> 0 .. Patience + MaxFaults]
    <3>1. o.calls \in 0 .. Patience + MaxFaults
      BY <1>3, <1>5
    <3> QED
      BY <3>1, <1>2 DEF TypeOK
  <2>6. part' \in [Jobs -> Widths \cup {0}] /\ best' \in [Jobs -> 0 .. Infinite]
    BY <1>2, <1>3 DEF TypeOK
  <2>7. state' \in [Jobs -> States] /\ gpus' \in [Jobs -> Widths \cup {0}]
    BY <1>5 DEF TypeOK, States
  <2> QED
    BY <2>1, <2>2, <2>4, <2>5, <2>6, <2>7, <1>4, <1>5 DEF TypeOK
<1>7. Reading'
  <2>1. \A i \in Jobs \ {j} : state'[i] = state[i]
    BY <1>5 DEF TypeOK
  <2>2. state'[j] \in {"RUNNING", "PAUSED"}
    BY <1>5 DEF TypeOK
  <2>3. running' \subseteq running \ {j} /\ paused' \subseteq paused \ {j}
    BY <1>4 DEF NoJobTwice
  <2> QED
    BY <2>1, <2>2, <2>3, <1>4 DEF Reading, TypeOK
<1>8. Allocated'
  BY <1>5 DEF Allocated, TypeOK
<1>9. NoJobTwice'
  BY <1>0, <1>4 DEF NoJobTwice
<1>10. StagnationEscaped'
  <2> SUFFICES ASSUME NEW i \in Jobs PROVE calls'[i] < Patience + faults'
    BY DEF StagnationEscaped
  <2>1. calls'[i] = IF i = j THEN o.calls ELSE calls[i]
    BY <1>2 DEF TypeOK
  <2>2. calls[i] \in Nat /\ calls[i] < Patience + faults
    BY LoopAssumption, RepartitioningAssumption DEF StagnationEscaped, TypeOK
  <2> QED
    BY <2>1, <2>2, <1>5
<1>11. Partitioned'
  BY <1>0, <1>2, <1>3, <1>5 DEF Partitioned, TypeOK, Repartitioned
<1>12. PartitionFits'
  <2> SUFFICES ASSUME faults' = 0, NEW i \in Jobs, part'[i] # 0, gpus'[i] >= 2
               PROVE part'[i] = gpus'[i]
    BY DEF PartitionFits
  <2>1. CASE i # j
    BY <2>1, <1>2, <1>5 DEF PartitionFits, TypeOK
  <2>2. CASE i = j
    <3>1. part'[i] = o.part /\ gpus'[i] = t /\ t >= 2 /\ o.fails = 0 /\ faults = 0
      BY <2>2, <1>2, <1>5 DEF TypeOK
    <3>2. CASE Repartitioned(j, t)
      BY <3>1, <3>2, <1>3
    <3>3. CASE ~Repartitioned(j, t)
      <4>1. o.part = part[j] /\ part[j] # 0
        BY <3>1, <3>3, <1>3
      <4>2. Context[j] # 0
        BY <4>1 DEF Partitioned
      <4>3. t = Current(j) /\ gpus[j] \in Widths
        BY <3>1, <3>3, <4>2, <1>0 DEF Repartitioned, Allocated
      <4>4. t = gpus[j]
        BY <4>3, <3>1, WidthFacts DEF Current, AtLeast
      <4> QED
        BY <4>1, <4>4, <3>1 DEF PartitionFits
    <3> QED
      BY <3>2, <3>3
  <2> QED
    BY <2>1, <2>2
<1> QED
  BY <1>6, <1>7, <1>8, <1>9, <1>10, <1>11, <1>12

\* The tick's bookkeeping is right whatever it raises: types, the two looks
\* at the store, the partitions and the stagnation trackers.
THEOREM LoopInvariance == Spec => []LoopInv
<1>1. LoopInv /\ [Next]_vars => LoopInv'
  BY SubmitLoop, QuietLoop, DecideLoop DEF Next, TickStep
<1> QED
  BY <1>1, InitLoop, PTL DEF Spec

\* No tick decides a job twice.
THEOREM DecidedOnce == Spec => []NoJobTwice
<1>1. LoopInv => NoJobTwice
  BY DEF LoopInv
<1> QED
  BY <1>1, LoopInvariance, PTL

\* A wide job's partition has the depth of its allocation, over pauses and
\* stays at width one, until a repartition is infeasible.
THEOREM PartitionsFit == Spec => []PartitionFits
<1>1. LoopInv => PartitionFits
  BY DEF LoopInv
<1> QED
  BY <1>1, LoopInvariance, PTL

\* The stagnation tracker escapes as soon as its patience is over.
THEOREM TrackersEscape == Spec => []StagnationEscaped
<1>1. LoopInv => StagnationEscaped
  BY DEF LoopInv
<1> QED
  BY <1>1, LoopInvariance, PTL
-----------------------------------------------------------------------------
(* Where a change of width is between the store and the workers, when no   *)
(* tick can raise.                                                         *)

LEMMA NoRaise ==
    ASSUME DeepEnough, LoopInv, NEW j \in Jobs PROVE ~TickRaises(j)
<1> SUFFICES ASSUME TickRaises(j) PROVE FALSE
  OBVIOUS
<1> USE DEF LoopInv
<1>0. PICK reading \in Readings :
        \E d \in Decisions(Current(j), reading, above, below) :
           TooShallow(j, Target(j, d.gpus))
  BY DEF TickRaises
<1>1. PICK d \in Decisions(Current(j), reading, above, below) :
        TooShallow(j, Target(j, d.gpus))
  BY <1>0
<1>2. above \in Nat /\ below \in Nat
  BY PolicyAssumption DEF TypeOK
<1>3. Target(j, d.gpus) \in Widths
  BY <1>1, <1>2, CurrentType, DecisionType, TargetType
<1>4. Target(j, d.gpus) <= AtLeast(MaxGpus, CurveGpus) /\ Target(j, d.gpus) \in Nat
  BY <1>3, WidthFacts DEF Widths
<1>5. AtLeast(MaxGpus, CurveGpus) \in Nat /\ Context[j] \in Nat
  BY WidthFacts, LoopAssumption
<1>6. Context[j] # 0 /\ Context[j] < Target(j, d.gpus)
  BY <1>1 DEF TooShallow, Repartitioned
<1> QED
  BY <1>4, <1>5, <1>6 DEF DeepEnough

LEMMA DecideDelivers ==
    ASSUME IInv, NEW j \in Jobs, Decide(j) PROVE Delivered'
<1> USE DEF IInv, LoopInv
<1>0. j \in running \cup paused /\ state[j] \in {"RUNNING", "PAUSED"}
  BY DecideEffect
<1>1. PICK reading \in Readings, d \in [gpus : Widths, pause : BOOLEAN],
         t \in Widths, failed \in {0, 1} :
           /\ d.pause \in BOOLEAN
           /\ events' = [events EXCEPT ![j] = IF EventOf(j, d, t) # 0 THEN EventOf(j, d, t) ELSE @]
           /\ world' = [world EXCEPT ![j] = WorldAfter(j, d, t)]
           /\ gpus' = [gpus EXCEPT ![j] = t]
           /\ state' = [state EXCEPT ![j] = IF d.pause THEN "PAUSED" ELSE "RUNNING"]
  BY DecideEffect
<1>2. decided' = decided \cup {j} /\ t # 0
  BY WidthFacts DEF Decide
<1>3. events[j] = 0
  BY <1>0 DEF NoJobTwice, Delivered
<1>4. \A i \in Jobs \ {j} :
        /\ events'[i] = events[i] /\ world'[i] = world[i]
        /\ gpus'[i] = gpus[i] /\ state'[i] = state[i]
  BY <1>1 DEF TypeOK
<1>5. /\ events'[j] = EventOf(j, d, t) /\ world'[j] = WorldAfter(j, d, t)
      /\ gpus'[j] = t /\ state'[j] = IF d.pause THEN "PAUSED" ELSE "RUNNING"
  BY <1>1, <1>3 DEF TypeOK
<1>6. state[j] = "RUNNING" => world[j] = gpus[j] /\ gpus[j] = Current(j)
  <2> SUFFICES ASSUME state[j] = "RUNNING" PROVE world[j] = gpus[j] /\ gpus[j] = Current(j)
    OBVIOUS
  <2>1. gpus[j] \in Widths
    BY DEF Allocated
  <2>2. gpus[j] \in Nat /\ gpus[j] >= 1
    BY <2>1, WidthFacts DEF Widths
  <2>3. gpus[j] = Current(j)
    BY <2>2 DEF Current, AtLeast
  <2>4. world[j] = gpus[j] \/ events[j] = gpus[j]
    BY DEF Delivered
  <2> QED
    BY <2>2, <2>3, <2>4, <1>3
<1>7. /\ events'[j] # 0 => state'[j] = "RUNNING" /\ events'[j] = gpus'[j]
      /\ state'[j] = "RUNNING" => world'[j] = gpus'[j] \/ events'[j] = gpus'[j]
      /\ state'[j] = "PAUSED" => world'[j] = 0
  <2>1. CASE d.pause
    BY <2>1, <1>5 DEF EventOf, WorldAfter
  <2>2. CASE ~d.pause /\ state[j] = "PAUSED"
    BY <2>2, <1>5 DEF EventOf, WorldAfter
  <2>3. CASE ~d.pause /\ state[j] = "RUNNING"
    BY <2>3, <1>5, <1>6, <1>2 DEF EventOf, WorldAfter
  <2> QED
    BY <2>1, <2>2, <2>3, <1>0
<1> QED
  BY <1>2, <1>4, <1>7 DEF Delivered

LEMMA StepDelivers ==
    ASSUME DeepEnough, IInv, [Next]_vars PROVE Delivered'
<1> USE DEF IInv, LoopInv
<1>1. ASSUME NEW j \in Jobs, Submit(j) PROVE Delivered'
  <2>1. PICK share :
          /\ state' = [state EXCEPT ![j] = IF share = 0 THEN "DROPPED" ELSE "RUNNING"]
          /\ gpus' = [gpus EXCEPT ![j] = share]
          /\ world' = [world EXCEPT ![j] = share]
    BY <1>1 DEF Submit
  <2>2. state[j] = "absent" /\ UNCHANGED <<decided, events>>
    BY <1>1 DEF Submit, tick
  <2> QED
    BY <2>1, <2>2 DEF Delivered, TypeOK
<1>2. CASE TickStart
  <2>1. UNCHANGED <<state, gpus, world>> /\ events' = Zero /\ events = Zero
    BY <1>2 DEF TickStart, store, Reading
  <2> QED
    BY <2>1 DEF Delivered, Zero
<1>3. CASE TickReturn
  <2>1. /\ UNCHANGED <<state, gpus>> /\ events' = Zero
        /\ world' = [j \in Jobs |-> IF events[j] # 0 THEN events[j] ELSE world[j]]
    BY <1>3 DEF TickReturn, store
  <2> QED
    BY <2>1 DEF Delivered, Zero
<1>4. ASSUME NEW j \in Jobs, Decide(j) PROVE Delivered'
  BY <1>4, DecideDelivers
<1>5. ASSUME NEW j \in Jobs, TickRaises(j) PROVE Delivered'
  BY <1>5, NoRaise
<1>6. CASE \/ \E j \in Jobs : Progress(j)
           \/ Elapse \/ ReadPaused \/ UNCHANGED vars
  <2>1. UNCHANGED <<state, gpus, world, events, decided>>
    BY <1>6 DEF Progress, Elapse, ReadPaused, vars, store, tick
  <2> QED
    BY <2>1 DEF Delivered
<1> QED
  BY <1>1, <1>2, <1>3, <1>4, <1>5, <1>6 DEF Next, TickStep

\* When every job with a context has a layer per stage, the loop's whole
\* inductive invariant holds.
THEOREM DeliveryInvariance == ASSUME DeepEnough PROVE Spec => []IInv
<1>1. Init => IInv
  <2>1. Init => Delivered
    BY DEF Init, Delivered, Zero
  <2> QED
    BY <2>1, InitLoop DEF IInv
<1>2. IInv /\ [Next]_vars => IInv'
  BY SubmitLoop, QuietLoop, DecideLoop, StepDelivers DEF IInv, Next, TickStep
<1> QED
  BY <1>1, <1>2, PTL DEF Spec

\* Then the workers of every job form the world the store says, between any
\* two ticks, whatever the policy decides and whenever jobs are submitted.
THEOREM WorkersAlwaysFollow == ASSUME DeepEnough PROVE Spec => []WorkersFollow
<1>1. IInv => WorkersFollow
  <2> SUFFICES ASSUME IInv, phase = "idle", NEW j \in Jobs
               PROVE /\ state[j] = "RUNNING" => world[j] = gpus[j]
                     /\ state[j] = "PAUSED" => world[j] = 0
    BY DEF WorkersFollow
  <2>1. events[j] = 0
    BY DEF IInv, LoopInv, Reading, Zero
  <2>2. state[j] = "RUNNING" => gpus[j] # 0
    BY WidthFacts DEF IInv, LoopInv, Allocated
  <2> QED
    BY <2>1, <2>2 DEF IInv, Delivered
<1> QED
  BY <1>1, DeliveryInvariance, PTL
-----------------------------------------------------------------------------
(* The deadline floor, when no tick can raise.                             *)

\* The minimum satisfactory share is one that meets the deadline, and the
\* smallest of them.
LEMMA MSSLeast ==
    ASSUME NEW i \in Nat, NEW d \in Nat, MSS(Curve, i, d) # 0
    PROVE  /\ i > 0 /\ d > 0 /\ MSS(Curve, i, d) \in Shares
           /\ IsShare(Curve, MSS(Curve, i, d), i, d)
<1>1. i > 0 /\ d > 0 /\ \E s \in Shares : Meets(Curve, s, i, d)
  BY DEF MSS
<1> DEFINE Meeting == {s \in Shares : Meets(Curve, s, i, d)}
<1>2. Meeting \subseteq Nat /\ Meeting # {}
  BY <1>1 DEF Shares
<1>3. \E s \in Meeting : \A r \in Meeting : s <= r
  <2> HIDE DEF Meeting
  <2> QED
    BY <1>2, Smallest
<1>4. \E s \in Shares : IsShare(Curve, s, i, d)
  BY <1>3 DEF IsShare
<1>5. MSS(Curve, i, d) = CHOOSE s \in Shares : IsShare(Curve, s, i, d)
  BY <1>1 DEF MSS
<1> QED
  BY <1>1, <1>4, <1>5

\* A finished iteration never raises the floor.
LEMMA FloorFalls ==
    ASSUME NEW i \in Nat, i > 0, NEW d \in Nat
    PROVE  Floor(Curve, i - 1, d) <= Floor(Curve, i, d)
<1> DEFINE less == i - 1
<1>1. less \in Nat /\ less < i
  OBVIOUS
<1>2. /\ Floor(Curve, i, d) \in Widths /\ Floor(Curve, less, d) \in Widths
      /\ MSS(Curve, i, d) \in Shares \cup {0} /\ MSS(Curve, less, d) \in Shares \cup {0}
  BY <1>1, FloorType, MSSType
<1> HIDE DEF less
<1>3. CASE less = 0
  <2>1. Floor(Curve, less, d) = 1
    BY <1>3 DEF Floor
  <2>2. Floor(Curve, i, d) \in Nat \ {0}
    BY <1>2, WidthFacts
  <2>3. 1 <= Floor(Curve, i, d)
    BY <2>2
  <2> QED
    BY <2>1, <2>3 DEF less
<1>4. CASE less # 0 /\ MSS(Curve, i, d) = 0
  <2>1. Floor(Curve, i, d) = CurveGpus
    BY <1>4 DEF Floor
  <2>2. Floor(Curve, less, d) = CurveGpus \/ Floor(Curve, less, d) \in Shares
    BY <1>1, <1>2, <1>4 DEF Floor
  <2> QED
    BY <2>1, <2>2, CurveAssumption DEF Shares, less
<1>5. CASE less # 0 /\ MSS(Curve, i, d) # 0
  <2> DEFINE s == MSS(Curve, i, d)
  <2>1. d > 0 /\ s \in Shares /\ Meets(Curve, s, i, d)
    BY <1>5, MSSLeast DEF IsShare
  <2>2. Meets(Curve, s, less, d)
    <3> DEFINE done == Curve[s] * d
    <3>1. Curve[s] \in Nat
      BY <2>1, LoopAssumption, CurveAssumption DEF Curves
    <3>2. done \in Nat /\ done >= i
      BY <3>1, <2>1 DEF Meets
    <3>3. done >= less
      <4> HIDE DEF done
      <4> QED
        BY <3>2, <1>1
    <3> QED
      BY <3>3 DEF Meets
  <2>3. MSS(Curve, less, d) # 0
    <3>1. MSS(Curve, less, d) = CHOOSE x \in Shares : IsShare(Curve, x, less, d)
      BY <2>1, <2>2, <1>1, <1>5 DEF MSS
    <3> DEFINE Meeting == {x \in Shares : Meets(Curve, x, less, d)}
    <3>2. Meeting \subseteq Nat /\ Meeting # {}
      BY <2>1, <2>2 DEF Shares
    <3>3. \E x \in Meeting : \A r \in Meeting : x <= r
      <4> HIDE DEF Meeting
      <4> QED
        BY <3>2, Smallest
    <3>4. \E x \in Shares : IsShare(Curve, x, less, d)
      BY <3>3 DEF IsShare
    <3>5. MSS(Curve, less, d) \in Shares
      BY <3>1, <3>4
    <3> QED
      BY <3>5 DEF Shares
  <2>4. MSS(Curve, less, d) <= s
    BY <2>1, <2>2, <2>3, <1>1, MSSLeast DEF IsShare
  <2>5. Floor(Curve, less, d) = MSS(Curve, less, d) /\ Floor(Curve, i, d) = s
    BY <1>1, <1>5, <2>3 DEF Floor
  <2> QED
    BY <2>4, <2>5 DEF less
<1> QED
  BY <1>3, <1>4, <1>5

LEMMA WidthNat == \A g \in Widths \cup {0} : g \in Nat
  BY WidthFacts

LEMMA StillHeld ==
    ASSUME NEW i \in Nat, i > 0, NEW d \in Nat, NEW g \in Nat, g >= Floor(Curve, i, d)
    PROVE  g >= Floor(Curve, i - 1, d)
<1> DEFINE low == Floor(Curve, i - 1, d)
           high == Floor(Curve, i, d)
<1>1. low <= high
  BY FloorFalls
<1>2. low \in Widths /\ high \in Widths
  BY FloorType
<1>3. low \in Nat /\ high \in Nat /\ g >= high
  BY <1>2, WidthFacts
<1> HIDE DEF low, high
<1>4. g >= low
  BY <1>1, <1>3
<1> QED
  BY <1>4 DEF low

\* The width a decision writes is at least the floor at the tick's now.
LEMMA TargetHeld ==
    ASSUME TypeOK, NEW j \in Selected, NEW g \in Widths
    PROVE  Target(j, g) >= Floor(Curve, left[j], AtLeast(due[j] - now, 0))
<1>1. j \in Jobs /\ left[j] \in Nat /\ due[j] \in Nat /\ now \in Nat
  BY LoopAssumption DEF TypeOK
<1>2. AtLeast(due[j] - now, 0) = Remaining(j) /\ Remaining(j) \in Nat
  BY <1>1 DEF AtLeast, Remaining
<1>3. DeadlineFloor(j) \in Widths
  BY <1>1, <1>2, FloorType DEF DeadlineFloor
<1>4. DeadlineFloor(j) \in Nat /\ g \in Nat
  BY <1>3, WidthFacts
<1>5. Target(j, g) >= DeadlineFloor(j)
  BY <1>4 DEF Target, AtLeast
<1> QED
  BY <1>5, <1>2 DEF DeadlineFloor

LEMMA SubmitFloored ==
    ASSUME LoopInv, Floored, NEW j \in Jobs, Submit(j) PROVE Floored'
<1> USE DEF LoopInv
<1>1. PICK deadline \in Deadlines :
        LET share == MSS(Curve, Iterations, deadline)
        IN /\ state' = [state EXCEPT ![j] = IF share = 0 THEN "DROPPED" ELSE "RUNNING"]
           /\ gpus' = [gpus EXCEPT ![j] = share]
           /\ left' = [left EXCEPT ![j] = Iterations]
           /\ due' = [due EXCEPT ![j] = clock + deadline]
  BY DEF Submit
<1>2. UNCHANGED <<phase, now, running, paused, clock>> /\ state[j] = "absent"
  BY DEF Submit, tick, env
<1> SUFFICES ASSUME clock = now, NEW i \in Selected, state'[i] \in {"RUNNING", "PAUSED"}
             PROVE  Held(i)' \/ Awaited(i)'
  BY <1>2 DEF Floored
<1>3. i \in Jobs
  BY LoopAssumption
<1>4. CASE i # j
  BY <1>1, <1>2, <1>3, <1>4 DEF Floored, Held, Awaited, TypeOK
<1>5. CASE i = j
  <2> DEFINE share == MSS(Curve, Iterations, deadline)
  <2>1. /\ share # 0 /\ gpus'[i] = share /\ left'[i] = Iterations
        /\ due'[i] = clock + deadline /\ clock' = clock
    BY <1>1, <1>2, <1>3, <1>5 DEF TypeOK
  <2>2. Iterations \in Nat /\ deadline \in Nat /\ clock \in Nat
    BY LoopAssumption DEF TypeOK
  <2>3. AtLeast(due'[i] - clock', 0) = deadline
    BY <2>1, <2>2 DEF AtLeast
  <2>4. share \in Shares /\ Iterations > 0
    BY <2>1, <2>2, MSSLeast
  <2>5. Floor(Curve, Iterations, deadline) = share
    BY <2>1, <2>2, <2>4 DEF Floor
  <2>6. share >= share
    BY <2>4 DEF Shares
  <2> HIDE DEF share
  <2> QED
    BY <2>1, <2>3, <2>5, <2>6 DEF Held
<1> QED
  BY <1>4, <1>5

LEMMA DecideFloored ==
    ASSUME LoopInv, Floored, NEW j \in Jobs, Decide(j) PROVE Floored'
<1> USE DEF LoopInv
<1>1. PICK d \in [gpus : Widths, pause : BOOLEAN], t \in Widths :
        /\ t = Target(j, d.gpus)
        /\ gpus' = [gpus EXCEPT ![j] = t]
        /\ state' = [state EXCEPT ![j] = IF d.pause THEN "PAUSED" ELSE "RUNNING"]
  BY DecideEffect
<1>2. /\ running' = running \ {j}
      /\ paused' = IF j \in running THEN paused ELSE paused \ {j}
      /\ UNCHANGED <<left, due, phase, now, clock>> /\ phase = "deciding"
  BY DEF Decide
<1> SUFFICES ASSUME clock = now, NEW i \in Selected, state'[i] \in {"RUNNING", "PAUSED"}
             PROVE  Held(i)' \/ Awaited(i)'
  BY <1>2 DEF Floored
<1>3. i \in Jobs
  BY LoopAssumption
<1>4. CASE i # j
  <2>1. gpus'[i] = gpus[i] /\ state'[i] = state[i]
    BY <1>1, <1>3, <1>4 DEF TypeOK
  <2> QED
    BY <2>1, <1>2, <1>4 DEF Floored, Held, Awaited
<1>5. CASE i = j
  <2>1. gpus'[i] = t /\ d.gpus \in Widths
    BY <1>1, <1>5 DEF TypeOK
  <2>2. t >= Floor(Curve, left[i], AtLeast(due[i] - now, 0))
    BY <1>1, <1>5, <2>1, TargetHeld
  <2> QED
    BY <2>1, <2>2, <1>2 DEF Held
<1> QED
  BY <1>4, <1>5

LEMMA StepFloored ==
    ASSUME DeepEnough, LoopInv, Floored, [Next]_vars PROVE Floored'
<1> USE DEF LoopInv
<1>0. now \in Nat /\ clock \in Nat
  BY LoopAssumption DEF TypeOK
<1>1. ASSUME NEW j \in Jobs, Submit(j) PROVE Floored'
  BY <1>1, SubmitFloored
<1>2. ASSUME NEW j \in Jobs, Progress(j) PROVE Floored'
  <2>1. /\ UNCHANGED <<state, gpus, due, phase, running, paused, now, clock>>
        /\ left' = [left EXCEPT ![j] = @ - 1] /\ left[j] > 0
    BY <1>2 DEF Progress, tick, env
  <2> SUFFICES ASSUME clock = now, NEW i \in Selected, state[i] \in {"RUNNING", "PAUSED"},
                      ~Awaited(i)
               PROVE  Held(i)'
    BY <2>1, SMTT(30) DEF Floored, Awaited
  <2> DEFINE rest == AtLeast(due[i] - clock, 0)
  <2>2. /\ i \in Jobs /\ left[i] \in Nat /\ rest \in Nat
        /\ left'[i] = IF i = j THEN left[i] - 1 ELSE left[i]
    BY <2>1, <1>0, LoopAssumption, SMTT(30) DEF TypeOK, AtLeast
  <2>3. gpus[i] >= Floor(Curve, left[i], rest)
    BY DEF Floored, Held
  <2>4. gpus'[i] = gpus[i] /\ AtLeast(due'[i] - clock', 0) = rest
    BY <2>1
  <2>5. CASE i = j
    <3>1. left[i] > 0 /\ left[i] - 1 \in Nat
      BY <2>1, <2>2, <2>5
    <3>2. gpus[i] \in Widths \cup {0}
      BY <2>2 DEF TypeOK
    <3>3. gpus[i] \in Nat
      BY <3>2, WidthNat, Zenon
    <3>4. gpus[i] >= Floor(Curve, left[i] - 1, rest)
      <4> HIDE DEF rest
      <4> QED
        BY <2>2, <2>3, <3>1, <3>3, StillHeld
    <3> QED
      BY <3>4, <2>2, <2>4, <2>5 DEF Held
  <2>6. CASE i # j
    BY <2>2, <2>3, <2>4, <2>6 DEF Held
  <2> QED
    BY <2>5, <2>6
<1>3. CASE Elapse
  BY <1>0, <1>3 DEF Elapse, tick, Floored
<1>4. CASE TickStart
  <2>1. /\ phase' = "reading" /\ now' = clock /\ running' = InState("RUNNING")
        /\ UNCHANGED <<state, clock>>
    BY <1>4 DEF TickStart, store, env
  <2>2. \A i \in Selected : state'[i] \in {"RUNNING", "PAUSED"} => Awaited(i)'
    BY <2>1, LoopAssumption DEF Awaited, InState
  <2> QED
    BY <2>1, <2>2, <1>0 DEF Floored
<1>5. CASE ReadPaused
  <2>1. /\ phase = "reading" /\ phase' = "deciding" /\ paused' = InState("PAUSED")
        /\ UNCHANGED <<state, gpus, left, due, now, running, clock>>
    BY <1>5 DEF ReadPaused, store, env
  <2>2. \A i \in Selected : (Held(i) => Held(i)') /\ (Awaited(i) => Awaited(i)')
    BY <2>1, LoopAssumption DEF Awaited, Held, InState
  <2> QED
    BY <2>1, <2>2 DEF Floored
<1>6. CASE TickReturn
  <2>1. /\ phase = "deciding" /\ running = {} /\ paused = {}
        /\ UNCHANGED <<state, gpus, left, due, now, clock>>
    BY <1>6 DEF TickReturn, store, env
  <2>2. \A i \in Selected : (Held(i) => Held(i)') /\ ~Awaited(i)
    BY <2>1 DEF Awaited, Held
  <2> QED
    BY <2>1, <2>2 DEF Floored
<1>7. ASSUME NEW j \in Jobs, Decide(j) PROVE Floored'
  BY <1>7, DecideFloored
<1>8. ASSUME NEW j \in Jobs, TickRaises(j) PROVE Floored'
  BY <1>8, NoRaise
<1>9. CASE UNCHANGED vars
  <2>1. UNCHANGED <<state, gpus, left, due, phase, running, paused, now, clock>>
    BY <1>9 DEF vars, store, tick, env
  <2> QED
    BY <2>1 DEF Floored, Held, Awaited
<1> QED
  BY <1>1, <1>2, <1>3, <1>4, <1>5, <1>6, <1>7, <1>8, <1>9 DEF Next, TickStep

\* When every job with a context has a layer per stage, a tick leaves every
\* scheduled job with a selector at its deadline floor, whatever the policy
\* asks for and whoever submits or progresses meanwhile.
THEOREM FloorAlwaysHeld == ASSUME DeepEnough PROVE Spec => []FloorHeld
<1>1. Init => LoopInv /\ Floored
  <2>1. Init => Floored
    BY LoopAssumption DEF Init, Floored
  <2> QED
    BY <2>1, InitLoop
<1>2. LoopInv /\ Floored /\ [Next]_vars => LoopInv' /\ Floored'
  BY SubmitLoop, QuietLoop, DecideLoop, StepFloored DEF Next, TickStep
<1>3. Floored => FloorHeld
  BY DEF Floored, FloorHeld, Held, Awaited
<1> QED
  BY <1>1, <1>2, <1>3, PTL DEF Spec
-----------------------------------------------------------------------------
(* The hysteresis of the power policy, in a loop of one job.               *)

\* The job of a decision is the loop's one job, and it was not yet decided.
LEMMA FirstDecision ==
    ASSUME OneJob, LoopInv, Counting, NEW j \in Jobs, phase = "deciding", j \in NextJob
    PROVE  Jobs = {j} /\ decided = {} /\ state[j] = "RUNNING" /\ hist[Hysteresis] = {}
<1>1. Jobs = {j}
  BY DEF OneJob
<1>2. j \in running \cup paused /\ state[j] \in {"RUNNING", "PAUSED"}
  BY NextJobScheduled DEF LoopInv
<1>3. decided \subseteq Jobs /\ decided \cap (running \cup paused) = {}
  BY DEF LoopInv, TypeOK, NoJobTwice
<1>4. decided = {}
  BY <1>1, <1>2, <1>3
<1> QED
  BY <1>1, <1>2, <1>4 DEF Counting

\* The counter of a side after a reading counts the ticks that ended with it.
LEMMA CountedSeen ==
    ASSUME LoopInv, NEW reading \in Readings, PolicyCalled(reading), hist[Hysteresis] = {},
           NEW side, NEW n \in 0 .. Hysteresis - 1,
           \A k \in Hysteresis - n .. Hysteresis - 1 : hist[k] = {side}
    PROVE  \A k \in Hysteresis - Counted(reading, side, n) + 1 .. Hysteresis : hist'[k] = {side}
<1>1. /\ Hysteresis \in Nat \ {0} /\ hist \in [1 .. Hysteresis -> SUBSET Readings]
      /\ hist' = [hist EXCEPT ![Hysteresis] = @ \cup {reading}]
  BY PolicyAssumption DEF LoopInv, TypeOK, PolicyCalled
<1>2. /\ hist'[Hysteresis] = {reading}
      /\ \A k \in 1 .. Hysteresis - 1 : hist'[k] = hist[k]
  BY <1>1
<1>3. CASE Counted(reading, side, n) = 0
  BY <1>1, <1>3
<1>4. CASE Counted(reading, side, n) # 0
  <2>1. reading = side /\ Counted(reading, side, n) = n + 1
    BY <1>4 DEF Counted
  <2> SUFFICES ASSUME NEW k \in Hysteresis - n .. Hysteresis PROVE hist'[k] = {side}
    BY <2>1, <1>1
  <2>2. CASE k = Hysteresis
    BY <2>1, <2>2, <1>2
  <2>3. CASE k # Hysteresis
    <3>1. k \in Hysteresis - n .. Hysteresis - 1 /\ k \in 1 .. Hysteresis - 1
      BY <2>3, <1>1
    <3> QED
      BY <3>1, <1>2
  <2> QED
    BY <2>2, <2>3
<1> QED
  BY <1>3, <1>4

\* What a call of the policy leaves of the counters and of the history.
LEMMA CalledSeen ==
    ASSUME LoopInv, Counting, NEW reading \in Readings, PolicyCalled(reading),
           phase = "deciding", decided = {}
    PROVE  /\ \A k \in Hysteresis - above' + 1 .. Hysteresis : hist'[k] = {"above"}
           /\ \A k \in Hysteresis - below' + 1 .. Hysteresis : hist'[k] = {"below"}
<1>1. /\ above \in 0 .. Hysteresis - 1 /\ below \in 0 .. Hysteresis - 1
      /\ hist[Hysteresis] = {}
  BY DEF LoopInv, TypeOK, Counting
<1>2. /\ \A k \in Hysteresis - above .. Hysteresis - 1 : hist[k] = {"above"}
      /\ \A k \in Hysteresis - below .. Hysteresis - 1 : hist[k] = {"below"}
  BY DEF Counting, Seen
<1>3. /\ above' = Counted(reading, "above", above)
      /\ below' = Counted(reading, "below", below)
  BY DEF PolicyCalled
<1> QED
  BY <1>1, <1>2, <1>3, CountedSeen

LEMMA DecideCounts ==
    ASSUME OneJob, LoopInv, Counting, NEW j \in Jobs, Decide(j) PROVE Counting'
<1>1. phase = "deciding" /\ j \in NextJob /\ phase' = "deciding" /\ decided' = decided \cup {j}
  BY DEF Decide
<1>2. Jobs = {j} /\ decided = {}
  BY <1>1, FirstDecision
<1>3. PICK reading \in Readings :
        \E d \in Decisions(Current(j), reading, above, below) :
          PolicyCalled(reading) /\ state' = [state EXCEPT ![j] = IF d.pause THEN "PAUSED" ELSE "RUNNING"]
  BY DEF Decide
<1>4. state'[j] = "RUNNING"
  BY <1>3 DEF OneJob, Decisions, LoopInv, TypeOK
<1>5. Seen("above", above)' /\ Seen("below", below)'
  BY <1>1, <1>2, <1>3, CalledSeen DEF Seen
<1> QED
  BY <1>1, <1>2, <1>4, <1>5 DEF Counting

LEMMA RaiseCounts ==
    ASSUME OneJob, LoopInv, Counting, NEW j \in Jobs, TickRaises(j) PROVE Counting'
<1>1. phase = "deciding" /\ j \in NextJob /\ phase' = "idle" /\ state' = state
  BY DEF TickRaises, store
<1>2. Jobs = {j} /\ decided = {} /\ state[j] = "RUNNING"
  BY <1>1, FirstDecision
<1>3. PICK reading \in Readings : PolicyCalled(reading)
  BY DEF TickRaises
<1>4. Seen("above", above)' /\ Seen("below", below)'
  BY <1>1, <1>2, <1>3, CalledSeen DEF Seen
<1> QED
  BY <1>1, <1>2, <1>4 DEF Counting

LEMMA StepCounts ==
    ASSUME OneJob, LoopInv, Counting, [Next]_vars PROVE Counting'
<1>0. /\ Hysteresis \in Nat \ {0} /\ hist \in [1 .. Hysteresis -> SUBSET Readings]
      /\ above \in 0 .. Hysteresis - 1 /\ below \in 0 .. Hysteresis - 1
  BY PolicyAssumption DEF LoopInv, TypeOK
<1>1. ASSUME NEW j \in Jobs, Submit(j) PROVE Counting'
  <2>1. /\ UNCHANGED <<phase, decided, running, above, below, hist>>
        /\ state[j] = "absent"
    BY <1>1 DEF Submit, tick, policy
  <2>2. \E s \in {"RUNNING", "DROPPED"} : state' = [state EXCEPT ![j] = s]
    BY <1>1 DEF Submit
  <2>3. above + below = 0
    BY <2>1, <1>0 DEF Counting
  <2>4. Seen("above", above)' /\ Seen("below", below)'
    BY <2>1 DEF Counting, Seen
  <2>5. \A i \in Jobs : state'[i] # "PAUSED"
    BY <2>2 DEF Counting, LoopInv, TypeOK
  <2>6. ~(above' + below' > 0)
    BY <2>1, <2>3
  <2> QED
    BY <2>1, <2>4, <2>5, <2>6 DEF Counting
<1>2. CASE TickStart
  <2>1. /\ phase = "idle" /\ phase' = "reading" /\ decided' = {}
        /\ running' = InState("RUNNING") /\ UNCHANGED <<state, above, below>>
        /\ hist' = [k \in 1 .. Hysteresis |-> IF k = Hysteresis THEN {} ELSE hist[k + 1]]
    BY <1>2 DEF TickStart, store
  <2>2. hist'[Hysteresis] = {}
    BY <2>1, <1>0
  <2>3. ASSUME NEW side, NEW n \in 0 .. Hysteresis - 1,
               \A k \in Hysteresis - n + 1 .. Hysteresis : hist[k] = {side}
        PROVE  \A k \in Hysteresis - n .. Hysteresis - 1 : hist'[k] = {side}
    <3> SUFFICES ASSUME NEW k \in Hysteresis - n .. Hysteresis - 1 PROVE hist'[k] = {side}
      OBVIOUS
    <3>1. /\ k \in 1 .. Hysteresis /\ k # Hysteresis
          /\ k + 1 \in Hysteresis - n + 1 .. Hysteresis
      BY <1>0
    <3> QED
      BY <3>1, <2>1, <2>3
  <2>4. Seen("above", above)' /\ Seen("below", below)'
    BY <2>1, <2>3, <1>0 DEF Counting, Seen
  <2>5. \A j \in Jobs : state[j] = "RUNNING" => j \in running'
    BY <2>1 DEF InState
  <2> QED
    BY <2>1, <2>2, <2>4, <2>5 DEF Counting
<1>3. CASE TickReturn
  <2>1. /\ phase = "deciding" /\ running = {} /\ phase' = "idle"
        /\ UNCHANGED <<state, decided, above, below, hist>>
    BY <1>3 DEF TickReturn, store, policy
  <2>2. CASE decided = {}
    <3>1. ~(above + below > 0)
      BY <2>1, <2>2 DEF Counting, OneJob
    <3>2. above = 0 /\ below = 0
      BY <3>1, <1>0
    <3>3. Seen("above", above)' /\ Seen("below", below)'
      BY <3>2, <2>1, <1>0 DEF Seen
    <3> QED
      BY <2>1, <3>3 DEF Counting
  <2>3. CASE decided # {}
    BY <2>1, <2>3 DEF Counting, Seen
  <2> QED
    BY <2>2, <2>3
<1>4. ASSUME NEW j \in Jobs, Decide(j) PROVE Counting'
  BY <1>4, DecideCounts
<1>5. ASSUME NEW j \in Jobs, TickRaises(j) PROVE Counting'
  BY <1>5, RaiseCounts
<1>6. CASE ReadPaused
  <2>1. /\ phase = "reading" /\ phase' = "deciding"
        /\ UNCHANGED <<state, running, decided, above, below, hist>>
    BY <1>6 DEF ReadPaused, store, policy
  <2> QED
    BY <2>1 DEF Counting, Seen
<1>7. CASE (\E j \in Jobs : Progress(j)) \/ Elapse \/ UNCHANGED vars
  <2>1. UNCHANGED <<state, phase, running, decided, above, below, hist>>
    BY <1>7 DEF Progress, Elapse, vars, store, tick, policy
  <2> QED
    BY <2>1 DEF Counting, Seen
<1> QED
  BY <1>1, <1>2, <1>3, <1>4, <1>5, <1>6, <1>7 DEF Next, TickStep

\* The decision that changes a width.
LEMMA ChangeSeen ==
    ASSUME OneJob, LoopInv, Counting, NEW j \in Jobs, Decide(j), gpus'[j] # gpus[j]
    PROVE  \/ hist'[Hysteresis] = {"gate"}
           \/ \E side \in {"above", "below"} :
                 \A k \in 1 .. Hysteresis : hist'[k] = {side}
<1>1. phase = "deciding" /\ j \in NextJob
  BY DEF Decide
<1>2. decided = {} /\ state[j] = "RUNNING" /\ hist[Hysteresis] = {}
  BY <1>1, FirstDecision
<1>3. PICK reading \in Readings :
        \E d \in Decisions(Current(j), reading, above, below) :
          PolicyCalled(reading) /\ gpus' = [gpus EXCEPT ![j] = Target(j, d.gpus)]
  BY DEF Decide
<1>4. PICK d \in Decisions(Current(j), reading, above, below) :
        gpus' = [gpus EXCEPT ![j] = Target(j, d.gpus)]
  BY <1>3
<1>5. /\ Hysteresis \in Nat \ {0} /\ hist \in [1 .. Hysteresis -> SUBSET Readings]
      /\ above \in 0 .. Hysteresis - 1 /\ below \in 0 .. Hysteresis - 1
  BY PolicyAssumption DEF LoopInv, TypeOK
<1>6. gpus[j] \in Widths /\ Current(j) = gpus[j]
  <2>1. gpus[j] \in Widths
    BY <1>2 DEF LoopInv, Allocated
  <2>2. gpus[j] \in Nat /\ gpus[j] >= 1
    BY <2>1, WidthFacts DEF Widths
  <2>3. Current(j) = gpus[j]
    BY <2>2 DEF Current, AtLeast
  <2> QED
    BY <2>1, <2>3
<1>7. d.gpus \in Widths
  BY <1>4, <1>5, <1>6, DecisionType
<1>8. Target(j, d.gpus) = d.gpus
  <2>1. d.gpus \in Nat /\ d.gpus >= 1
    BY <1>7, WidthFacts DEF Widths
  <2>2. AtLeast(1, d.gpus) = d.gpus
    BY <2>1 DEF AtLeast
  <2> QED
    BY <2>2 DEF Target, OneJob
<1>9. PowerTarget(gpus[j], reading, above, below) # gpus[j]
  BY <1>4, <1>6, <1>8 DEF Decisions, OneJob, LoopInv, TypeOK
<1>10. /\ hist'[Hysteresis] = {reading}
       /\ \A k \in 1 .. Hysteresis - 1 : hist'[k] = hist[k]
  BY <1>2, <1>3, <1>5 DEF PolicyCalled
<1>11. ASSUME NEW side, NEW n \in 0 .. Hysteresis - 1, Seen(side, n), Fires(n), reading = side
       PROVE  \A k \in 1 .. Hysteresis : hist'[k] = {side}
  <2>1. n = Hysteresis - 1
    BY <1>5, <1>11 DEF Fires
  <2>2. \A k \in 1 .. Hysteresis - 1 : hist[k] = {side}
    BY <2>1, <1>1, <1>2, <1>5, <1>11 DEF Seen
  <2> QED
    BY <2>2, <1>5, <1>10, <1>11
<1>12. CASE reading = "gate"
  BY <1>10, <1>12
<1>13. CASE reading = "above" /\ Fires(above)
  BY <1>5, <1>11, <1>13 DEF Counting
<1>14. CASE reading = "below" /\ Fires(below)
  BY <1>5, <1>11, <1>14 DEF Counting
<1> QED
  BY <1>9, <1>12, <1>13, <1>14 DEF PowerTarget

\* In a loop of one job the power policy changes a width only after as many
\* consecutive ticks on one side as its hysteresis says, or on a dirty grid,
\* also when ticks raise in between.
THEOREM WidthsAfterHysteresis == ASSUME OneJob PROVE Spec => ConsecutiveReadings
<1> DEFINE Step ==
        \A j \in Jobs :
          gpus'[j] # gpus[j] /\ state[j] # "absent" =>
              \/ hist'[Hysteresis] = {"gate"}
              \/ \E side \in {"above", "below"} :
                    \A k \in 1 .. Hysteresis : hist'[k] = {side}
<1>1. Init => LoopInv /\ Counting
  <2>1. Init => Counting
    BY PolicyAssumption DEF Init, Counting, Seen
  <2> QED
    BY <2>1, InitLoop
<1>2. LoopInv /\ Counting /\ [Next]_vars => LoopInv' /\ Counting'
  BY SubmitLoop, QuietLoop, DecideLoop, StepCounts DEF Next, TickStep
<1>3. LoopInv /\ Counting /\ [Next]_vars => [Step]_vars
  <2> SUFFICES ASSUME LoopInv, Counting, Next, NEW j \in Jobs,
                      gpus'[j] # gpus[j], state[j] # "absent"
               PROVE  \/ hist'[Hysteresis] = {"gate"}
                      \/ \E side \in {"above", "below"} :
                            \A k \in 1 .. Hysteresis : hist'[k] = {side}
    OBVIOUS
  <2>1. ASSUME NEW i \in Jobs, Submit(i) PROVE FALSE
    BY <2>1 DEF Submit, LoopInv, TypeOK
  <2>2. ASSUME NEW i \in Jobs, Decide(i) PROVE i = j
    BY <2>2 DEF Decide, LoopInv, TypeOK
  <2>3. CASE Decide(j)
    BY <2>3, ChangeSeen
  <2>4. ASSUME \/ TickStart \/ ReadPaused \/ TickReturn \/ Elapse
               \/ \E i \in Jobs : Progress(i) \/ TickRaises(i)
        PROVE  FALSE
    BY <2>4 DEF TickStart, ReadPaused, TickReturn, Elapse, Progress, TickRaises, store
  <2> QED
    BY <2>1, <2>2, <2>3, <2>4 DEF Next, TickStep
<1> QED
  BY <1>1, <1>2, <1>3, PTL DEF Spec, ConsecutiveReadings
=============================================================================
