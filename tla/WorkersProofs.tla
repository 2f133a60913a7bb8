--------------------------- MODULE WorkersProofs ----------------------------
(***************************************************************************)
(* The workers under their clients, for every number of iterations, ticks, *)
(* calls, replicas and requests: a paused job resumes exactly where it     *)
(* was, each pool ends where it was asked to, and the record of a worker   *)
(* container accounts for its requests.  The parts of IInv and RecordInv   *)
(* talk of different variables, so each is kept by itself, by the steps    *)
(* that touch them.                                                        *)
(***************************************************************************)
EXTENDS Workers, SequenceTheorems, FiniteSetTheorems, TLAPS

PoolTypeOK ==
    /\ spec \in Nat /\ patched \in Nat
    /\ pods \in [starting : Nat, ready : Nat, old : Nat]
    /\ call \in [pc : {"none", "polling", "returned", "raised"}, target : Nat, wait : BOOLEAN]
    /\ result \in [target : Nat, timedOut : BOOLEAN]

DockerTypeOK ==
    /\ scaling \in [pc : {"called", "returned", "raised"}, to : Nat]
    /\ spawned \in Seq(Nat) /\ troubled \in BOOLEAN

RunTypeOK ==
    client \in Clients /\ itersDone \in Nat /\ run \in Nat /\ builds \in Nat

\* TypeOK by part.
LEMMA TypesByPart == TypeOK <=> PoolTypeOK /\ DockerTypeOK /\ RunTypeOK
  BY Zenon DEF TypeOK, PoolTypeOK, DockerTypeOK, RunTypeOK

-----------------------------------------------------------------------------
(* The Knative service.                                                    *)

\* What a step may do to the service: a call, a poll, an exception, or the
\* cluster's own step.
PoolStep ==
    \/ \E target \in Nat, wait \in BOOLEAN : Patch(target, wait)
    \/ PollReturns \/ PollTimesOut
    \/ /\ call' = [call EXCEPT !.pc = "raised"]
       /\ UNCHANGED <<spec, pods, result, patched>>
    \/ PodCreated \/ PodReady \/ PodGone

\* Every step of the composition is one of those, or leaves the service alone.
LEMMA PoolSteps ==
  ASSUME [Next]_vars
  PROVE  client' = client /\ (PoolStep \/ UNCHANGED poolVars)
<1>1. CASE UNCHANGED vars
  BY <1>1 DEF vars
<1>2. CASE Deferral
  <2>1. CASE \/ CallPool("scale_up", 1, "scaling_up")
             \/ CallPool("scale_down", 0, "scaling_down")
             \/ CallPool("scale_last", 0, "scaling_last")
    BY <2>1 DEF CallPool, OnlyPool, PoolStep
  <2>2. CASE \/ CleanTick \/ DirtyTick \/ ScaledUp \/ ScaledDown \/ TickOver \/ Over \/ Raises
    BY <2>2 DEF CleanTick, DirtyTick, ScaledUp, ScaledDown, TickOver, Over, Raises, OnlyRun
  <2>3. CASE \/ Cold \/ Resume \/ Reload \/ Warm \/ Train \/ Save \/ Saves \/ Free \/ Finish
    BY <2>3 DEF Cold, Resume, Reload, Warm, Train, Save, Saves, Free, Finish, OnlyTrainer
  <2> QED BY <1>2, <2>1, <2>2, <2>3 DEF Deferral
<1>3. CASE Crash
  BY <1>3 DEF Crash, PoolStep, poolVars
<1>4. CASE Restart
  BY <1>4 DEF Restart, OnlyTrainer
<1>5. CASE Polls \/ KubectlFails \/ ClusterSteps
  BY <1>5 DEF Polls, KubectlFails, ClusterSteps, Cluster, CallRaises, PoolStep
<1>6. CASE ScaleFn
  BY <1>6, PoolAssumption DEF ScaleFn, PatchRaises, PoolStep
<1>7. CASE DockerSteps \/ RequestSteps
  BY <1>7 DEF DockerSteps, RequestSteps, runVars
<1> QED BY <1>1, <1>2, <1>3, <1>4, <1>5, <1>6, <1>7 DEF Next

\* The service keeps its types and its invariant.
LEMMA PoolKept ==
  ASSUME PoolTypeOK, PoolInv, [Next]_vars
  PROVE  PoolTypeOK' /\ PoolInv'
<1> USE DEF PoolTypeOK, PoolInv, Reached, HasService, Live, Active
<1>0. client' = client
  BY PoolSteps
<1>1. CASE UNCHANGED poolVars
  BY <1>0, <1>1 DEF poolVars
<1>2. ASSUME NEW target \in Nat, NEW wait \in BOOLEAN, Patch(target, wait)
      PROVE  PoolTypeOK' /\ PoolInv'
  BY <1>2 DEF Patch
<1>3. CASE PollReturns
  BY <1>0, <1>3 DEF PollReturns, Enough
<1>4. CASE PollTimesOut
  BY <1>4 DEF PollTimesOut
<1>5. CASE /\ call' = [call EXCEPT !.pc = "raised"]
           /\ UNCHANGED <<spec, pods, result, patched>>
  BY <1>5
<1>6. CASE PodCreated
  BY <1>0, <1>6 DEF PodCreated
<1>7. CASE PodReady
  BY <1>0, <1>7 DEF PodReady
<1>8. CASE PodGone
  BY <1>0, <1>8 DEF PodGone
<1> QED BY <1>1, <1>2, <1>3, <1>4, <1>5, <1>6, <1>7, <1>8, PoolSteps DEF PoolStep
-----------------------------------------------------------------------------
(* The docker pool.                                                        *)

\* What a step may do to the docker pool.
DockerStep ==
    \/ \E target \in Nat : BeginScale(target)
    \/ Spawn \/ SpawnRaises \/ EndScale \/ ContainerEnds
    \/ \E works \in BOOLEAN : Kill(works)

\* Every step of the composition is one of those, or leaves the pool alone.
LEMMA DockerMoves == [Next]_vars => DockerStep \/ UNCHANGED dockerVars
<1> SUFFICES ASSUME [Next]_vars PROVE DockerStep \/ UNCHANGED dockerVars
  OBVIOUS
<1>1. CASE UNCHANGED vars
  BY <1>1 DEF vars
<1>2. CASE Deferral
  <2>1. CASE \/ CallPool("scale_up", 1, "scaling_up")
             \/ CallPool("scale_down", 0, "scaling_down")
             \/ CallPool("scale_last", 0, "scaling_last")
    BY <2>1 DEF CallPool, OnlyPool
  <2>2. CASE \/ CleanTick \/ DirtyTick \/ ScaledUp \/ ScaledDown \/ TickOver \/ Over \/ Raises
    BY <2>2 DEF CleanTick, DirtyTick, ScaledUp, ScaledDown, TickOver, Over, Raises, OnlyRun
  <2>3. CASE \/ Cold \/ Resume \/ Reload \/ Warm \/ Train \/ Save \/ Saves \/ Free \/ Finish
    BY <2>3 DEF Cold, Resume, Reload, Warm, Train, Save, Saves, Free, Finish, OnlyTrainer
  <2> QED BY <1>2, <2>1, <2>2, <2>3 DEF Deferral
<1>3. CASE Crash \/ Restart \/ Polls \/ KubectlFails \/ ClusterSteps \/ ScaleFn \/ RequestSteps
  BY <1>3 DEF Crash, Restart, OnlyTrainer, Polls, KubectlFails, ClusterSteps, ScaleFn, RequestSteps
<1>4. CASE DockerSteps
  BY <1>4, WorkersAssumption DEF DockerSteps, DockerStep
<1> QED BY <1>1, <1>2, <1>3, <1>4 DEF Next

\* What SubSeq takes of a list of names.
LEMMA Part ==
  ASSUME NEW s \in Seq(Nat), NEW m \in Int, NEW n \in Int, 1 <= m, n <= Len(s)
  PROVE  /\ SubSeq(s, m, n) \in Seq(Nat)
         /\ Len(SubSeq(s, m, n)) = IF m <= n THEN n - m + 1 ELSE 0
         /\ \A i \in 1 .. n - m + 1 : SubSeq(s, m, n)[i] = s[m + i - 1]
<1>1. \A i \in m .. n : s[i] \in Nat
  OBVIOUS
<1> QED BY <1>1, SubSeqProperties

\* What RemoveAt leaves of it.
LEMMA Removed ==
  ASSUME NEW s \in Seq(Nat), NEW p \in 1 .. Len(s)
  PROVE  /\ RemoveAt(s, p) \in Seq(Nat) /\ Len(RemoveAt(s, p)) = Len(s) - 1
         /\ \A i \in 1 .. Len(s) - 1 : RemoveAt(s, p)[i] = IF i < p THEN s[i] ELSE s[i + 1]
<1> DEFINE a == SubSeq(s, 1, p - 1)
           b == SubSeq(s, p + 1, Len(s))
           n == Len(s)
<1>0. n \in Nat /\ p \in 1 .. n
  OBVIOUS
<1>1. a \in Seq(Nat) /\ Len(a) = p - 1 /\ \A i \in 1 .. p - 1 : a[i] = s[i]
  BY Part, SMTT(30)
<1>2. b \in Seq(Nat) /\ Len(b) = n - p /\ \A i \in 1 .. n - p : b[i] = s[p + i]
  BY Part, SMTT(30)
<1> HIDE DEF a, b, n
<1>3. /\ a \o b \in Seq(Nat) /\ Len(a \o b) = Len(a) + Len(b)
      /\ \A i \in 1 .. Len(a) + Len(b) : (a \o b)[i] = IF i <= Len(a) THEN a[i] ELSE b[i - Len(a)]
  BY <1>1, <1>2, ConcatProperties
<1>4. Len(a \o b) = n - 1
  BY <1>0, <1>1, <1>2, <1>3
<1>5. ASSUME NEW i \in 1 .. n - 1 PROVE (a \o b)[i] = IF i < p THEN s[i] ELSE s[i + 1]
  <2>1. (a \o b)[i] = IF i <= p - 1 THEN a[i] ELSE b[i - (p - 1)]
    <3>1. Len(a) = p - 1 /\ Len(b) = n - p
      BY <1>1, <1>2
    <3>2. i \in 1 .. Len(a) + Len(b)
      BY <1>0, <3>1
    <3>3. (a \o b)[i] = IF i <= Len(a) THEN a[i] ELSE b[i - Len(a)]
      BY <1>3, <3>2
    <3> QED BY <3>1, <3>3
  <2>2. CASE i < p
    BY <1>0, <1>1, <2>1, <2>2
  <2>3. CASE ~(i < p)
    <3>1. i - (p - 1) \in 1 .. n - p /\ p + (i - (p - 1)) = i + 1 /\ ~(i <= p - 1)
      BY <1>0, <2>3
    <3>2. b[i - (p - 1)] = s[p + (i - (p - 1))]
      BY <1>2, <3>1
    <3> QED BY <2>1, <2>3, <3>1, <3>2
  <2> QED BY <2>2, <2>3
<1>6. RemoveAt(s, p) = a \o b
  BY DEF RemoveAt, a, b
<1> QED BY <1>3, <1>4, <1>5, <1>6 DEF n

\* The names in a list.
LEMMA SetOf == \A s \in Seq(Nat) : ToSet(s) = {s[i] : i \in 1 .. Len(s)}
  BY DEF ToSet

\* The names in an increasing list without one of them.
LEMMA RemovedSet ==
  ASSUME NEW s \in Seq(Nat), NEW p \in 1 .. Len(s),
         \A i \in 1 .. Len(s) : \A j \in 1 .. i - 1 : s[j] < s[i]
  PROVE  ToSet(RemoveAt(s, p)) = ToSet(s) \ {s[p]}
<1> DEFINE t == RemoveAt(s, p)
           n == Len(s)
<1>1. /\ n \in Nat /\ p \in 1 .. n
      /\ \A i \in 1 .. n - 1 : t[i] = IF i < p THEN s[i] ELSE s[i + 1]
  BY Removed
<1>2. ToSet(s) = {s[i] : i \in 1 .. n} /\ ToSet(t) = {t[i] : i \in 1 .. n - 1}
  <2>1. t \in Seq(Nat) /\ Len(t) = n - 1
    BY Removed
  <2>2. \A q \in Seq(Nat) : ToSet(q) = {q[i] : i \in 1 .. Len(q)}
    BY SetOf
  <2> HIDE DEF t
  <2> QED BY <2>1, <2>2, Zenon
<1>3. \A i \in 1 .. n : i # p => s[i] # s[p]
  <2> SUFFICES ASSUME NEW i \in 1 .. n, i # p PROVE s[i] # s[p]
    OBVIOUS
  <2>1. s[i] \in Nat /\ s[p] \in Nat
    OBVIOUS
  <2>2. i < p => s[i] < s[p]
    BY <1>1
  <2>3. p < i => s[p] < s[i]
    BY <1>1
  <2> QED BY <2>1, <2>2, <2>3, <1>1
<1> HIDE DEF t, n
<1>4. \A i \in 1 .. n - 1 : \E k \in 1 .. n : t[i] = s[k] /\ k # p
  <2> TAKE i \in 1 .. n - 1
  <2>1. CASE i < p
    BY <1>1, <2>1
  <2>2. CASE ~(i < p)
    <3>1. i + 1 \in 1 .. n /\ i + 1 # p /\ t[i] = s[i + 1]
      BY <1>1, <2>2
    <3> QED BY <3>1
  <2> QED BY <2>1, <2>2
<1>5. \A k \in 1 .. n : k # p => \E i \in 1 .. n - 1 : s[k] = t[i]
  <2> SUFFICES ASSUME NEW k \in 1 .. n, k # p PROVE \E i \in 1 .. n - 1 : s[k] = t[i]
    OBVIOUS
  <2>1. CASE k < p
    BY <1>1, <2>1
  <2>2. CASE ~(k < p)
    <3>1. k - 1 \in 1 .. n - 1 /\ ~(k - 1 < p) /\ (k - 1) + 1 = k
      BY <1>1, <2>2
    <3> QED BY <1>1, <3>1
  <2> QED BY <2>1, <2>2
<1>6. ToSet(t) = ToSet(s) \ {s[p]}
  <2>1. \A x \in ToSet(t) : x \in ToSet(s) /\ x # s[p]
    BY ONLY <1>2, <1>3, <1>4
  <2>2. \A x \in ToSet(s) : x # s[p] => x \in ToSet(t)
    BY ONLY <1>2, <1>5
  <2> QED BY <2>1, <2>2, Zenon
<1> QED BY <1>6 DEF t

\* An increasing list whose first names are the first indices stays one.
LEMMA StillOrdered ==
  ASSUME NEW s \in Seq(Nat), NEW to \in Nat, to + 1 \in 1 .. Len(s),
         \A i \in 1 .. Len(s) : /\ i <= to => s[i] = i - 1
                                /\ \A j \in 1 .. i - 1 : s[j] < s[i]
  PROVE  \A i \in 1 .. Len(s) - 1 :
           /\ i <= to => RemoveAt(s, to + 1)[i] = i - 1
           /\ \A j \in 1 .. i - 1 : RemoveAt(s, to + 1)[j] < RemoveAt(s, to + 1)[i]
<1> DEFINE t == RemoveAt(s, to + 1)
           n == Len(s)
           Old(k) == IF k < to + 1 THEN k ELSE k + 1
<1>1. n \in Nat /\ to < n /\ \A i \in 1 .. n - 1 : t[i] = s[Old(i)]
  <2>1. \A i \in 1 .. n - 1 : t[i] = IF i < to + 1 THEN s[i] ELSE s[i + 1]
    BY Removed
  <2> QED BY <2>1
<1>2. \A i \in 1 .. n - 1 : Old(i) \in 1 .. n /\ \A j \in 1 .. i - 1 : Old(j) \in 1 .. Old(i) - 1
  BY <1>1
<1>3. \A i \in 1 .. n - 1 : i <= to => Old(i) = i /\ s[i] = i - 1
  BY <1>1
<1>4. \A i \in 1 .. n : \A j \in 1 .. i - 1 : s[j] < s[i]
  OBVIOUS
<1> HIDE DEF t, n, Old
<1>5. ASSUME NEW i \in 1 .. n - 1
      PROVE  (i <= to => t[i] = i - 1) /\ \A j \in 1 .. i - 1 : t[j] < t[i]
  <2>1. i <= to => t[i] = i - 1
    BY <1>1, <1>3
  <2>2. ASSUME NEW j \in 1 .. i - 1 PROVE t[j] < t[i]
    <3>1. j \in 1 .. n - 1 /\ Old(i) \in 1 .. n /\ Old(j) \in 1 .. Old(i) - 1
      BY <1>1, <1>2
    <3>2. t[i] = s[Old(i)] /\ t[j] = s[Old(j)]
      BY <1>1, <3>1
    <3> QED BY <1>4, <3>1, <3>2
  <2> QED BY <2>1, <2>2
<1> QED BY <1>5 DEF t, n

\* The docker pool keeps its types and its invariant.
LEMMA DockerKept ==
  ASSUME DockerTypeOK, DockerInv, [Next]_vars
  PROVE  DockerTypeOK' /\ DockerInv'
<1> USE DEF DockerTypeOK, DockerInv, Named, Called
<1>1. CASE UNCHANGED dockerVars
  BY <1>1 DEF dockerVars
<1>2. ASSUME NEW target \in Nat, BeginScale(target) PROVE DockerTypeOK' /\ DockerInv'
  BY <1>2 DEF BeginScale
<1>3. CASE Spawn
  <2> DEFINE n == Len(spawned)
  <2>1. /\ spawned' \in Seq(Nat) /\ Len(spawned') = n + 1 /\ n \in Nat
        /\ \A i \in 1 .. n + 1 : spawned'[i] = i - 1
    BY <1>3 DEF Spawn
  <2>2. ToSet(spawned') = ToSet(spawned) \cup {n}
    <3>1. ToSet(spawned) = {spawned[i] : i \in 1 .. n} /\ ToSet(spawned') = {spawned'[i] : i \in 1 .. n + 1}
      BY <2>1, SetOf
    <3>2. \A i \in 1 .. n : spawned[i] = i - 1
      BY <1>3 DEF Spawn
    <3> HIDE DEF n
    <3> QED BY ONLY <2>1, <3>1, <3>2, SMTT(30)
  <2>3. /\ containers' = containers \cup {n}
        /\ UNCHANGED <<scaling, troubled>> /\ scaling.pc = "called" /\ n < scaling.to
    BY <1>3 DEF Spawn
  <2> QED BY <2>1, <2>2, <2>3
<1>4. CASE SpawnRaises
  BY <1>4 DEF SpawnRaises
<1>5. CASE EndScale
  BY <1>5 DEF EndScale
<1>6. CASE ContainerEnds
  BY <1>6 DEF ContainerEnds
<1>7. ASSUME NEW works \in BOOLEAN, Kill(works) PROVE DockerTypeOK' /\ DockerInv'
  <2> DEFINE p == scaling.to + 1
  <2>1. /\ p \in 1 .. Len(spawned) /\ spawned' = RemoveAt(spawned, p)
        /\ UNCHANGED scaling /\ scaling.pc = "called"
        /\ containers' = IF works THEN containers \ {spawned[p]} ELSE containers
        /\ troubled' = (troubled \/ ~works)
    BY <1>7 DEF Kill
  <2> HIDE DEF p
  <2>2. /\ spawned' \in Seq(Nat) /\ Len(spawned') = Len(spawned) - 1
        /\ \A i \in 1 .. Len(spawned) - 1 :
             spawned'[i] = IF i < p THEN spawned[i] ELSE spawned[i + 1]
    <3>1. spawned \in Seq(Nat)
      OBVIOUS
    <3> QED BY ONLY <2>1, <3>1, Removed
  <2>3. ~troubled' => containers' = ToSet(spawned')
    <3>1. spawned \in Seq(Nat) /\ \A i \in 1 .. Len(spawned) : \A j \in 1 .. i - 1 : spawned[j] < spawned[i]
      OBVIOUS
    <3>2. ToSet(spawned') = ToSet(spawned) \ {spawned[p]}
      BY ONLY <2>1, <3>1, RemovedSet
    <3>3. troubled \in BOOLEAN /\ (~troubled => containers = ToSet(spawned))
      OBVIOUS
    <3> QED BY ONLY <2>1, <3>2, <3>3
  <2>4. \A i \in 1 .. Len(spawned') :
          /\ i <= scaling.to => spawned'[i] = i - 1
          /\ \A j \in 1 .. i - 1 : spawned'[j] < spawned'[i]
    BY <2>1, <2>2, StillOrdered DEF p
  <2> QED BY <2>1, <2>2, <2>3, <2>4
<1> QED BY <1>1, <1>2, <1>3, <1>4, <1>5, <1>6, <1>7, DockerMoves DEF DockerStep
-----------------------------------------------------------------------------
(* The deferral run.                                                       *)

RunUnchanged == UNCHANGED <<client, runVars, trainerVars>>

\* A step that is not the run's leaves its state alone, or is a crash.
LEMMA OtherSteps ==
  ASSUME [Next]_vars, ~Deferral, ~Restart
  PROVE  \/ /\ client' = client
            /\ \/ RunUnchanged
               \/ client = "deferral" /\ pc' = "dead" /\ UNCHANGED trainerVars
         \/ client # "deferral" /\ UNCHANGED <<client, trainerVars>>
<1>1. CASE UNCHANGED vars
  BY <1>1 DEF vars, RunUnchanged
<1>2. CASE Crash
  BY <1>2 DEF Crash
<1>3. CASE Polls \/ KubectlFails \/ ClusterSteps
  BY <1>3 DEF Polls, KubectlFails, ClusterSteps, RunUnchanged
<1>4. CASE ScaleFn \/ DockerSteps
  BY <1>4 DEF ScaleFn, DockerSteps
<1>5. CASE RequestSteps
  BY <1>5 DEF RequestSteps, RunUnchanged
<1> QED BY <1>1, <1>2, <1>3, <1>4, <1>5 DEF Next

\* The run keeps its types and its invariant, action by action.
LEMMA RunKept ==
  ASSUME RunTypeOK, RunInv, [Next]_vars
  PROVE  RunTypeOK' /\ RunInv'
<1> USE DEF RunTypeOK, RunInv, PhasesMarked, Resident, OnFile, Device, Pausing, Starting
<1>1. CASE ~Deferral /\ ~Restart
  <2>1. CASE RunUnchanged
    BY <2>1 DEF RunUnchanged, runVars, trainerVars
  <2>2. CASE client' = client /\ pc' = "dead" /\ UNCHANGED trainerVars
    BY <2>2 DEF trainerVars
  <2>3. CASE client # "deferral" /\ UNCHANGED <<client, trainerVars>>
    BY <2>3 DEF trainerVars
  <2> QED BY <1>1, <2>1, <2>2, <2>3, OtherSteps
<1>2. CASE Restart
  BY <1>2 DEF Restart, Reborn, At, OnlyTrainer
<1> USE DEF At, OnlyRun, OnlyTrainer, OnlyPool, trainerVars
<1>3. CASE CleanTick
  BY <1>3 DEF CleanTick
<1>4. CASE DirtyTick
  BY <1>4 DEF DirtyTick
<1>5. CASE ScaledUp
  BY <1>5 DEF ScaledUp
<1>6. CASE ScaledDown
  BY <1>6 DEF ScaledDown
<1>7. CASE Cold
  BY <1>7 DEF Cold, ColdInit, BuildModel
<1>8. CASE Resume
  BY <1>8 DEF Resume, Rebuild, BuildModel
<1>9. CASE Reload
  BY <1>9 DEF Reload, Load, Saved
<1>10. CASE Warm
  BY <1>10, TrainerAssumption DEF Warm, TrainIters, Weights, Steps
<1>11. CASE Train
  BY <1>11, RunAssumption DEF Train, TrainIters, Weights, Steps
<1>12. CASE TickOver
  BY <1>12 DEF TickOver, Weights, Absent
<1>13. CASE Save
  BY <1>13 DEF Save, BeginSave
<1>14. CASE Saves
  BY <1>14 DEF Saves, EndSave, Weights, Steps, Saved
<1>15. CASE Free
  BY <1>15 DEF Free, Teardown
<1>16. CASE Finish
  BY <1>16 DEF Finish, Teardown
<1>17. CASE Over
  BY <1>17 DEF Over
<1>18. CASE Raises
  BY <1>18 DEF Raises
<1>19. CASE CallPool("scale_up", 1, "scaling_up")
  BY <1>19 DEF CallPool
<1>20. CASE CallPool("scale_down", 0, "scaling_down")
  BY <1>20 DEF CallPool
<1>21. CASE CallPool("scale_last", 0, "scaling_last")
  BY <1>21 DEF CallPool
<1> QED
  BY <1>1, <1>2, <1>3, <1>4, <1>5, <1>6, <1>7, <1>8, <1>9, <1>10, <1>11, <1>12, <1>13, <1>14,
     <1>15, <1>16, <1>17, <1>18, <1>19, <1>20, <1>21 DEF Deferral
-----------------------------------------------------------------------------
LEMMA Initially == Init => IInv
<1> SUFFICES ASSUME Init PROVE IInv
  OBVIOUS
<1>1. PoolTypeOK /\ PoolInv
  BY DEF Init, PoolInit, PoolTypeOK, PoolInv, Reached, Live, Active
<1>2. DockerTypeOK /\ DockerInv
  <2>1. /\ spawned = <<>> /\ containers = {} /\ ~troubled /\ troubled \in BOOLEAN
        /\ scaling = [pc |-> "returned", to |-> 0]
    BY DEF Init, DockerInit
  <2>2. spawned \in Seq(Nat) /\ Len(spawned) = 0
    BY <2>1
  <2>3. ToSet(spawned) = {}
    <3>1. ToSet(spawned) = {spawned[i] : i \in 1 .. Len(spawned)}
      BY <2>2, SetOf, Zenon
    <3> QED BY <2>2, <3>1
  <2> QED BY <2>1, <2>2, <2>3 DEF DockerTypeOK, DockerInv, Named, Called
<1>3. RunTypeOK /\ RunInv
  BY DEF Init, TrainerInit, RunTypeOK, RunInv, PhasesMarked, Device, Pausing, Starting
<1> QED BY <1>1, <1>2, <1>3, TypesByPart DEF IInv

\* IInv holds in every reachable state, under every client: the types, where
\* the job is for each place of the run, what the service's pods may be, and
\* the order of the docker pool's names.
THEOREM WorkersInvariance == Spec => []IInv
<1>1. IInv /\ [Next]_vars => IInv'
  <2> SUFFICES ASSUME IInv, [Next]_vars PROVE IInv'
    OBVIOUS
  <2>1. PoolTypeOK /\ DockerTypeOK /\ RunTypeOK /\ RunInv /\ PoolInv /\ DockerInv
    BY TypesByPart DEF IInv
  <2>2. PoolTypeOK' /\ PoolInv'
    BY <2>1, PoolKept
  <2>3. DockerTypeOK' /\ DockerInv'
    BY <2>1, DockerKept
  <2>4. RunTypeOK' /\ RunInv'
    BY <2>1, RunKept
  <2>5. TypeOK'
    BY <2>2, <2>3, <2>4, Zenon DEF TypeOK, PoolTypeOK, DockerTypeOK, RunTypeOK
  <2> QED BY <2>2, <2>3, <2>4, <2>5 DEF IInv
<1> QED BY <1>1, Initially, PTL DEF Spec

\* ResumedExactly: whatever the pauses, crashes and failed scale calls, the
\* weights that train are those of this process, with exactly the iterations
\* counted, and each phase is billed as what it is (_run_policy, HostTrainer).
THEOREM ResumesExactly == Spec => []ResumedExactly
<1>1. IInv => ResumedExactly
  BY DEF IInv, RunInv, ResumedExactly, Device
<1> QED BY <1>1, WorkersInvariance, PTL

\* PoolReached: a scale that returned has the pods it was asked for, a scale
\* to zero none, and the docker pool's names stay those of its containers.
THEOREM PoolsReachTarget == Spec => []PoolReached
<1>1. IInv => PoolReached
  BY DEF IInv, PoolInv, DockerInv, PoolReached
<1> QED BY <1>1, WorkersInvariance, PTL
-----------------------------------------------------------------------------
(* The worker container's record.                                          *)

\* The only steps that touch it are the clock's and the handlers'.
LEMMA RecordSteps ==
  ASSUME [Next]_vars
  PROVE  Pass \/ (\E r \in Requests : Handle(r)) \/ UNCHANGED workerVars
<1>1. CASE UNCHANGED vars
  BY <1>1 DEF vars
<1>2. CASE Deferral
  BY <1>2 DEF Deferral, CallPool, OnlyPool, CleanTick, DirtyTick, ScaledUp, ScaledDown,
              TickOver, Over, Raises, OnlyRun, Cold, Resume, Reload, Warm, Train, Save, Saves,
              Free, Finish, OnlyTrainer
<1>3. CASE Crash \/ Restart
  BY <1>3 DEF Crash, Restart, OnlyTrainer
<1>4. CASE Polls \/ KubectlFails \/ ClusterSteps
  BY <1>4 DEF Polls, KubectlFails, ClusterSteps
<1>5. CASE ScaleFn \/ DockerSteps
  BY <1>5 DEF ScaleFn, DockerSteps
<1>6. CASE RequestSteps
  BY <1>6 DEF RequestSteps
<1> QED BY <1>1, <1>2, <1>3, <1>4, <1>5, <1>6 DEF Next

LEMMA RecordTypesKept ==
  ASSUME RecordTypeOK, Pass \/ (\E r \in Requests : Handle(r)) \/ UNCHANGED workerVars
  PROVE  RecordTypeOK'
<1> USE DEF RecordTypeOK, Goes, PastInit, NoStamp, Kind
<1>1. CASE Pass
  BY <1>1 DEF Pass
<1>2. CASE UNCHANGED workerVars
  BY <1>2 DEF workerVars
<1>3. ASSUME NEW r \in Requests, Handle(r) PROVE RecordTypeOK'
  <2>0. Endpoints[r] \in Kind
    BY WorkerAssumption
  <2>1. CASE Receive(r)
    BY <2>1 DEF Receive
  <2>2. CASE CheckFirst(r)
    BY <2>2 DEF CheckFirst
  <2>3. CASE StampFirst(r)
    BY <2>0, <2>3 DEF StampFirst
  <2>4. CASE CheckInit(r)
    BY <2>4 DEF CheckInit
  <2>5. CASE Initialised(r)
    BY <2>5 DEF Initialised
  <2>6. CASE Complete(r)
    BY <2>6 DEF Complete
  <2>7. CASE CheckLast(r)
    BY <2>7 DEF CheckLast
  <2>8. CASE StampLast(r)
    BY <2>0, <2>8 DEF StampLast
  <2>9. CASE ReadCount(r)
    BY <2>0, <2>9 DEF ReadCount
  <2>10. CASE WriteCount(r)
    BY <2>0, <2>10 DEF WriteCount
  <2>11. CASE Record(r)
    BY <2>0, <2>11 DEF Record
  <2> QED
    BY <1>3, <2>1, <2>2, <2>3, <2>4, <2>5, <2>6, <2>7, <2>8, <2>9, <2>10, <2>11 DEF Handle
<1> QED BY <1>1, <1>2, <1>3

\* A covering reading stays one: who is about to stamp a first receipt saw
\* none, and so received its request before the reading was covered.
LEMMA CoversKept ==
  ASSUME RecordTypeOK, Stamped, Pass \/ (\E r \in Requests : Handle(r)) \/ UNCHANGED workerVars,
         NEW k \in Kind, NEW t \in Int, Covers(k, t)
  PROVE  Covers(k, t)'
<1> USE DEF RecordTypeOK, Goes, Covers
<1>1. CASE Pass \/ UNCHANGED workerVars
  BY <1>1 DEF Pass, workerVars
<1>2. ASSUME NEW r \in Requests, Handle(r) PROVE Covers(k, t)'
  <2>0. Endpoints[r] \in Kind
    BY WorkerAssumption DEF Kind
  <2>1. CASE StampFirst(r)
    BY <2>0, <2>1 DEF StampFirst, Stamped
  <2>2. CASE Receive(r)
    BY <2>2 DEF Receive
  <2>3. CASE CheckFirst(r)
    BY <2>3 DEF CheckFirst
  <2>4. CASE CheckInit(r) \/ Initialised(r) \/ Complete(r) \/ CheckLast(r)
    BY <2>4 DEF CheckInit, Initialised, Complete, CheckLast
  <2>5. CASE StampLast(r) \/ ReadCount(r) \/ WriteCount(r) \/ Record(r)
    BY <2>5 DEF StampLast, ReadCount, WriteCount, Record
  <2> QED BY <1>2, <2>1, <2>2, <2>3, <2>4, <2>5 DEF Handle
<1> QED BY <1>1, <1>2

\* The clock covers every receipt so far, once some receipt of that kind was
\* stamped.
LEMMA NowCovers ==
  ASSUME RecordTypeOK, Stamped, NEW k \in Kind, firstReceived[k] # NoStamp
  PROVE  Covers(k, offset)
BY DEF Stamped, Covers

LEMMA StampedKept ==
  ASSUME RecordTypeOK, Stamped, Pass \/ (\E r \in Requests : Handle(r)) \/ UNCHANGED workerVars
  PROVE  Stamped'
<1>0. /\ RecordTypeOK'
      /\ \A k \in Kind, t \in Int : Covers(k, t) => Covers(k, t)'
      /\ \A r \in Requests : Endpoints[r] \in Kind
      /\ \A k \in Kind : firstCompleted[k] \in Int /\ firstReceived[k] \in Int
      /\ \A r \in Requests : completed[r] \in Int /\ received[r] \in Int
      /\ offset \in Nat /\ initStamp \in Int /\ offset # NoStamp
  <2>1. RecordTypeOK'
    BY RecordTypesKept
  <2>2. \A k \in Kind, t \in Int : Covers(k, t) => Covers(k, t)'
    BY CoversKept
  <2>3. \A r \in Requests : Endpoints[r] \in Kind
    BY WorkerAssumption DEF Kind
  <2>4. /\ \A k \in Kind : firstCompleted[k] \in Int /\ firstReceived[k] \in Int
        /\ \A r \in Requests : completed[r] \in Int /\ received[r] \in Int
        /\ offset \in Nat /\ initStamp \in Int /\ offset # NoStamp
    BY DEF RecordTypeOK, NoStamp
  <2> QED BY <2>1, <2>2, <2>3, <2>4
<1>1. CASE UNCHANGED workerVars
  BY <1>1 DEF workerVars, Stamped, Covers
<1>2. CASE Pass
  BY <1>0, <1>2 DEF Pass, Stamped, Covers
<1>3. ASSUME NEW r \in Requests, Handle(r) PROVE Stamped'
  <2> USE DEF Goes
  <2>0. at \in [Requests -> PastInit \cup {"waiting", "received", "unseen", "init", "spinning"}]
    BY DEF RecordTypeOK
  <2>1. CASE Receive(r)
    <3>1. /\ at[r] = "waiting" /\ at' = [at EXCEPT ![r] = "received"]
          /\ received' = [received EXCEPT ![r] = offset]
          /\ UNCHANGED <<offset, completed, initStamp, firstReceived, firstCompleted>>
      BY <2>1 DEF Receive
    <3>2. \A s \in Requests : s # r => at'[s] = at[s] /\ received'[s] = received[s]
      BY <3>1, <2>0 DEF RecordTypeOK
    <3>3. at'[r] = "received" /\ received'[r] = offset
      BY <3>1, <2>0 DEF RecordTypeOK
    <3> QED BY <1>0, <3>1, <3>2, <3>3 DEF Stamped, PastInit
  <2>2. CASE CheckFirst(r)
    <3>1. /\ at[r] = "received"
          /\ at' = [at EXCEPT ![r] = IF firstReceived[Endpoints[r]] = NoStamp THEN "unseen" ELSE "init"]
          /\ UNCHANGED <<offset, received, completed, initStamp, firstReceived, firstCompleted>>
      BY <2>2 DEF CheckFirst
    <3>2. \A s \in Requests : s # r => at'[s] = at[s]
      BY <3>1, <2>0
    <3>3. /\ at'[r] \in {"unseen", "init"}
          /\ at'[r] = "init" => firstReceived[Endpoints[r]] # NoStamp
      BY <3>1, <2>0
    <3> QED BY <1>0, <3>1, <3>2, <3>3 DEF Stamped, PastInit
  <2>3. CASE StampFirst(r)
    <3>1. /\ at[r] = "unseen" /\ at' = [at EXCEPT ![r] = "init"]
          /\ firstReceived' = [firstReceived EXCEPT ![Endpoints[r]] = received[r]]
          /\ UNCHANGED <<offset, received, completed, initStamp, firstCompleted>>
      BY <2>3 DEF StampFirst
    <3>2. \A s \in Requests : s # r => at'[s] = at[s]
      BY <3>1, <2>0
    <3>3. at'[r] = "init" /\ received[r] # NoStamp /\ received[r] <= offset
      BY <3>1, <2>0 DEF Stamped
    <3>4. \A k \in Kind : firstReceived'[k] = IF k = Endpoints[r] THEN received[r] ELSE firstReceived[k]
      BY <1>0, <3>1 DEF RecordTypeOK
    <3> QED BY <1>0, <3>1, <3>2, <3>3, <3>4 DEF Stamped, PastInit
  <2>4. CASE CheckInit(r)
    <3>1. /\ at[r] = "init"
          /\ at' = [at EXCEPT ![r] = IF initStamp = NoStamp THEN "spinning" ELSE "working"]
          /\ UNCHANGED <<offset, received, completed, initStamp, firstReceived, firstCompleted>>
      BY <2>4 DEF CheckInit
    <3>2. \A s \in Requests : s # r => at'[s] = at[s]
      BY <3>1, <2>0
    <3>3. /\ at'[r] \in {"spinning", "working"}
          /\ at'[r] = "working" => initStamp # NoStamp
          /\ firstReceived[Endpoints[r]] # NoStamp
      BY <3>1, <2>0 DEF Stamped
    <3> QED BY <1>0, <3>1, <3>2, <3>3 DEF Stamped, PastInit
  <2>5. CASE Initialised(r)
    <3>1. /\ at[r] = "spinning" /\ at' = [at EXCEPT ![r] = "working"] /\ initStamp' = offset
          /\ UNCHANGED <<offset, received, completed, firstReceived, firstCompleted>>
      BY <2>5 DEF Initialised
    <3>2. \A s \in Requests : s # r => at'[s] = at[s]
      BY <3>1, <2>0
    <3>3. at'[r] = "working" /\ firstReceived[Endpoints[r]] # NoStamp
      BY <3>1, <2>0 DEF Stamped
    <3>4. Covers(Endpoints[r], offset)
      BY <1>0, <3>3, NowCovers
    <3>5. Covers(Endpoints[r], initStamp)'
      BY <1>0, <3>1, <3>2, <3>3, <3>4 DEF Covers
    <3> QED BY <1>0, <3>1, <3>2, <3>3, <3>5 DEF Stamped, PastInit
  <2>6. CASE Complete(r)
    <3>1. /\ at[r] = "working" /\ at' = [at EXCEPT ![r] = "done"]
          /\ completed' = [completed EXCEPT ![r] = offset]
          /\ UNCHANGED <<offset, received, initStamp, firstReceived, firstCompleted>>
      BY <2>6 DEF Complete
    <3>2. \A s \in Requests : s # r => at'[s] = at[s] /\ completed'[s] = completed[s]
      BY <3>1, <2>0 DEF RecordTypeOK
    <3>3. at'[r] = "done" /\ completed'[r] = offset /\ firstReceived[Endpoints[r]] # NoStamp
      BY <3>1, <2>0 DEF Stamped, RecordTypeOK, PastInit
    <3>4. Covers(Endpoints[r], offset)
      BY <1>0, <3>3, NowCovers
    <3>5. Covers(Endpoints[r], completed[r])'
      BY <1>0, <3>1, <3>2, <3>3, <3>4 DEF Covers
    <3>6. \A s \in Requests : at'[s] \in {"done", "unfinished"} => Covers(Endpoints[s], completed[s])'
      BY <1>0, <3>2, <3>5 DEF Stamped, Covers
    <3> QED BY <1>0, <3>1, <3>2, <3>3, <3>6 DEF Stamped, PastInit
  <2>7. CASE CheckLast(r)
    <3>1. /\ at[r] = "done"
          /\ at' = [at EXCEPT ![r] = IF firstCompleted[Endpoints[r]] = NoStamp THEN "unfinished"
                                     ELSE "counting"]
          /\ UNCHANGED <<offset, received, completed, initStamp, firstReceived, firstCompleted>>
      BY <2>7 DEF CheckLast
    <3>2. \A s \in Requests : s # r => at'[s] = at[s]
      BY <3>1, <2>0
    <3>3. at'[r] \in {"unfinished", "counting"}
      BY <3>1, <2>0
    <3> QED BY <1>0, <3>1, <3>2, <3>3 DEF Stamped, PastInit
  <2>8. CASE StampLast(r)
    <3>1. /\ at[r] = "unfinished" /\ at' = [at EXCEPT ![r] = "counting"]
          /\ firstCompleted' = [firstCompleted EXCEPT ![Endpoints[r]] = completed[r]]
          /\ UNCHANGED <<offset, received, completed, initStamp, firstReceived>>
      BY <2>8 DEF StampLast
    <3>2. \A s \in Requests : s # r => at'[s] = at[s]
      BY <3>1, <2>0
    <3>3. at'[r] = "counting" /\ Covers(Endpoints[r], completed[r])
      BY <3>1, <2>0 DEF Stamped
    <3>4. \A k \in Kind :
            firstCompleted'[k] = IF k = Endpoints[r] THEN completed[r] ELSE firstCompleted[k]
      BY <1>0, <3>1 DEF RecordTypeOK
    <3>5. \A k \in Kind : firstCompleted'[k] # NoStamp => Covers(k, firstCompleted[k])'
      BY <1>0, <3>1, <3>2, <3>3, <3>4 DEF Stamped, Covers
    <3> QED BY <1>0, <3>1, <3>2, <3>3, <3>5 DEF Stamped, PastInit
  <2>9. CASE ReadCount(r) \/ WriteCount(r) \/ Record(r)
    <3>1. /\ at[r] \in {"counting", "counted", "recording"}
          /\ \E to \in {"counted", "recording", "answered"} : at' = [at EXCEPT ![r] = to]
          /\ UNCHANGED <<offset, received, completed, initStamp, firstReceived, firstCompleted>>
      BY <2>9 DEF ReadCount, WriteCount, Record
    <3>2. \A s \in Requests : s # r => at'[s] = at[s]
      BY <3>1, <2>0
    <3>3. at'[r] \in {"counted", "recording", "answered"}
      BY <3>1, <2>0
    <3> QED BY <1>0, <3>1, <3>2, <3>3 DEF Stamped, PastInit
  <2> QED
    BY <1>3, <2>1, <2>2, <2>3, <2>4, <2>5, <2>6, <2>7, <2>8, <2>9 DEF Handle
<1> QED BY <1>1, <1>2, <1>3

\* The counter and the records, when a handler moves on.
LEMMA TalliedKept ==
  ASSUME RecordTypeOK, Tallied, Pass \/ (\E r \in Requests : Handle(r)) \/ UNCHANGED workerVars
  PROVE  Tallied'
<1>0. /\ at \in [Requests -> PastInit \cup {"waiting", "received", "unseen", "init", "spinning"}]
      /\ count \in [Kind -> Nat] /\ readCount \in [Requests -> Nat]
      /\ history \in [Kind -> Seq(Requests)]
      /\ \A r \in Requests : Endpoints[r] \in Kind
      /\ \A k \in Kind : Len(history[k]) \in Nat /\ Cardinality(Recording(k)) \in Nat
  <2>1. \A k \in Kind : Cardinality(Recording(k)) \in Nat
    BY FS_CardinalityType DEF Tallied
  <2> QED BY <2>1, WorkerAssumption DEF RecordTypeOK, Kind
<1>1. CASE Pass \/ UNCHANGED workerVars
  BY <1>1 DEF Pass, workerVars, Tallied, Recording, Records
<1>2. ASSUME NEW r \in Requests, Handle(r) PROVE Tallied'
  <2> USE DEF Goes
  <2>1. CASE \/ Receive(r) \/ CheckFirst(r) \/ StampFirst(r) \/ CheckInit(r) \/ Initialised(r)
             \/ Complete(r) \/ CheckLast(r) \/ StampLast(r)
    <3>1. /\ \E to \in PastInit \cup {"received", "unseen", "init", "spinning"} :
               to \notin {"counted", "recording"} /\ at' = [at EXCEPT ![r] = to]
          /\ at[r] \notin {"counted", "recording"}
          /\ UNCHANGED <<count, history, readCount>>
      BY <2>1 DEF Receive, CheckFirst, StampFirst, CheckInit, Initialised, Complete, CheckLast,
                  StampLast, PastInit
    <3>2. \A s \in Requests :
            /\ at'[s] = "recording" <=> at[s] = "recording"
            /\ at'[s] = "counted" <=> at[s] = "counted"
      BY <1>0, <3>1
    <3>3. \A k \in Kind : Recording(k)' = Recording(k)
      BY <3>2 DEF Recording
    <3> QED BY <3>1, <3>2, <3>3 DEF Tallied, Records
  <2>2. CASE ReadCount(r)
    <3>1. /\ at[r] = "counting" /\ at' = [at EXCEPT ![r] = "counted"]
          /\ readCount' = [readCount EXCEPT ![r] = count[Endpoints[r]]]
          /\ UNCHANGED <<count, history>>
      BY <2>2 DEF ReadCount
    <3>2. \A s \in Requests :
            /\ at'[s] = "recording" <=> at[s] = "recording"
            /\ s # r => (at'[s] = at[s] /\ readCount'[s] = readCount[s])
      BY <1>0, <3>1
    <3>3. \A k \in Kind : Recording(k)' = Recording(k)
      BY <3>2 DEF Recording
    <3>4. readCount'[r] = count[Endpoints[r]]
      BY <1>0, <3>1
    <3> QED BY <3>1, <3>2, <3>3, <3>4 DEF Tallied, Records
  <2>3. CASE WriteCount(r)
    <3>1. /\ at[r] = "counted" /\ at' = [at EXCEPT ![r] = "recording"]
          /\ count' = [count EXCEPT ![Endpoints[r]] = readCount[r] + 1]
          /\ UNCHANGED <<history, readCount>>
      BY <2>3 DEF WriteCount
    <3>2. at'[r] = "recording" /\ \A s \in Requests : s # r => at'[s] = at[s]
      BY <1>0, <3>1
    <3>3. \A k \in Kind :
            Recording(k)' = IF k = Endpoints[r] THEN Recording(k) \cup {r} ELSE Recording(k)
      BY <3>2 DEF Recording
    <3>4. r \notin Recording(Endpoints[r])
      BY <3>1 DEF Recording
    <3>5. \A k \in Kind :
            /\ IsFiniteSet(Recording(k))'
            /\ Records(k)' = IF k = Endpoints[r] THEN Records(k) + 1 ELSE Records(k)
      <4> SUFFICES ASSUME NEW k \in Kind
                   PROVE  /\ IsFiniteSet(Recording(k)')
                          /\ Records(k)' = IF k = Endpoints[r] THEN Records(k) + 1 ELSE Records(k)
        OBVIOUS
      <4>1. IsFiniteSet(Recording(k))
        BY DEF Tallied
      <4>2. CASE k = Endpoints[r]
        <5>1. /\ IsFiniteSet(Recording(k) \cup {r})
              /\ Cardinality(Recording(k) \cup {r}) = Cardinality(Recording(k)) + 1
          BY <4>1, <4>2, <3>4, FS_AddElement
        <5>2. Recording(k)' = Recording(k) \cup {r} /\ history' = history
          BY <4>2, <3>1, <3>3
        <5>3. Cardinality(Recording(k)') = Cardinality(Recording(k)) + 1
          BY <5>1, <5>2
        <5>4. Len(history[k]) \in Nat /\ Cardinality(Recording(k)) \in Nat
          BY <1>0
        <5>5. Records(k)' = Len(history[k]) + (Cardinality(Recording(k)) + 1)
          BY <5>2, <5>3 DEF Records
        <5>6. Records(k)' = Records(k) + 1
          BY <5>4, <5>5 DEF Records
        <5> QED BY <5>1, <5>2, <5>6, <4>2
      <4>3. CASE k # Endpoints[r]
        BY <4>1, <4>3, <3>1, <3>3 DEF Records
      <4> QED BY <4>2, <4>3
    <3>6. \A k \in Kind : Records(k) \in Nat
      BY <1>0 DEF Records
    <3>7. \A k \in Kind : count'[k] = IF k = Endpoints[r] THEN readCount[r] + 1 ELSE count[k]
      BY <1>0, <3>1
    <3>8. \A k \in Kind : count'[k] <= Records(k)'
      BY <1>0, <3>1, <3>5, <3>6, <3>7 DEF Tallied
    <3>9. \A k \in Kind, s \in Requests :
            Endpoints[s] = k /\ at'[s] = "counted" => readCount'[s] <= Records(k)'
      <4> SUFFICES ASSUME NEW s \in Requests, at'[s] = "counted"
                   PROVE  readCount'[s] <= Records(Endpoints[s])'
        OBVIOUS
      <4>1. s # r /\ at[s] = "counted" /\ readCount'[s] = readCount[s]
        BY <3>1, <3>2
      <4>2. readCount[s] <= Records(Endpoints[s])
        BY <4>1, <1>0 DEF Tallied
      <4>3. readCount[s] \in Nat /\ Records(Endpoints[s]) \in Nat
        BY <1>0, <3>6
      <4>4. \/ Records(Endpoints[s])' = Records(Endpoints[s])
            \/ Records(Endpoints[s])' = Records(Endpoints[s]) + 1
        BY <1>0, <3>5
      <4> QED BY <4>1, <4>2, <4>3, <4>4
    <3> QED BY <3>5, <3>8, <3>9 DEF Tallied
  <2>4. CASE Record(r)
    <3>1. /\ at[r] = "recording" /\ at' = [at EXCEPT ![r] = "answered"]
          /\ history' = [history EXCEPT ![Endpoints[r]] = Append(@, r)]
          /\ UNCHANGED <<count, readCount>>
      BY <2>4 DEF Record
    <3>2. at'[r] = "answered" /\ \A s \in Requests : s # r => at'[s] = at[s]
      BY <1>0, <3>1
    <3>3. \A k \in Kind :
            Recording(k)' = IF k = Endpoints[r] THEN Recording(k) \ {r} ELSE Recording(k)
      BY <3>2 DEF Recording
    <3>4. r \in Recording(Endpoints[r])
      BY <3>1 DEF Recording
    <3>5. \A k \in Kind :
            Len(history'[k]) = IF k = Endpoints[r] THEN Len(history[k]) + 1 ELSE Len(history[k])
      BY <1>0, <3>1
    <3>6. \A k \in Kind : IsFiniteSet(Recording(k)') /\ Records(k)' = Records(k)
      <4> SUFFICES ASSUME NEW k \in Kind
                   PROVE  IsFiniteSet(Recording(k)') /\ Records(k)' = Records(k)
        OBVIOUS
      <4>1. IsFiniteSet(Recording(k))
        BY DEF Tallied
      <4>2. CASE k = Endpoints[r]
        <5>1. /\ IsFiniteSet(Recording(k) \ {r})
              /\ Cardinality(Recording(k) \ {r}) = Cardinality(Recording(k)) - 1
          BY <4>1, <4>2, <3>4, FS_RemoveElement
        <5>2. Recording(k)' = Recording(k) \ {r} /\ Len(history'[k]) = Len(history[k]) + 1
          BY <4>2, <3>3, <3>5
        <5>3. Cardinality(Recording(k)') = Cardinality(Recording(k)) - 1
          BY <5>1, <5>2
        <5>4. Len(history[k]) \in Nat /\ Cardinality(Recording(k)) \in Nat
          BY <1>0
        <5>5. Records(k)' = (Len(history[k]) + 1) + (Cardinality(Recording(k)) - 1)
          BY <5>2, <5>3 DEF Records
        <5>6. Records(k)' = Records(k)
          BY <5>4, <5>5 DEF Records
        <5> QED BY <5>1, <5>2, <5>6
      <4>3. CASE k # Endpoints[r]
        BY <4>1, <4>3, <3>3, <3>5 DEF Records
      <4> QED BY <4>2, <4>3
    <3> QED BY <3>1, <3>2, <3>6 DEF Tallied
  <2> QED BY <1>2, <2>1, <2>2, <2>3, <2>4 DEF Handle
<1> QED BY <1>1, <1>2

\* The worker's record survives any number of threads that share it without
\* a lock: stamps are in order, the init's is there exactly when a request
\* has been through it, and a lost count is the worst that happens.
THEOREM RequestsAlwaysAccounted == Spec => []RequestsAccounted
<1>1. Init => RecordInv
  <2> SUFFICES ASSUME Init PROVE RecordInv
    OBVIOUS
  <2>1. RecordTypeOK /\ Stamped
    BY WorkerAssumption DEF Init, WorkerInit, RecordTypeOK, Stamped, NoStamp, Kind, PastInit
  <2>2. \A k \in Kind : Recording(k) = {}
    BY DEF Init, WorkerInit, Recording
  <2>3. Tallied
    <3>1. \A k \in Kind : IsFiniteSet(Recording(k)) /\ Cardinality(Recording(k)) = 0
      BY <2>2, FS_EmptySet
    <3>2. \A k \in Kind : count[k] = 0 /\ history[k] = <<>>
      BY DEF Init, WorkerInit
    <3>3. \A k \in Kind : Records(k) = 0
      BY <3>1, <3>2 DEF Records
    <3>4. \A r \in Requests : at[r] = "waiting"
      BY DEF Init, WorkerInit
    <3> QED BY <3>1, <3>2, <3>3, <3>4 DEF Tallied
  <2> QED BY <2>1, <2>3 DEF RecordInv
<1>2. RecordInv /\ [Next]_vars => RecordInv'
  BY RecordSteps, RecordTypesKept, StampedKept, TalliedKept DEF RecordInv
<1>3. RecordInv => RequestsAccounted
  <2> SUFFICES ASSUME RecordInv PROVE RequestsAccounted
    OBVIOUS
  <2>1. ASSUME NEW k \in Kind, \A r \in Requests : at[r] \notin {"counted", "recording"}
        PROVE  count[k] <= Len(history[k])
    <3>1. Recording(k) = {}
      BY <2>1 DEF Recording
    <3>2. Len(history[k]) \in Nat
      BY DEF RecordInv, RecordTypeOK
    <3> QED BY <3>1, <3>2, FS_EmptySet DEF RecordInv, Tallied, Records
  <2> QED BY <2>1 DEF RecordInv, Stamped, Covers, RequestsAccounted
<1> QED BY <1>1, <1>2, <1>3, PTL DEF Spec
=============================================================================
