------------------------------ MODULE Workers -------------------------------
(***************************************************************************)
(* The workers under each of the clients that drive them, one per          *)
(* behaviour:                                                              *)
(*   deferral  _run_policy trains a job on the host, pausing it in dirty   *)
(*             ticks to a checkpoint and a Knative service scaled to zero; *)
(*             its process may die anywhere and be started again;          *)
(*   scaler    scale_fn, the control loop's hook, drives the Knative       *)
(*             service to any sequence of targets;                         *)
(*   docker    the same hook on the docker pool;                           *)
(*   requests  HTTP requests reach one worker container.                   *)
(***************************************************************************)
EXTENDS HostTrainer, KnativePool, LocalDockerPool, KnativeWorker

CONSTANTS
    TotalIters,   \* total_iters of the run
    Chunk,        \* iterations per train_iters_count
    MaxTicks,     \* max_ticks of the run
    MaxCalls      \* bound: calls of the scaler and of the docker client

ASSUME RunAssumption ==
    TotalIters \in Nat /\ Chunk \in Nat \ {0} /\ MaxTicks \in Nat /\ MaxCalls \in Nat

VARIABLES
    client,    \* who drives the workers
    pc,        \* where _run_policy is
    ticks,     \* its ticks
    running,   \* its flag: the job is on the device
    started,   \* its flag: cold_init was called
    mark,      \* the phase of the ledger's last mark
    calls      \* calls made by the scaler or the docker client

runVars == <<pc, ticks, running, started, mark, calls>>
vars == <<client, runVars, trainerVars, poolVars, dockerVars, workerVars>>

Clients == {"deferral", "scaler", "docker", "requests"}

Init ==
    /\ client \in Clients
    /\ pc = "tick" /\ ticks = 0 /\ running = FALSE /\ started = FALSE /\ mark = "none"
    /\ calls = 0
    /\ TrainerInit /\ PoolInit /\ DockerInit /\ WorkerInit

OnlyRun == UNCHANGED <<client, calls, trainerVars, poolVars, dockerVars, workerVars>>
OnlyTrainer == UNCHANGED <<client, calls, poolVars, dockerVars, workerVars>>
OnlyPool == UNCHANGED <<client, calls, trainerVars, dockerVars, workerVars>>
At(from) == client = "deferral" /\ pc = from

\* The loop test, and a tick whose intensity is or is not above the threshold.
Finished == itersDone >= TotalIters \/ ticks >= MaxTicks

CleanTick ==
    /\ At("tick") /\ ~Finished
    /\ ticks' = ticks + 1
    /\ mark' = IF running THEN "active" ELSE "cold_start"
    /\ pc' = IF running THEN "train" ELSE "scale_up"
    /\ UNCHANGED <<running, started>> /\ OnlyRun

DirtyTick ==
    /\ At("tick") /\ ~Finished
    /\ ticks' = ticks + 1
    /\ mark' = "idle"
    /\ pc' = IF running THEN "save" ELSE "tick"
    /\ UNCHANGED <<running, started>> /\ OnlyRun

\* pool.scale(1) and pool.scale(0), which the run waits for.
CallPool(from, target, to) ==
    /\ At(from) /\ pc' = to
    /\ Patch(target, FALSE)
    /\ UNCHANGED <<ticks, running, started, mark>> /\ OnlyPool

ScaledUp ==
    /\ At("scaling_up") /\ call.pc = "returned"
    /\ pc' = IF started THEN "resume" ELSE "cold"
    /\ UNCHANGED <<ticks, running, started, mark>> /\ OnlyRun

ScaledDown ==
    /\ At("scaling_down") /\ call.pc = "returned"
    /\ pc' = "tick" /\ running' = FALSE
    /\ UNCHANGED <<ticks, started, mark>> /\ OnlyRun

Cold ==
    /\ At("cold") /\ ColdInit
    /\ pc' = "warm" /\ UNCHANGED <<ticks, running, started, mark>> /\ OnlyTrainer

Resume ==
    /\ At("resume") /\ Rebuild
    /\ pc' = "load" /\ UNCHANGED <<ticks, running, started, mark>> /\ OnlyTrainer

Reload ==
    /\ At("load") /\ Load
    /\ pc' = "warm" /\ UNCHANGED <<ticks, running, started, mark>> /\ OnlyTrainer

\* The warm-up, and the mark of the active phase.
Warm ==
    /\ At("warm") /\ TrainIters(Warmup)
    /\ pc' = "train" /\ running' = TRUE /\ started' = TRUE /\ mark' = "active"
    /\ UNCHANGED ticks /\ OnlyTrainer

\* _train_until, until the target or the end of the tick.
Train ==
    /\ At("train") /\ itersDone < TotalIters /\ TrainIters(Chunk)
    /\ UNCHANGED <<pc, ticks, running, started, mark>> /\ OnlyTrainer

TickOver ==
    /\ At("train") /\ pc' = "tick"
    /\ UNCHANGED <<ticks, running, started, mark>> /\ OnlyRun

\* The pause: checkpoint, teardown, and then the pool.
Save ==
    /\ At("save") /\ BeginSave
    /\ pc' = "saving" /\ UNCHANGED <<ticks, running, started, mark>> /\ OnlyTrainer

Saves ==
    /\ At("saving") /\ EndSave
    /\ pc' = "free" /\ UNCHANGED <<ticks, running, started, mark>> /\ OnlyTrainer

Free ==
    /\ At("free") /\ Teardown(TRUE)
    /\ pc' = "scale_down" /\ UNCHANGED <<ticks, running, started, mark>> /\ OnlyTrainer

\* After the loop: teardown, and the pool at zero.
Finish ==
    /\ At("tick") /\ Finished
    /\ IF running THEN Teardown(FALSE) ELSE UNCHANGED trainerVars
    /\ running' = FALSE /\ pc' = "scale_last"
    /\ UNCHANGED <<ticks, started, mark>> /\ OnlyTrainer

Over ==
    /\ At("scaling_last") /\ call.pc = "returned" /\ pc' = "over"
    /\ UNCHANGED <<ticks, running, started, mark>> /\ OnlyRun

\* scale raised, or load could not read the file: the exception leaves
\* _run_policy and ends the process.
Raises ==
    /\ \/ At("load") /\ file.is # "saved"
       \/ \E p \in {"scaling_up", "scaling_down", "scaling_last"} : At(p) /\ call.pc = "raised"
    /\ pc' = "dead"
    /\ UNCHANGED <<ticks, running, started, mark>> /\ OnlyRun

\* So does one that the device or the disk raises, or a kill of the process.
Crash ==
    /\ client = "deferral" /\ pc \notin {"over", "dead"}
    /\ pc' = "dead"
    /\ call' = IF call.pc = "polling" THEN [call EXCEPT !.pc = "raised"] ELSE call
    /\ UNCHANGED <<client, calls, ticks, running, started, mark, trainerVars, spec, pods,
                   result, patched, dockerVars, workerVars>>

\* The run is started again with the same checkpoint path.
Restart ==
    /\ At("dead") /\ Reborn
    /\ pc' = "tick" /\ ticks' = 0 /\ running' = FALSE /\ started' = FALSE /\ mark' = "none"
    /\ OnlyTrainer

Deferral ==
    \/ CleanTick \/ DirtyTick \/ ScaledUp \/ ScaledDown \/ Cold \/ Resume \/ Reload \/ Warm
    \/ Train \/ TickOver \/ Save \/ Saves \/ Free \/ Finish \/ Over \/ Raises
    \/ CallPool("scale_up", 1, "scaling_up")
    \/ CallPool("scale_down", 0, "scaling_down")
    \/ CallPool("scale_last", 0, "scaling_last")
-----------------------------------------------------------------------------
\* scale and the cluster, for the two clients that have a Knative service.
HasService == client \in {"deferral", "scaler"}

Polls ==
    /\ HasService
    /\ PollReturns \/ PollTimesOut
    /\ UNCHANGED <<client, runVars, trainerVars, dockerVars, workerVars>>

KubectlFails ==
    /\ HasService /\ CallRaises
    /\ UNCHANGED <<client, runVars, trainerVars, dockerVars, workerVars>>

ClusterSteps ==
    /\ HasService /\ Cluster
    /\ UNCHANGED <<client, runVars, trainerVars, dockerVars, workerVars>>

\* scale_fn: a negative target is a scale to zero.
ScaleFn ==
    /\ client = "scaler" /\ calls < MaxCalls /\ calls' = calls + 1
    /\ \/ \E target \in -1 .. MaxReplicas, wait \in BOOLEAN :
            Patch(IF target < 0 THEN 0 ELSE target, wait)
       \/ PatchRaises
    /\ UNCHANGED <<client, pc, ticks, running, started, mark, trainerVars, dockerVars, workerVars>>

DockerSteps ==
    /\ client = "docker"
    /\ \/ calls < MaxCalls /\ calls' = calls + 1 /\ \E target \in 0 .. MaxWorkers : BeginScale(target)
       \/ /\ UNCHANGED calls
          /\ \/ Spawn \/ SpawnRaises \/ EndScale \/ ContainerEnds
             \/ \E works \in BOOLEAN : Kill(works)
    /\ UNCHANGED <<client, pc, ticks, running, started, mark, trainerVars, poolVars, workerVars>>

RequestSteps ==
    /\ client = "requests"
    /\ Pass \/ \E r \in Requests : Handle(r)
    /\ UNCHANGED <<client, runVars, trainerVars, poolVars, dockerVars>>

Next ==
    \/ Deferral \/ Crash \/ Restart
    \/ Polls \/ KubectlFails \/ ClusterSteps \/ ScaleFn
    \/ DockerSteps \/ RequestSteps

\* The run's own steps are those of one thread that nothing blocks but scale;
\* scale's loop looks at the clock in every turn.
Spec ==
    /\ Init /\ [][Next]_vars
    /\ WF_vars(Deferral) /\ WF_vars(Polls)
-----------------------------------------------------------------------------
\* The weights on the device come from the first build of this process and
\* have seen, like their optimizer, each of the iterations counted and no other.
Resident ==
    /\ model = Weights(<<run, 1>>, itersDone)
    /\ optim = Steps(itersDone)
    /\ loader

\* The phases the ledger bills are what the trainer does.
PhasesMarked ==
    /\ pc = "train" => mark = "active"
    /\ pc \in {"scale_up", "scaling_up", "cold", "resume", "load", "warm"} => mark = "cold_start"
    /\ pc \in {"save", "saving", "free", "scale_down", "scaling_down"} => mark = "idle"
    /\ pc = "tick" => (mark = "active" <=> running) /\ (running <=> model # Absent)

\* Whenever the job is on the device to be trained, it is where it was paused:
\* pausing loses, repeats and mixes nothing, no torn or foreign file is resumed
\* from, and what the trainer does is billed to the phase it belongs to.
ResumedExactly ==
    client = "deferral" =>
        /\ pc \in {"warm", "train", "save", "saving"} => Resident
        /\ PhasesMarked

\* A scale to zero that did not time out left no pod, and none comes back; any
\* other left the pods it was asked for, if none of an older revision was
\* there to be counted in their place.
Reached ==
    HasService /\ call.pc = "returned" /\ ~result.timedOut =>
        /\ call.target = 0 => Active = 0
        /\ patched = 0 => (IF call.wait THEN pods.ready ELSE Live) >= call.target

\* Between calls the docker pool's names are the first ones, so that the next
\* to start is free; a call that returned left as many as it was asked for; and if no stop
\* failed and nothing ended by itself, they are the containers there are.
Named ==
    /\ ~Called => \A i \in 1 .. Len(spawned) : spawned[i] = i - 1
    /\ scaling.pc = "returned" => Len(spawned) = scaling.to
    /\ ~troubled => containers = ToSet(spawned)

PoolReached == Reached /\ Named

PastInit == {"working", "done", "unfinished", "counting", "counted", "recording", "answered"}

\* The worker's record under any interleaving of its threads: the init is
\* stamped exactly when some request has been through it, never before the
\* first request came; a first completion is never before the first receipt;
\* and the counter may lose a request but never invents one.
RequestsAccounted ==
    /\ initStamp # NoStamp <=> \E r \in Requests : at[r] \in PastInit
    /\ initStamp # NoStamp =>
         \E k \in Kind : firstReceived[k] # NoStamp /\ firstReceived[k] <= initStamp
    /\ \A k \in Kind :
         /\ firstCompleted[k] # NoStamp => firstReceived[k] <= firstCompleted[k]
         /\ (\A r \in Requests : at[r] \notin {"counted", "recording"}) =>
               count[k] <= Len(history[k])

\* A run that is not killed ends: its ticks are bounded, and so is every wait.
RunEnds == pc = "tick" /\ client = "deferral" ~> pc \in {"over", "dead"}
-----------------------------------------------------------------------------
\* The strengthening of ResumedExactly: where the job is, by where the run is.
Device == {"warm", "train", "save", "saving", "free"}
Pausing == {"scale_down", "scaling_down"}
Starting == {"tick", "scale_up", "scaling_up"}

OnFile == file = Saved(<<run, 1>>, itersDone, itersDone, itersDone) /\ loader

RunInv ==
    client = "deferral" =>
        /\ pc \in Device \/ (pc = "tick" /\ running) => Resident
        /\ \/ pc \in Pausing \cup {"free", "resume", "load"}
           \/ pc \in Starting /\ started /\ ~running
           => OnFile
        /\ pc = "cold" \/ (pc \in Starting /\ ~started) => builds = 0 /\ itersDone = 0 /\ ~running
        /\ pc \in Pausing \cup {"cold", "resume"} \/ (pc \in Starting /\ ~running) => model = Absent
        /\ pc \in (Device \cup Pausing) \ {"warm"} => running /\ started
        /\ pc \in {"scale_up", "scaling_up", "cold", "resume", "load", "warm"} => ~running
        /\ pc \in {"resume", "load"} => started
        /\ PhasesMarked

\* The strengthening of Reached: scale's target is the service's, which its
\* pods do not exceed, and the older pods only go.
PoolInv ==
    /\ call.pc \in {"polling", "returned"} => call.target = spec
    /\ Live <= spec /\ pods.old <= patched
    /\ Reached

\* The strengthening of Named: the names are in order, and those that a call
\* will keep are the first ones.
DockerInv ==
    /\ \A i \in 1 .. Len(spawned) :
         /\ ~Called \/ i <= scaling.to => spawned[i] = i - 1
         /\ \A j \in 1 .. i - 1 : spawned[j] < spawned[i]
    /\ Named

\* The strengthening of RequestsAccounted: a clock reading t is one that no
\* stamp of a first receipt, written or about to be written, can exceed; and
\* a count is covered by the records appended and about to be appended.
Covers(k, t) ==
    /\ firstReceived[k] # NoStamp /\ firstReceived[k] <= t
    /\ \A r \in Requests : Endpoints[r] = k /\ at[r] = "unseen" => received[r] <= t

Stamped ==
    /\ initStamp # NoStamp <=> \E r \in Requests : at[r] \in PastInit
    /\ \A r \in Requests :
         /\ received[r] <= offset
         /\ at[r] # "waiting" => received[r] # NoStamp
         /\ at[r] \in PastInit \cup {"init", "spinning"} => firstReceived[Endpoints[r]] # NoStamp
         /\ at[r] \in {"done", "unfinished"} => Covers(Endpoints[r], completed[r])
    /\ \A k \in Kind :
         /\ firstReceived[k] <= offset
         /\ firstCompleted[k] # NoStamp => Covers(k, firstCompleted[k])
    /\ initStamp # NoStamp => \E k \in Kind : Covers(k, initStamp)

Recording(k) == {r \in Requests : Endpoints[r] = k /\ at[r] = "recording"}
Records(k) == Len(history[k]) + Cardinality(Recording(k))

Tallied ==
    \A k \in Kind :
        /\ IsFiniteSet(Recording(k))
        /\ count[k] <= Records(k)
        /\ \A r \in Requests :
              Endpoints[r] = k /\ at[r] = "counted" => readCount[r] <= Records(k)

RecordTypeOK ==
    /\ offset \in Nat /\ initStamp \in Nat \cup {NoStamp}
    /\ at \in [Requests -> PastInit \cup {"waiting", "received", "unseen", "init", "spinning"}]
    /\ received \in [Requests -> Nat \cup {NoStamp}]
    /\ completed \in [Requests -> Nat \cup {NoStamp}]
    /\ firstReceived \in [Kind -> Nat \cup {NoStamp}]
    /\ firstCompleted \in [Kind -> Nat \cup {NoStamp}]
    /\ readCount \in [Requests -> Nat] /\ count \in [Kind -> Nat]
    /\ history \in [Kind -> Seq(Requests)]

RecordInv == RecordTypeOK /\ Stamped /\ Tallied

TypeOK ==
    /\ client \in Clients
    /\ itersDone \in Nat /\ run \in Nat /\ builds \in Nat
    /\ spec \in Nat /\ patched \in Nat
    /\ pods \in [starting : Nat, ready : Nat, old : Nat]
    /\ call \in [pc : {"none", "polling", "returned", "raised"}, target : Nat, wait : BOOLEAN]
    /\ result \in [target : Nat, timedOut : BOOLEAN]
    /\ scaling \in [pc : {"called", "returned", "raised"}, to : Nat]
    /\ spawned \in Seq(Nat) /\ troubled \in BOOLEAN

IInv == TypeOK /\ RunInv /\ PoolInv /\ DockerInv
=============================================================================
