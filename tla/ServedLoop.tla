----------------------------- MODULE ServedLoop ------------------------------
(***************************************************************************)
(* The orchestrator as api.py serves it, for one job: the submission with  *)
(* its admission, the ticks of the baseline ControlLoop in the event loop  *)
(* (carbon policy, planner, the job's update field by field, the pool),    *)
(* and requests that read the job in a thread, without a lock.             *)
(* JobStoreReads says which update wrote a field; here is what it wrote.   *)
(***************************************************************************)
EXTENDS JobStoreReads, HybridStrategy, EnergyPolicies

CONSTANT Models   \* runtime models the loop may be given

\* The bubbles of all stages together cost at most as much as the computation:
\* with the 5% of SimpleRuntimeModel, up to 20 GPUs.
ASSUME ModelsAssumption ==
    \A m \in Models : m \in Model /\ m.bubble * MaxGpus <= 100

VARIABLES
    runtime,  \* runtime_model
    status,   \* the job's state, "NONE" before it is in the store
    allocated, \* its allocated_gpus
    shape,    \* its parallelism
    chosen,   \* what the tick under way has decided
    tick,     \* "idle", "updating" or "scaling"
    pool      \* the width the pool was last scaled to

fieldVars == <<status, allocated, shape>>
loopVars == <<runtime, chosen, tick, pool>>
servedVars == <<readsVars, fieldVars, loopVars>>

NoChoice == [gpus |-> 0, shape |-> <<1, 1>>, state |-> "NONE"]

ServedInit ==
    /\ ReadsInit
    /\ runtime \in Models
    /\ status = "NONE" /\ allocated = 0 /\ shape = <<1, 1>>
    /\ chosen = NoChoice /\ tick = "idle" /\ pool = 0

\* submit_job: admitted with its minimum satisfactory share and RUNNING, or
\* DROPPED when there is none.
Submit(mss) ==
    /\ status = "NONE"
    /\ allocated' = mss
    /\ status' = IF mss = 0 THEN "DROPPED" ELSE "RUNNING"
    /\ UNCHANGED <<readsVars, shape, loopVars>>

\* A tick finds the job among the running or the paused ones, decides, and
\* starts its update: allocated_gpus is the first field.
Decide(intensity) ==
    /\ tick = "idle" /\ status \in {"RUNNING", "PAUSED"}
    /\ \E d \in Decisions(IF allocated = 0 THEN 1 ELSE allocated, intensity, 0, 0) :
         LET target == AtLeast(1, d.gpus)
         IN /\ chosen' = [gpus |-> target, shape |-> Select(runtime, target),
                          state |-> IF d.pause THEN "PAUSED" ELSE "RUNNING"]
            /\ allocated' = target
    /\ BeginUpdate
    /\ tick' = "updating"
    /\ UNCHANGED <<status, shape, runtime, pool>>

\* The next field of the update: the shape, the state, the reason.
SetChosen ==
    /\ tick = "updating" /\ SetField
    /\ shape' = IF writing = 1 THEN chosen.shape ELSE shape
    /\ status' = IF writing = 2 THEN chosen.state ELSE status
    /\ tick' = IF writing = 3 THEN "scaling" ELSE "updating"
    /\ UNCHANGED <<allocated, runtime, chosen, pool>>

\* pool_scale_fn, when there is one: an exception is logged and forgotten.
Scale ==
    /\ tick = "scaling"
    /\ pool' \in {pool, chosen.gpus}
    /\ tick' = "idle"
    /\ UNCHANGED <<readsVars, fieldVars, runtime, chosen>>

\* GET /jobs/{id}: 404 before the job is in the store.
GetJob ==
    /\ status # "NONE" /\ Request
    /\ UNCHANGED <<fieldVars, loopVars>>

ReadJob ==
    /\ ReadField
    /\ status # "NONE"
    /\ UNCHANGED <<fieldVars, loopVars>>

ServedNext ==
    \/ \E mss \in 0 .. MaxGpus : Submit(mss)
    \/ \E intensity \in Readings : Decide(intensity)
    \/ SetChosen
    \/ Scale
    \/ GetJob
    \/ ReadJob

ServedSpec == ServedInit /\ [][ServedNext]_servedVars
-----------------------------------------------------------------------------
\* Between two updates a decided job has the shape that suits its width: its
\* replicas take the GPUs that its stages leave, and no way to use as many
\* GPUs or fewer is faster, nor is one with fewer stages as fast.  Where a
\* replica's batch is fixed, that is as many stages as GPUs, on any network.
ShapeSuits ==
    updates > 0 /\ writing = 0 =>
        LET dp == shape[1]
            mp == shape[2]
            Uses(d, m) == d * m <= allocated
        IN /\ mp \in 1 .. allocated /\ dp = allocated \div mp
           /\ \A d, m \in 1 .. allocated : Uses(d, m) =>
                ~Less(Runtime(runtime, d, m), Runtime(runtime, dp, mp))
           /\ \A m \in 1 .. mp - 1 :
                Less(Runtime(runtime, dp, mp), Filled(runtime, allocated, m))
           /\ runtime.batch = 0 => mp = allocated
-----------------------------------------------------------------------------
\* Once a tick has decided, the width is the decision's, and so is the shape
\* as soon as the update has set it; a job is in the store before it has a tick.
ShapeInv ==
    /\ runtime \in Models /\ allocated \in 0 .. MaxGpus
    /\ writing = 0 <=> tick # "updating"
    /\ status = "NONE" => updates = 0
    /\ updates > 0 =>
         /\ allocated > 0 /\ chosen.gpus = allocated
         /\ chosen.shape = Select(runtime, allocated)
         /\ chosen.state # "NONE"
         /\ writing # 1 => shape = chosen.shape
=============================================================================
