# TLA+ models of hasagi-parallelism

The repository holds three projects: `tare`, an energy-aware elastic training
controller, `hasagi`, an attestation library for state transformations of
training runs, and `green`, one benchmark. This directory models the parts of
`tare` and `hasagi` whose correctness depends on order, concurrency, failure or
boundary arithmetic. Paths below are relative to `src/tare/tare/` unless they start with
`src/`.

## The system

| component | state | operations | interacts with | hard because |
|---|---|---|---|---|
| Live reshard (`state/reshard.py`, `worker/host_trainer.py`) | per rank: wrapped model, optimizer, layout, captured full state, certificate | `live_rewrap`, `HostTrainer.reshard`, training between | every rank of the process group, through all-reduce, DDP broadcast and FSDP gathers | one decision for the group; corrupted tensors; exceptions on one rank |
| Admission and allocation (`admission/mss.py`, `admission/energy_profile.py`, `orchestrator/deadline_selector.py`) | none | `minimum_satisfactory_share`, `EnergyBudgetMSS.find`, `greedy_allocate`, `greedy_energy_allocate`, `DeadlineFloorSelector.floor` | called by the API and by each tick | binary search, boundary shares, greed |
| Energy-aware loop (`orchestrator/energy_aware_control_loop.py`, `energy/policy.py`) | hysteresis counters, partitions, stagnation trackers, decisions and events of the tick | `tick`, `_repartition`, `decide` | job store, telemetry, carbon intensity, pool, workers | runs against API calls; a tick that fails halfway |
| Job store and REST reads (`orchestrator/job.py`, `orchestrator/api.py`) | dict of live `Job` objects, one lock | `add`, `get`, `all`, `by_state`, `update`; `GET /jobs` | API threads, loop | live references leave the lock |
| Baseline loop (`orchestrator/control_loop.py`) | none of its own | `tick` | API, job store, planner, pool | updates seen halfway; the planner's search |
| Repartitioner (`parallel/partitioner.py`) | cached partition, stagnation tracker | `partition_pipeline`, `incremental_partition`, `observe`, `reset` | the tick | optimality, feasibility |
| Inter-batch scheduler (`parallel/inter_batch.py`) | node deficits, per-stage queues | `enqueue_*`, `tick` | pipeline stages | fairness, conservation of microbatches |
| Joint and stochastic partitioners, planner (`parallel/joint_partitioner.py`, `stochastic_joint_partitioner.py`, `planner.py`) | none | dynamic programs over cuts and frequencies, backpointers | experiments; the baseline loop calls the planner | optimality, frontiers |
| Host trainer checkpoint and resume (`worker/host_trainer.py`) | checkpoint file, iteration count | `cold_init`, `resume`, `checkpoint` | pool, file system | crash between two steps |
| Knative worker (`worker/knative_main.py`) | one global record of time stamps, counters, histories | request handlers in threads | pool | unlocked check-then-act |
| Pools (`pool/`) | names of workers, replica counts | `scale`, `observe`, `make_knative_scale_fn` | loop, Docker, kubectl | partial failure, return before effect |
| State stores (`state/checkpoint.py`, `state/redis_store.py`) | shard files, their list, its index; Redis keys | `save_shard`, `shards_for`; `get`, `set` | nothing in the repository calls either | non-atomic writes, restarts |
| Telemetry (`energy/telemetry.py`) | accumulated energy, last reading, poller thread | `start`, `stop`, poll, RAPL read | loop, workers | thread restart, counter wrap |
| Attribution (`energy/pod_ledger.py`, `marginal_meter.py`, `regime.py`, `background.py`) | marks, power trace, marginal energy | `start`, `stop`, `mark`, `report`, `report_from_trace` | telemetry, experiments | clock and meter read at different instants |
| Carbon sources (`energy/carbon_*.py`, `trace_schedule.py`) | caches, traces | lookup, interpolation | loop | I/O |
| RL and throttling study (`energy/rl_*.py`, `throttle_pareto.py`) | networks, tables | train, evaluate | experiments | numerical |
| Attestation (`src/hasagi/attest/`) | snapshots, certificates | capture, verify, gate | training scripts | what a certificate does not see |

`PROJECT.json` lists every component with its status, and every hazard at its
line with the properties that watch it. What makes each part correct:

- **Live reshard.** The group takes one decision; no two ranks wait in
  different collectives; a commit keeps the training state within the tolerance
  of its certificate, an abort restores it; every call ends.
- **Admission and allocation.** The binary search finds the minimum satisfactory share, the
  walk the smallest share within the budgets, one GPU at a time the best use of
  those that are left, and all of them return.
- **Energy-aware loop.** No tick decides a job twice; the deadline floor
  holds; the workers end up at the width in the store, whether the change
  reaches them as an event or through pause and resume; the pool follows in the
  end; a cached partition has the depth of the allocation.
- **Partitioners.** Each of the three dynamic programs finds a best plan and
  its backpointers lead to it, the sliding window the best one within its
  reach, and stagnation leads back to the first.
- **Inter-batch scheduler.** A micro-batch runs once in each direction, its
  backward where its activations are; nodes get the turns their weights earn.
- **Job store reads.** A response assembled from a live object is recent, and
  never pairs a state with an allocation older than that state.
- **Baseline loop and planner.** Between two updates a job has the fastest shape
  for its width.
- **Checkpoint store.** Of a shard saved once no list speaks of bytes that are not
  in the file, wherever a write fails or the process dies; of one saved again the
  running process's last entry is never an older file's.
- **Attestation.** No chain of transitions changes the state unless something
  said so beforehand; clean transitions commit; a fault is attributed to its
  own invariants.
- **Host trainer and deferral.** Pausing and resuming loses, repeats and mixes
  nothing, wherever the process dies; a run that lives ends.
- **Pools.** What a `scale` that returned left behind is what it was asked for.
- **Knative worker.** The record survives unlocked threads, but for counted
  requests.
- **Meters and ledger.** No tick is billed twice or outside the metered time,
  wraps of the RAPL counter are made good, and the two reports of the ledger
  differ by no more than where each of them cuts an interval.

## Modules

Every module starts with what it models; the lines behind each definition are
in `PROJECT.json` under `map`.

| module | models | composed of |
|---|---|---|
| `RankState` | what a rank holds under plain, ddp and fsdp, the float32 transport, the certificate | |
| `AtomicReshard` | the promise: a reshard is one atomic step of the group | `RankState` |
| `LiveRewrap` | `live_rewrap` on every rank, training in between | `RankState`; implements `AtomicReshard` |
| `ScalingCurve` | throughput curves, minimum satisfactory share, deadline floor | |
| `Admission` | `EnergyBudgetMSS.find`: search and walk | `ScalingCurve` (its `MSS` is the reference) |
| `GreedyAllocation` | the two greedy allocators | |
| `Sharing` | a call of either | `Admission`, `GreedyAllocation` |
| `EnergyPolicies` | what `decide` may answer, hysteresis counters | |
| `Repartitioning` | what a repartition may leave behind, whatever the partitioners compute | |
| `EnergyLoop` | `tick` against API calls, workers and pool | `ScalingCurve`, `EnergyPolicies`, `Repartitioning` |
| `PipelinePartition` | `partition_pipeline`, `incremental_partition` as operators | |
| `JointPartition` | `joint_partition`, `stochastic_joint_partition` as operators | `PipelinePartition` |
| `Partitioner` | `_repartition` over both partitioners and the tracker | `JointPartition`, `Repartitioning` |
| `DeficitRoundRobin` | `WRRScheduler.pick` | |
| `InterBatch` | the queues of one pipeline stage; `EnergyAwareWRR` | `DeficitRoundRobin` |
| `JobStoreReads` | `JobStore.update` against `_job_dict` | |
| `HybridStrategy` | `select_hybrid_strategy`, `SimpleRuntimeModel` as operators | |
| `ServedLoop` | the service of `api.py`: submission, baseline `tick`, pool hook, requests | `JobStoreReads`, `HybridStrategy`, `EnergyPolicies`; implements `JobStoreReads` |
| `CheckpointStore` | `save_shard`, failing writes, restarts | |
| `Certificate` | the snapshot and its six invariants | |
| `ShardLayout` | `Shard(0)` pieces and their gather | |
| `Transition` | chains of transitions through harness or stream experiment, and the gate | `Certificate`, `ShardLayout` |
| `HostTrainer` | build, train, checkpoint in place, teardown, resume | |
| `KnativePool` | `scale` against a cluster that answers in its own time | |
| `LocalDockerPool` | `scale`, name by name | |
| `KnativeWorker` | the threads of `/work` and `/reshard` over the shared record | |
| `Workers` | `_run_policy` of the deferral experiment, `scale_fn`, requests | the four above |
| `TelemetrySources` | the NVML, RAPL and marginal meters, their poller threads | |
| `PodLedger` | marks, and the two reports | |
| `EnergyAttribution` | a ledger on a running meter | `TelemetrySources`, `PodLedger` |

`EnergyLoop` does not contain the partitioners; it takes the outcome of a
repartition from `Repartitioning`, and `Partitioner` is checked to have no other
outcomes (`OutcomesAsInLoop`). In the same way `Admission` is checked to find
`ScalingCurve!MSS`, which `EnergyLoop` uses for submissions and floors, and
`EnergyLoop` takes a telemetry reading or an exception where `TelemetrySources`
has a meter.
`MC*` modules give the constants values that a cfg cannot hold (`MCStores` also
puts the service and the checkpoint store, which share nothing, side by side).
`*Proofs` modules hold the theorems, and `Induction` what several of them need
of recursion, folds and sums over finite sets; `ServiceProofs` is about `Sharing`,
`ServedLoop` (with `JobStoreReads`) and `CheckpointStore`, `PipelineProofs` about
`Partitioner` and `InterBatch`.

### How state and actions correspond to the code

- **LiveRewrap.** `pc[r]` is the place of rank `r` in `live_rewrap`; `cap`,
  `carried`, `new` and `cert` are its local variables, `layout`, `st` and `opt`
  the fields of its `HostTrainer`. A collective (all-reduce, DDP construction,
  FSDP gather) is one action of the group, enabled once all ranks are there;
  anything else is a step of one rank. A tensor is one value, a point of a grid;
  the certificate passes tensors up to `Atol` steps apart, as `verify` passes those
  up to `atol` (`state/reshard.py:165`). `Raise` is an
  exception nobody catches. A module factory is an argument of each call.
- **EnergyLoop.** A tick is `TickStart` (the running jobs), `ReadPaused`, one
  `Decide` per job and `TickReturn`; `Submit`, `Progress` and `Elapse` happen
  in between. `Decide` is the whole loop body: policy, floor, repartition,
  event, `update`, pool. `world` is what the workers were last told: the
  submitter starts them at the admitted width, an event reaches them with the
  tick's result, a pause releases them and a resume starts them at the new
  width. MPC and primal-dual policies may ask for any width. The parallelism
  shape, a function of the width, is left out.
- **Partitioner.** One action is one `_repartition`; the stages are rebuilt from
  telemetry for each call, so each call may see another fleet. Layers are said
  to be stable across ticks; `Register` changes them nevertheless, as the
  partitioner's own tests do. A partition keeps the one figure its objective
  reads. Times are counted in halves and speeds as time per FLOP, so that no
  quotient is left to round. On each state the joint and the stochastic
  partitioner are asked for the same layers on every prefix of the fleet, so
  that one stage is among the cases. Their floats' tolerances (1e-9, 1e-12)
  are left out; the voltage exponent is its default 2; variances are in units of
  `sigma_combined_sq`, and the stochastic plan is compared for every risk
  weight at once, by the frontier the choice is made from.
- **InterBatch.** Actions are `enqueue_forward`, `enqueue_backward` and `tick`;
  the driver that calls them is not in the repository, so any order of calls is
  allowed in which a gradient comes back once, after its forward. Deficits are
  parts of a turn. The code adds floats and compares them with 1.0
  (`parallel/inter_batch.py:176`), where ten times 0.1 falls short; the errors are
  taken to stay below one part, so that they decide only what is equal in parts: a
  deficit of exactly one turn may be enough or not, and of equal deficits any may
  be the largest. `EnergyAwareWRR`, which no stage uses, is a behaviour
  of its own, with its guard at the default `derate_factor` 0.
- **JobStoreReads.** A field holds the number of the update that wrote it;
  `update` sets fields one by one under the lock, `_job_dict` reads them one by
  one without it.
- **ServedLoop.** The same update and request, now with what they carry: `allocated`,
  `shape` and `status` are the job's fields, `chosen` is what the tick decided.
  `Decide` is the loop body up to the first field, `SetChosen` each further
  field, `Scale` the pool hook, whose failure is forgotten. `Submit` is `submit_job`
  with any admitted share. Runtimes are fractions over `100 * dp * mp`.
- **CheckpointStore.** A shard stands for what names its file, a content for the
  layers it holds. `write_bytes` and `write_text` are two steps each, with a torn
  file between them; either may raise, and the process may die anywhere.
- **Transition.** The stages of a transition run one after the other
  (`mp.spawn` with join), so each is a few steps of its whole group. A tensor
  is a sequence of rows, a fingerprint the tensor itself. Faults are injected
  on every rank of the second group; a fault of the mechanism (`LoadWrong`) on
  one. Chains of transitions follow `commit_with_certificate`.
- **Sharing.** One behaviour is one call: of `EnergyBudgetMSS.find`, which
  `Admission` runs step by step, or of an allocator, where a step gives one GPU.
  Quotients of the energy allocator are compared by cross-multiplication.
- **Workers.** One client per behaviour, since no code shares a trainer, a pool
  and a worker container. `pc` is the place in `_run_policy`; weights are
  the build they come from and the steps they have seen. `torch.save` is two
  steps with a torn file between them. `KnativePool.scale` patches and then
  polls, while pods of the new revision appear and those of older ones drain;
  its clock is a choice between a poll that sees enough and the timeout.
  A thread of the worker container takes a step per read or write of the record.
- **EnergyAttribution.** A poller takes three steps: the event, the clock and the
  power outside the lock, and the integral under it. `stop` is two, and its
  join may time out. Power is one or zero watts above a constant background, by
  the tick (`Busy`). RAPL is polled by its callers and reads the energy drawn
  modulo the counter's range. `sampled` remembers which samples each mark's
  reading of the meter included.

## Checks

| run | states | asks |
|---|---|---|
| `rewrap` | 536,546 | plain/ddp/fsdp flips in any order, with a parameter and a buffer, one corrupted tensor per call, one rank that may die: decisions, collectives, kept state within the tolerance, atomicity, termination |
| `rewrap_nan` | violation | the same with a NaN in the state |
| `admission` | 358,683 | every non-decreasing curve of five shares, every call of the search and the walk; every set of small concave profiles, every call of the allocators |
| `loop` | 161,674 | two jobs under the carbon rules, one with a deadline, one with a pipeline |
| `loop_power` | 60,631 | one job under the power policy, with its gate and three ticks of hysteresis |
| `loop_lost_event` | violation | a tick that raises after another job was resized |
| `partitioner` | 4,486 | repartitions over ten fleets, two lists of layers, both objectives, and the joint and stochastic plans for each |
| `inter_batch` | 641,755 | stages of three nodes, in the middle or at the end, and the energy-aware round robin; ties go either way |
| `store_reads` | 754,944 | three decisions of the baseline loop on one job against any requests, over twelve runtime models; or three shards saved under two names, with failing writes and restarts |
| `transition` | 939,647 | chains over one to three ranks, all layouts, faults and stream declarations |
| `meters` | 3,701,575 | each meter under a ledger, with two poller threads started and stopped in any order; its two reports against each other |
| `workers` | 655,054 | a deferral run whose process may die and be started again, the scaling hook on both pools, three concurrent requests |

### Bounds, and why they are enough

- `rewrap`: two ranks, of which rank 0 is the source of broadcasts and rank 1
  the owner of the parameter's shard, so that broadcast and gather read different ranks;
  every property relates at most two ranks. One corrupted tensor and one dead
  rank per behaviour; a fault on a second rank can only make the group abort as
  well. Values 0, 1 and 2 with a tolerance of one step have a difference that passes
  and one that does not; training leaves 0 and 2 (`Learned`), so that a value
  between them comes of a corruption. Two momenta tell the owner's from another's.
- `admission`: five shares give searches of three halvings and both
  roundings of the middle; rates up to two give flat, steep and useless curves. Two jobs are what greed
  can get wrong: each step compares two.
- `loop`: two jobs are needed for events lost or applied twice; widths to three
  reach width one, two and a changed depth; one second and one failure let a
  tick follow a late or failed one, and ticks themselves are not bounded.
  Three jobs or more differ in the number of decisions per tick only.
- `loop_power`: four widths and a context of three layers reach the ValueError of a
  pipeline too shallow; two faults and patience two reach an escape that fails.
- `partitioner`: three to five layers over two to three stages with a window of
  one: the window misses the best cut, every feasible cut and is infeasible
  as a whole, in some reachable state each.
- `inter_batch`: five micro-batches over three nodes put several into one
  queue of each direction, while the picks of the energy-aware round robin are
  not bounded. Equal, uneven, zero and no capacity are the four kinds of weights.
- `store_reads`: a request spans at most one update completely and two in
  part, which is three. Widths to seven have proper divisors, remainders and primes; the
  models are the free, fast and slow network with and without bubble, for a fixed
  and for a split batch. One shard saved twice and another once, or one
  thrice, with a restart between, are three saves.
- `meters`: a slice needs two samples, a double bill two pollers, an abandoned
  thread a tick in which the join times out, a wrap a range of two. `Busy` leaves
  one tick idle, so that billing the wrong tick shows. Nothing is marked once a
  thread was abandoned: a ledger on a doubled meter is wrong whatever it does.
- `workers`: the second process starts over a file, whole or torn, that the first wrote; five iterations
  with chunks of one are paused before, in and after the last; two replicas and
  three names make a scale between two others; three requests are two of one
  endpoint and one of the other.
- `transition`: rows four and two over one to three ranks are even, uneven,
  empty and too small to split; chains are unbounded.

### Fairness

- `LiveRewrap!Fairness`: each rank keeps executing, and a collective every rank
  has reached completes; the code has no timeout that would end either. Nothing
  is assumed of training, of new calls or of exceptions.
- `EnergyLoop!FairSpec`: weak fairness of the tick's steps, because the loop
  task ticks for ever and logs whatever a tick raised
  (`orchestrator/api.py:88-97`, the one driver of a loop in the repository; it
  is written for the baseline loop, which has the same `tick`). Nothing is
  assumed of submissions, progress or time.
- `Sharing!SharingSpec`: the call runs; nothing else is there.
- `Workers!Spec`: weak fairness of the deferral's own steps, which are one
  thread's and block in `scale` only, and of the polls of `scale`, whose loop has a
  timeout (`pool/knative_pool.py`). Nothing is assumed of the cluster, of
  kubectl or of the processes' lives: `RunEnds` holds when no pod ever gets ready.

Other specifications state no fairness. Deadlock is checked in
the passing runs but for `rewrap` (a group with a dead rank waits for ever),
`admission` (the call has returned), `inter_batch` (every micro-batch has
run), `store_reads` (every save has been made), `meters` (the clock is at its
bound) and `workers` (the run is over).

### Where code and documentation disagree

Two runs end in the violation `PROJECT.json` describes under `findings`:
`rewrap_nan` (a NaN passes every certificate) and `loop_lost_event` (a tick that
raises loses the events of the jobs it had already resized). Other behaviour a
reader may not expect, as modelled:

- Jobs share one policy object, so its hysteresis counts calls, not ticks: with two
  running jobs a width changes after half the ticks the docstring of
  `energy/policy.py:62` promises. `ConsecutiveReadings` is therefore checked
  of a loop with one job. The primal-dual multiplier is shared in the same way.
- Only rank 0 writes a snapshot (`src/hasagi/attest/harness.py:298`), so under the
  replicated layout a commit says nothing about the other replicas;
  `PiecesCertified` is about the pieces that reach the snapshot.
- A commit keeps the parameters within `atol` (1e-6), not exactly: `verify` passes any
  smaller difference (`state/reshard.py:165`), and the rank that has it goes on with
  the changed tensor. The docstring of `HostTrainer.reshard` ("preserves the parameters
  exactly or aborts", `worker/host_trainer.py:168`) holds up to that tolerance, and so
  do `CommitPreservesState` and `AtomicReshard!Commit`. The optimizer's state is
  in no certificate; it is carried over as captured, under fsdp by the ranks that own
  it.
- `flatten_state` goes through float32 and the certificate compares float32
  images, so a wider number is rounded and certified. `CommitPreservesState`
  holds for contents that float32 represents; `F32Exact` says which these are,
  and the run's are.
- A ddp group that aborts with a factory shares rank 0's parameters and buffers
  afterwards (`AbortRestoresState`, `AtomicReshard!Abort`); DDP does the same before each
  forward. With buffers that differ between the ranks, a flip into ddp
  never commits, without any fault.
- With no feasible cut in the window, and the old cuts infeasible too,
  `incremental_partition` returns the *previous* partition, which may be
  infeasible or cover other layers (`parallel/partitioner.py:364`);
  the comment above it and the docstring of the test that changes the layers
  say the result covers the current ones. `SlideIsBest` therefore speaks of
  windows with a feasible cut.
- A pause beats the deadline floor in the pool: the floor lifts the allocation, the
  pool is drained all the same.
- `energy_admit_or_drop` leaves an admitted job ADMITTED, and a tick reads RUNNING and
  PAUSED jobs only: the caller has to set it RUNNING, as `submit_job` does,
  which is the submission `EnergyLoop` models.
- One response may mix an allocation of one decision with the reason of another;
  only the order that `ResponsesInOrder` states is kept.
- A gradient that comes back without `target_node_id` may run on another node than
  its forward: R3 rests on the driver.
- A state with a NaN aborts every clean transition (`CleanCommits`): here NaN is
  close to nothing, while in `live_rewrap` it is close to everything.
- Without a module factory the module a flip commits is the caller's own
  (`state/reshard.py:407`): an abort then has no other module to go back to.
- `stop` joins a poller for two seconds and forgets it. A later `start` clears the
  event both threads look at, and the energy is billed twice from then on
  (`NotOverbilled` excludes these behaviours by `abandoned`).
- An NVML source that is stopped and started again bills the gap: `start` keeps
  the last time stamp. The marginal meter forgets it, but its trace keeps both
  ends, so `report_from_trace` bills the gap that `report` does not
  (`LedgersAgree` compares the two for meters that ran once).
- `mark` reads the clock before the meter, so `report` cuts an interval where the
  meter was read, at a sample, and `report_from_trace` where the clock was. What they
  give a phase differs by the energy in between (`Ahead`), in both directions: the
  meter may have run ahead of the timestamp, or lack the sample that spans it.
- `KnativePool.scale` counts pods of older revisions that are still Ready, so a
  change of target may return before a pod of the new revision is there; and
  a scale to a smaller target above zero returns while the surplus still runs.
- A `docker stop` that fails leaves a container whose name the pool has
  forgotten; the next `docker run` of that name raises.
- Two first requests to a worker container may both initialise CUDA, and the
  later overwrites the stamp of the earlier; two counts may become one.
- A crash in `checkpoint` leaves a torn file. The restarted run does not
  read it, since it starts from `cold_init`: progress is lost, not mixed.
- `CheckpointStore` does not read `index.json` when it starts, and the first save of a new
  process overwrites it: shards of the process before are on disk and in no list. A
  shard saved again, with other layers, is described by entries for bytes that are
  gone when the second write raises: its first entry stays in the list and in the
  index. `EntriesTruthful` is about shards saved once, and of the others
  asks only that the running list's last entry is not an older file's; the file may be
  torn.
- The baseline loop pauses a job in the store and still scales its pool to the
  target, where the energy-aware loop scales it to zero.
- The planner considers shapes that use as many GPUs as they can. With a bubble above
  100 percent a stage, two stages on two GPUs are slower than one; `ShapeSuits` is
  checked for bubbles below that, as the default of 5 percent is.
- The certificate asks for every optimizer slot it knew, not for the absence of
  new ones, and does not look at the optimizer's parameter groups.

## Proofs

`tlapm` checks the theorems for every value of the constants, under the named
`ASSUME`s of the modules (types of the constants, at least one rank, node or
share), under three assumptions that the theorems state themselves,
`DeepEnough` (a job with a pipeline has a layer for every stage it may be given),
`OneJob` (the loop has one job, and it follows the power policy) and `Exact` (a
32-bit float represents every value a tensor may have), and under four more on
constants that say which inputs a module is about, or how it writes numbers:

- `GreedyAssumption`: throughputs of a profile do not fall and their gains do
  not grow, powers do not fall and their increases do not shrink. That is what
  `ScalingCurve` and `validate_power_convexity` ask for, and what the docstrings
  of the allocators rely on.
- `ModelsAssumption`: the bubbles of a runtime model cost no more than its
  computation, `bubble * MaxGpus <= 100`, where the default of 5 percent allows
  twenty GPUs. It cannot be left out: with a bubble of 95 percent the planner,
  which looks only at shapes of as many GPUs as it can use, decides seven GPUs
  for a batch of one that fewer would finish sooner.
- `ScoresBounded`: `MaxScore`, and with it `Unreachable`, which stands for the
  infinite score of the code, is larger than the score of any cuts that fit. It
  restricts nothing: for finitely many contexts and fleets such a number exists.
- `WholeParts`: a turn is a multiple of every sum of raw weights. It makes no
  claim about the code: it keeps the weights, which are quotients, exact in whole
  parts of a turn.

- **`LiveRewrapProofs`.** `Agreement` and `CollectivesMatch` are not inductive:
  that two ranks wait in the same collective rests on where the whole group is.
  `IInv` therefore has `PhaseInv`, by which the group is resting, capturing,
  installing, committing, aborting or raising together, and `DataInv`, by which a
  rank in a phase holds what its code reads. One lemma per action; `Invariance`,
  then `TypeCorrect`, `AllOrNothing` and `NoCollectiveMismatch`. What is kept
  rests on `KeepInv`: what ranks read back through a wrapper, what each has captured,
  what a verified rank has installed, and what an abort has put back, one part per
  phase. It gives `CommitsPreserve` (under `Exact`: a certificate compares float32
  images; for any tolerance) and `AbortsRestore`. `ImplementsAtomic` maps the group to `AtomicReshard`:
  the call begins it, the step by which the last rank leaves commits or aborts it,
  and every step in between is a stutter.
- **`Induction`.** Induction as a statement about sets: a set of numbers with 0
  and every successor is all of them (`Induct`), a set of subsets with the empty one
  and every extension is all of them (`InductFinite`); both rest on the least
  element of a set (`Least`). With them, that recursion along `1 .. n` defines a
  function (`Recursion`), and what the fold behind every `Total` computes:
  `SumOver` takes any element first (`SumStep`), is linear and monotone, and skips zeros (`SumOfRest`);
  that `FlattenSeq` has the elements of its pieces (`FlattenHas`), that a fold from
  the left is a recursion over sets of indices (`FoldExists`), and that backpointers
  which always lead to a cell that is filled lead down to the first stage
  (`BackpointersLead`, with induction downwards, `InductDown`).
- **`ServiceProofs`, admission.** `SearchInv`: all shares below `lo` are too slow, `hi`
  is fast enough unless it is the last, and the walk leaves nothing
  suitable behind. Needs that curves do not decrease (`MeetsUpwards`). Gives
  `SearchCorrect` and `AdmissionCorrect`.
- **`ServiceProofs`, allocation.** `GreedyIsBest` says nothing before the call
  returns, so the invariant is `Threshold`: no job paid more for its last GPU, by
  what it gained, than any candidate would pay for the next one. `GiveKeeps`: the
  best candidate pays least (`BestPaysLeast`), and its next GPU costs more and
  gains less. When no GPU or no candidate is left, `Threshold` gives a weighing of gains
  against costs with every step taken on one side and every step left on the
  other (`Separates`; quotients are ordered without dividing, `CrossChain`, and one
  of finitely many is least, `Cheapest`). A concave gain minus a convex cost is
  nowhere above its turning point (`ConvexMin`, `Support`), so each job's share is
  best by that weighing, and so is their sum: `GreedyAlwaysBest`.
- **`EnergyLoopProofs`.** `LoopInv` is what a tick under way knows of the store
  it has read and of partitions and trackers; it holds whatever raises.
  `Delivered` says where a change of width is: in the world of the workers, or
  in an event of this tick. It needs `DeepEnough`, without which
  `loop_lost_event` shows it false. `Floored`: as long as no time has passed, a
  scheduled job with a selector is at its floor or still to be decided in this
  tick. `Counting`: a counter of `n` has the last `n` ticks' readings behind it.
  Gives `DecidedOnce`, `PartitionsFit`, `TrackersEscape`; under `DeepEnough`
  `WorkersAlwaysFollow` and `FloorAlwaysHeld`; under `OneJob`
  `WidthsAfterHysteresis`, an action property.
- **`ServiceProofs`, the service.** Fields that the update under way has set are
  one ahead of the others; what a request has read lies between its start and the
  job's fields. Gives `StateFollowsAllocation` for any writer that keeps the lock, and
  `ServedInOrder`, since the service implements one such writer
  (`ServedStep`). `ShapeAlwaysSuits`: of all shapes that fit, the planner's is
  fastest. For a fixed batch the fewest replicas win; for a split one, runtimes are
  fractions, and a shape that leaves GPUs idle loses to one the planner looks at, as long
  as bubbles cost no more than they save (`FixedReplica`, `SplitBatch`).
  `ListsTruthful`: every entry was saved, and the last call is the
  one under way (`Recorded`), so an entry of a shard saved once is the one whose
  file is being written, or its file is left alone.
- **`TransitionProofs`.** A decision is about snapshots of the verified and of
  the loaded state (`Snapshotted`), and equal snapshots mean equal states; so
  `NoDrift` is kept by chains of any length: `VerifiedForEver`. `MechanismInv` adds
  what the stages hand on: the checkpoint holds the pieces of the captured state,
  a loaded rank holds its own pieces of it, but for what the fault is about
  (`Resembles`). Cutting up and gathering are inverse for any length and number of ranks, and two
  different lists of pieces of the same lengths never flatten to one tensor; so
  equal fingerprints of gathered tensors mean equal pieces on every rank
  (`PiecesAlwaysCertified`), a fault shows only in the invariants that look at what it
  harmed (`FaultsAlwaysAttributed`), and no fault shows nowhere
  (`CleanAlwaysCommits`).
- **`PipelineProofs`, the cuts.** The dynamic programs are recursive functions over
  the stages, defined by `CHOOSE`; that there is such a table is a theorem
  (`TableExists`, `JointTableExists`, `FrontierTableExists`). Each is then shown
  twice. It is a bound: no cuts beat the score of the cells on their way, by
  induction over the stages, where the score of one more stage grows with the score
  before (`ScoredGrows`, `TableIsBound`). And the bound is reached: backpointers lead
  from a reachable cell to reachable cells only, so what is read back are increasing
  cuts whose segments fit, and they cost what the last cell says
  (`BacktrackingTraces`, `TracedIsBuilt`). Both give `FullIsAlwaysBest` from `PartInv`,
  the types of the partition and its tracker. `Incremental` sweeps the products of
  the window: its cuts are the first of the least score among the feasible
  ones (`SweepIsBest`), and every cut in the window is in the sweep (`InReach`), so
  `SlidesAlwaysBest`. `OutcomesAlwaysAsInLoop` needs of the partitioners only the
  depth of what they return.
- **`PipelineProofs`, cuts and throttles.** Every entry of the joint table extends one
  of the stage before by an admissible throttle, and no way to extend one costs
  less (`CellIs`); a prefix of a choice is then never cheaper than its cell
  (`JointIsBound`), and what the backpointers name costs exactly the sum over its
  stages (`JointTracedIsAdmitted`): `JointIsAlwaysBest`. That the energies add up
  while the slowest stage is a maximum does no harm, as the ceiling is tested stage by
  stage. The stochastic table has a frontier per cell. Inserting an entry never
  uncovers one that was covered before (`InsertedIs`), so the frontier covers
  every candidate (`FoldIsFrontier`, `FrontierIs`), although entries are dropped along the
  way and later stages point at positions in the frontier; and adding a stage keeps an
  entry with less mean and less variance ahead. Every choice that meets the chance
  constraints is covered in the last cell (`FrontierIsBound`), and each of the last
  cell's entries is the mean and variance of the choice its own backpointers name
  (`FrontierTraces`, `TracedMeetsChances`): `FrontierIsAlwaysBest`.
- **`PipelineProofs`, the micro-batches.** A queued forward has not run and is queued once
  (`Waiting`), a queued backward is on the node of its forward (`Owned`),
  nothing happened to what has not arrived (`Unseen`). Without `Waiting` a
  tick could run one forward on two nodes. Gives `BackwardOnItsNode` and
  `BoundedActivations`. With `Ordered` (nothing comes back before its forward ran)
  the invariant is `OnceInv`, and gives `RunExactlyOnce`: each enqueue and each
  service of a node adds or removes exactly one place of one micro-batch. The round
  robins have `RoundInv`: deficits are what was earned, never negative, and add up to a
  turn per missed pick. A pick takes the largest, so a pick that finds none large
  enough for a turn leaves none above a turn: their sum bounds the misses by the
  number of nodes (`MissesStayFew`; ten nodes of weight 0.1 do miss ten picks), and
  no node trails what it earned by more turns than there are nodes
  (`SharesStayFair`). A change of weights leaves the deficits as they are.
- **`EnergyAttributionProofs`.** `Billed`: unless a thread was abandoned, what is
  billed and the slice a poller still has open fit into the ticks that may be
  billed; `Counted`: the counter's readings add up modulo its range. Gives
  `MetersNeverOverbill`; with `MarksInOrder`, `NothingClamped`: the ledger's
  `max(0, ...)` never hides energy. `Traced`: a meter in its first life has integrated
  the slices of its trace. `Sampled`: a mark's reading is the sum of the slices up to
  the sample `sampled` names, and once a later sample is recorded no poll is older than
  the mark. An integral up to a mark cuts each slice of the trace in two, up to a
  sample none (`BilledAtSample`); so `report` and `report_from_trace` are differences
  of the same integral, taken at readings and at timestamps: `LedgersAlwaysAgree`.
- **`WorkersProofs`.** `RunInv` ties the place in the deferral's loop to where
  the job is, on the device, in the file, or nowhere; `PoolInv` and `DockerInv` tie a
  call's target to the service and to the names. They give `ResumesExactly` and
  `PoolsReachTarget`. `RecordInv` is about the unlocked record of a worker: a clock
  reading that *covers* a stamp bounds every receipt written or about to be
  (`Stamped`), and a count is covered by the records appended and about to be
  (`Tallied`). Gives `RequestsAlwaysAccounted`.

Only model-checked:

- liveness (`ReshardTerminates`, `PoolFollowsJob`, `Returns`, `RunEnds`), which the
  prover has no rules for.

## Plan

Everything the plan listed is written: live reshard, admission, energy-aware loop,
store reads, transitions, repartitioner, inter-batch scheduler; then worker life,
meters and ledger, the Knative worker, the joint and stochastic partitioners, the
allocators, the baseline service and the checkpoint store. The most important
behaviour came first: the group decision of a reshard, then the loop that asks for
it.

What could be added:

1. `EnergyLoop` with the width of `MPCPolicy` computed, once its costs are
   integers, instead of any width.
2. The Redis store, once something in the repository calls it.

## Not modelled, and why

The components of `PROJECT.json` with the status `not_modelled`:

- **Carbon sources and traces**: HTTP and CSV input, interpolation; the loops take an
  intensity, or an exception, from a set.
- **Reinforcement learning and the throttling study, statistics, data sets, model
  zoo, exporters**: arithmetic on floats, or declarations.

Left out of components that are modelled in part:

- energy and carbon projections of admission, and what MPC and primal-dual policies
  compute: where control depends on them their result is taken from a set;
- `reshard_and_commit` without a change of layout, which runs in one process;
- the aggregation of telemetry over workers, drifting backgrounds and the regime
  classification of the attribution;
- the simulated pool, which only counts, the worker registry, which nothing in `src/`
  builds, and the simulated worker of `worker/main.py`;
- the Redis wrapper: one command per operation, and no caller in the repository.

The experiments (`experiments/`, `src/hasagi/exp_*.py`, `src/green`) are most
of the repository's lines. They drive the libraries above in a straight line and
record numbers. The two with a protocol of their own, the deferral run
(`exp_carbon_deferral_breakeven.py`, in `Workers`) and the stream experiment
(`exp_attest_rng_restore_repro.py`, in `Transition`), are modelled; a model of the
others would restate the order of their statements.
