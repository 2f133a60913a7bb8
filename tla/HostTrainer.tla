---------------------------- MODULE HostTrainer -----------------------------
(***************************************************************************)
(* HostTrainer: the model, its optimizer and the loader of one job, which  *)
(* cold_init builds, checkpoint writes to one file in place, teardown      *)
(* frees and resume rebuilds.  Weights are abstracted to the build they    *)
(* come from and the optimizer steps they have seen, an optimizer's state  *)
(* to its steps.  A build is <<run, number>>: the process that made it and *)
(* which of its builds it is.                                              *)
(***************************************************************************)
EXTENDS Naturals

CONSTANTS
    MaxRuns,   \* bound: processes started, one after the other's crash
    Warmup     \* warmup_iters

ASSUME TrainerAssumption == MaxRuns \in Nat \ {0} /\ Warmup \in Nat

VARIABLES
    model,      \* _model: the weights resident on the device, or Absent
    optim,      \* _optim: its steps, or Absent
    itersDone,  \* iters_done
    loader,     \* whether _loader is there
    file,       \* what the checkpoint file holds, or Absent, or Torn
    run,        \* which process is running
    builds      \* models it has built

trainerVars == <<model, optim, itersDone, loader, file, run, builds>>

Absent == [is |-> "absent"]
Torn == [is |-> "torn"]
Steps(n) == [is |-> "steps", n |-> n]
Weights(b, n) == [is |-> "weights", build |-> b, n |-> n]
Saved(b, n, o, i) == [is |-> "saved", build |-> b, n |-> n, optim |-> o, iters |-> i]

TrainerInit ==
    /\ model = Absent /\ optim = Absent /\ itersDone = 0 /\ loader = FALSE
    /\ file = Absent /\ run = 1 /\ builds = 0

\* _build_model: fresh weights and a fresh optimizer.
BuildModel ==
    /\ builds' = builds + 1
    /\ model' = Weights(<<run, builds + 1>>, 0)
    /\ optim' = Steps(0)

\* cold_init up to its warm-up.
ColdInit ==
    /\ BuildModel
    /\ loader' = TRUE
    /\ UNCHANGED <<itersDone, file, run>>

\* train_iters_count(n).
TrainIters(n) ==
    /\ model # Absent /\ loader
    /\ model' = [model EXCEPT !.n = @ + n]
    /\ optim' = [optim EXCEPT !.n = @ + n]
    /\ itersDone' = itersDone + n
    /\ UNCHANGED <<loader, file, run, builds>>

\* checkpoint writes the file in place: torn until the write has ended.
BeginSave ==
    /\ file' = Torn
    /\ UNCHANGED <<model, optim, itersDone, loader, run, builds>>

EndSave ==
    /\ file' = Saved(model.build, model.n, optim.n, itersDone)
    /\ UNCHANGED <<model, optim, itersDone, loader, run, builds>>

\* teardown frees the device; the iteration count stays.
Teardown(keepLoader) ==
    /\ model' = Absent /\ optim' = Absent
    /\ loader' = (loader /\ keepLoader)
    /\ UNCHANGED <<itersDone, file, run, builds>>

\* resume builds first ...
Rebuild ==
    /\ BuildModel
    /\ UNCHANGED <<itersDone, loader, file, run>>

\* Mutant: resume loads the weights and leaves the optimizer fresh.
LoadWeights ==
    /\ file.is = "saved"
    /\ model' = Weights(file.build, file.n)
    /\ itersDone' = file.iters
    /\ loader' = TRUE
    /\ UNCHANGED <<optim, file, run, builds>>

\* ... and loads the file over the fresh model; load_state_dict raises on a
\* file that is absent or torn, and the fresh model stays.
Load ==
    /\ file.is = "saved"
    /\ model' = Weights(file.build, file.n)
    /\ optim' = Steps(file.optim)
    /\ itersDone' = file.iters
    /\ loader' = TRUE
    /\ UNCHANGED <<file, run, builds>>

\* The process dies and is started again: only the file is left.
Reborn ==
    /\ run < MaxRuns /\ run' = run + 1
    /\ model' = Absent /\ optim' = Absent /\ itersDone' = 0 /\ loader' = FALSE
    /\ builds' = 0
    /\ UNCHANGED file
=============================================================================
