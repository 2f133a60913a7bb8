--------------------------- MODULE JobStoreReads ----------------------------
(***************************************************************************)
(* One job of the JobStore, written by the control loop and read by the    *)
(* API.  update holds the store's lock while it sets the fields one by     *)
(* one; get, all and by_state return the live Job, and _job_dict reads its *)
(* fields one by one with no lock, in a worker thread.  A field is         *)
(* abstracted to the number of the update that wrote it.                   *)
(***************************************************************************)
EXTENDS Naturals, Sequences

CONSTANT MaxUpdates   \* bound: updates of the job

ASSUME UpdatesAssumption == MaxUpdates \in Nat

Fields == {"state", "allocated_gpus", "parallelism", "last_decision_reason"}

\* The order of update's keyword arguments in tick.
WriteOrder == <<"allocated_gpus", "parallelism", "state", "last_decision_reason">>

\* Mutant: the response lists the allocation before the state.
AllocationFirst == <<"allocated_gpus", "parallelism", "state", "last_decision_reason">>

\* The order of the fields in _job_dict.
ReadOrder == <<"state", "allocated_gpus", "parallelism", "last_decision_reason">>

VARIABLES
    job,       \* the update that wrote each field
    updates,   \* updates begun
    writing,   \* fields the update under way has set, 0 outside update
    reading,   \* fields the request under way has read
    response,  \* what it read, 0 for a field not read
    since      \* updates complete when it began (history)

readsVars == <<job, updates, writing, reading, response, since>>

Versions == 0 .. MaxUpdates

ReadsTypeOK ==
    /\ job \in [Fields -> Versions] /\ response \in [Fields -> Versions]
    /\ updates \in Versions /\ since \in Versions
    /\ writing \in 0 .. 4 /\ reading \in 0 .. 4

Blank == [f \in Fields |-> 0]

ReadsInit ==
    /\ job = Blank /\ updates = 0 /\ writing = 0
    /\ reading = 0 /\ response = Blank /\ since = 0

\* update begins: it takes the lock and sets the first field.
BeginUpdate ==
    /\ writing = 0 /\ updates < MaxUpdates
    /\ updates' = updates + 1
    /\ job' = [job EXCEPT ![WriteOrder[1]] = updates + 1]
    /\ writing' = 1
    /\ UNCHANGED <<reading, response, since>>

\* The next setattr; after the last one the lock is released.
SetField ==
    /\ writing \in 1 .. 3
    /\ job' = [job EXCEPT ![WriteOrder[writing + 1]] = updates]
    /\ writing' = IF writing = 3 THEN 0 ELSE writing + 1
    /\ UNCHANGED <<updates, reading, response, since>>

\* A request fetches the job (the lock is free) and keeps the reference.
Request ==
    /\ reading \in {0, 4} /\ writing = 0
    /\ reading' = 0
    /\ response' = Blank
    /\ since' = updates
    /\ UNCHANGED <<job, updates, writing>>

ReadField ==
    /\ reading < 4
    /\ response' = [response EXCEPT ![ReadOrder[reading + 1]] = job[ReadOrder[reading + 1]]]
    /\ reading' = reading + 1
    /\ UNCHANGED <<job, updates, writing, since>>

ReadsNext == BeginUpdate \/ SetField \/ Request \/ ReadField

ReadsSpec == ReadsInit /\ [][ReadsNext]_readsVars
-----------------------------------------------------------------------------
\* A response is at least as recent as the request, and never reports a state
\* newer than the allocation beside it: a job seen PAUSED or RUNNING is seen
\* with the width and shape of that decision, or of a later one, because
\* update sets the state after them and _job_dict reads it before them.
ResponsesInOrder ==
    reading = 4 =>
        /\ \A f \in Fields : response[f] >= since
        /\ response["state"] <= response["allocated_gpus"]
        /\ response["state"] <= response["parallelism"]
-----------------------------------------------------------------------------
\* The fields the update under way has set are one ahead of the others.
JobInv ==
    /\ \A i \in 1 .. 4 :
         job[WriteOrder[i]] =
             IF writing = 0 \/ i <= writing THEN updates ELSE updates - 1
    /\ writing # 0 => updates > 0
    /\ writing # 4

RequestInv ==
    /\ writing = 0 => since <= updates
    /\ writing # 0 => since <= updates - 1
    /\ \A i \in 1 .. 4 : i <= reading =>
         since <= response[ReadOrder[i]] /\ response[ReadOrder[i]] <= job[ReadOrder[i]]
    /\ \A f \in {"allocated_gpus", "parallelism"} :
         /\ reading >= 1 => response["state"] <= job[f]
         /\ f = "allocated_gpus" /\ reading >= 2 => response["state"] <= response[f]
         /\ f = "parallelism" /\ reading >= 3 => response["state"] <= response[f]

ReadsInv == ReadsTypeOK /\ JobInv /\ RequestInv
=============================================================================
