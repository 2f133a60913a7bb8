------------------------------ MODULE LiveRewrap ------------------------------
(***************************************************************************)
(* live_rewrap and its caller HostTrainer.reshard, run by every rank of a  *)
(* process group: capture the state out of the current wrapper, round-trip *)
(* it through the flat shards, verify, agree, load it into a fresh module  *)
(* under the new wrapper, verify again, agree again, and only then hand    *)
(* the new model and the carried optimizer back; otherwise rebuild the old *)
(* layout from the captured state.                                         *)
(*                                                                         *)
(* A collective (all_reduce, the ddp constructor's broadcast, the fsdp     *)
(* gather) is an action of the whole group, enabled when every rank has    *)
(* reached it; everything else is a step of one rank.                      *)
(***************************************************************************)
EXTENDS RankState

CONSTANTS
    Factories,   \* whether callers give live_rewrap a module_factory: a set of booleans
    MaxFaults,   \* bound: tensors corrupted per call (transport or wrapper)
    MaxRaises    \* bound: ranks that die of an exception (out of memory, ...)

ASSUME RewrapAssumption ==
    /\ Factories \subseteq BOOLEAN
    /\ Factories # {}
    /\ MaxFaults \in Nat
    /\ MaxRaises \in Nat

VARIABLES
    pc,       \* where each rank is in live_rewrap
    layout,   \* HostTrainer.layout of each rank
    st,       \* what each rank's current model holds locally
    opt,      \* what each rank's optimizer holds locally
    to,       \* layout_to of the call under way
    factory,  \* the call under way was given a module_factory
    cap,      \* rc._captured of each rank
    carried,  \* carried of each rank, keyed by parameter name
    new,      \* reassembled, then what the new wrapper holds locally
    cert,     \* cert.ok of each rank
    outcome,  \* how the last call ended on each rank (history; training clears it)
    faults,   \* tensors corrupted in this call
    raises    \* ranks that died

vars == <<pc, layout, st, opt, to, factory, cap, carried, new, cert, outcome, faults, raises>>

Locations == {"idle", "snapshot", "transport", "agree1", "commit", "gather",
              "agree2", "optim", "abort", "dead"}
Outcomes  == {"none", "commit", "abort", "raised"}

At(loc) == \A r \in Ranks : pc[r] = loc
ToAll(loc) == [r \in Ranks |-> loc]
Nothing == [e \in {} |-> Freed]   \* a slot no call has filled yet

TypeOK ==
    /\ pc \in [Ranks -> Locations]
    /\ layout \in [Ranks -> Layouts]
    /\ st \in [Ranks -> LocalState]
    /\ opt \in [Ranks -> LocalOptim]
    /\ to \in Layouts
    /\ factory \in BOOLEAN
    /\ cap \in [Ranks -> FullState \cup {Nothing}]
    /\ carried \in [Ranks -> FullOptim \cup {Nothing}]
    /\ new \in [Ranks -> LocalState \cup {Nothing}]
    /\ cert \in [Ranks -> BOOLEAN]
    /\ outcome \in [Ranks -> Outcomes]
    /\ faults \in 0 .. MaxFaults
    /\ raises \in 0 .. MaxRaises

\* cold_init builds every rank plain, from its own random initialisation.
Init ==
    /\ pc = ToAll("idle")
    /\ layout = ToAll("plain")
    /\ st \in ReachableStates("plain")
    /\ opt \in ReachableOptims("plain")
    /\ to = "plain"
    /\ factory \in Factories
    /\ cap = ToAll(Nothing) /\ carried = ToAll(Nothing) /\ new = ToAll(Nothing)
    /\ cert = ToAll(TRUE)
    /\ outcome = ToAll("none")
    /\ faults = 0 /\ raises = 0
-----------------------------------------------------------------------------
(* The caller: training between reshards, and the call on every rank.  The *)
(* locals of a call are kept after it, for the properties, until the next  *)
(* training.                                                               *)

Train ==
    /\ At("idle")
    /\ st' \in ReachableStates(layout[0])
    /\ opt' \in ReachableOptims(layout[0])
    /\ layout[0] = "ddp" /\ InStep(st, opt) => InStep(st', opt')
    /\ outcome' = ToAll("none") /\ faults' = 0
    /\ cap' = ToAll(Nothing) /\ carried' = ToAll(Nothing) /\ new' = ToAll(Nothing)
    /\ cert' = ToAll(TRUE)
    /\ UNCHANGED <<pc, layout, to, factory, raises>>

\* The argument checks (unknown layout, fsdp without a factory, a world that
\* is not the group's) raise before anything is captured, on every rank
\* alike; only calls that pass them are modelled.
Start(target) ==
    /\ At("idle")
    /\ factory' \in Factories
    /\ layout[0] = "fsdp" => factory'
    /\ to' = target
    /\ pc' = ToAll("snapshot")
    /\ outcome' = ToAll("none")
    /\ faults' = 0
    /\ cap' = ToAll(Nothing) /\ carried' = ToAll(Nothing) /\ new' = ToAll(Nothing)
    /\ cert' = ToAll(TRUE)
    /\ UNCHANGED <<layout, st, opt, raises>>

\* extract_full_state and named_optim_state of a plain or ddp rank.
SnapshotLocal(r) ==
    /\ pc[r] = "snapshot" /\ layout[r] # "fsdp"
    /\ cap' = [cap EXCEPT ![r] = st[r]]
    /\ carried' = [carried EXCEPT ![r] = opt[r]]
    /\ pc' = [pc EXCEPT ![r] = "transport"]
    /\ UNCHANGED <<layout, st, opt, to, factory, new, cert, outcome, faults, raises>>

\* The same under fsdp: the gathers are collectives.
SnapshotGather ==
    /\ At("snapshot") /\ layout[0] = "fsdp"
    /\ cap' = [r \in Ranks |-> Gather(st, r)]
    /\ carried' = [r \in Ranks |-> Gather(opt, r)]
    /\ pc' = ToAll("transport")
    /\ UNCHANGED <<layout, st, opt, to, factory, new, cert, outcome, faults, raises>>

\* The state after at most one corrupted tensor.
Corrupted(state) ==
    {state} \cup {[state EXCEPT ![e] = v] :
                    e \in {x \in DOMAIN state : state[x] # Freed}, v \in Values}

Corrupting(state, result) ==
    /\ faults' = faults + (IF result = state THEN 0 ELSE 1)
    /\ faults' <= MaxFaults

\* Mutant: the reassembled state is loaded before it is verified.
TransportThenVerify(r) ==
    /\ pc[r] = "transport"
    /\ \E reassembled \in Corrupted(RoundTrip(cap[r])) :
         /\ Corrupting(RoundTrip(cap[r]), reassembled)
         /\ new' = [new EXCEPT ![r] = reassembled]
         /\ st' = [st EXCEPT ![r] = reassembled]
         /\ cert' = [cert EXCEPT ![r] = Verified(cap[r], reassembled)]
    /\ pc' = [pc EXCEPT ![r] = "agree1"]
    /\ UNCHANGED <<layout, opt, to, factory, cap, carried, outcome, raises>>

\* plan_shards, unshard, unflatten, and the rank-local certificate.
Transport(r) ==
    /\ pc[r] = "transport"
    /\ \E reassembled \in Corrupted(RoundTrip(cap[r])) :
         /\ Corrupting(RoundTrip(cap[r]), reassembled)
         /\ new' = [new EXCEPT ![r] = reassembled]
         /\ cert' = [cert EXCEPT ![r] = Verified(cap[r], reassembled)]
    /\ pc' = [pc EXCEPT ![r] = "agree1"]
    /\ UNCHANGED <<layout, st, opt, to, factory, cap, carried, outcome, raises>>

\* Mutant: every rank follows its own certificate.
AgreedLocally == cert

\* _agree_certificate: the all_reduce of the failure bit.
Agreed == [r \in Ranks |-> \A s \in Ranks : cert[s]]

AgreeTransport ==
    /\ At("agree1")
    /\ cert' = Agreed
    /\ pc' = [r \in Ranks |-> IF Agreed[r] THEN "commit" ELSE "abort"]
    /\ UNCHANGED <<layout, st, opt, to, factory, cap, carried, new, outcome, faults, raises>>
-----------------------------------------------------------------------------
(* Commit into the target module and stand the new wrapper up over it.     *)

\* Without a factory the target is the live module itself.
LoadedInPlace == IF factory THEN UNCHANGED st ELSE st' = new'

WrapLocal(r) ==
    /\ pc[r] = "commit" /\ to # "ddp"
    /\ LET kept == IF to = "fsdp" THEN Shard(new[r], r) ELSE new[r]
       IN \E wrapped \in Corrupted(kept) :
            /\ Corrupting(kept, wrapped)
            /\ new' = [new EXCEPT ![r] = wrapped]
    /\ IF factory THEN UNCHANGED st ELSE st' = [st EXCEPT ![r] = new'[r]]
    /\ pc' = [pc EXCEPT ![r] = "gather"]
    /\ UNCHANGED <<layout, opt, to, factory, cap, carried, cert, outcome, raises>>

\* The ddp constructor broadcasts rank 0's parameters and buffers.
WrapDDP ==
    /\ At("commit") /\ to = "ddp"
    /\ \E wrapped \in Corrupted(new[0]) :
         /\ Corrupting(new[0], wrapped)
         /\ new' = ToAll(wrapped)
    /\ LoadedInPlace
    /\ pc' = ToAll("gather")
    /\ UNCHANGED <<layout, opt, to, factory, cap, carried, cert, outcome, raises>>

\* Mutant: only the transport is verified, not what the wrapper made of it.
PostVerifySkipped(r) ==
    /\ pc[r] = "gather" /\ to # "fsdp"
    /\ pc' = [pc EXCEPT ![r] = "agree2"]
    /\ UNCHANGED <<layout, st, opt, to, factory, cap, carried, new, cert, outcome, faults, raises>>

\* extract_full_state of the new plain or ddp wrapper, verified.
PostVerifyLocal(r) ==
    /\ pc[r] = "gather" /\ to # "fsdp"
    /\ cert' = [cert EXCEPT ![r] = Verified(cap[r], new[r])]
    /\ pc' = [pc EXCEPT ![r] = "agree2"]
    /\ UNCHANGED <<layout, st, opt, to, factory, cap, carried, new, outcome, faults, raises>>

\* The same through the fsdp gather.
PostVerifyGather ==
    /\ At("gather") /\ to = "fsdp"
    /\ cert' = [r \in Ranks |-> Verified(cap[r], Gather(new, r))]
    /\ pc' = ToAll("agree2")
    /\ UNCHANGED <<layout, st, opt, to, factory, cap, carried, new, outcome, faults, raises>>

\* Mutant: a failed certificate is computed again instead of aborting.
AgreePostRetrying ==
    /\ At("agree2")
    /\ cert' = Agreed
    /\ pc' = [r \in Ranks |-> IF Agreed[r] THEN "optim" ELSE "gather"]
    /\ UNCHANGED <<layout, st, opt, to, factory, cap, carried, new, outcome, faults, raises>>

\* A failed certificate with no factory to rebuild from raises on every rank:
\* the live module is inside the new wrapper, nothing safe can be returned.
AgreePost ==
    /\ At("agree2")
    /\ cert' = Agreed
    /\ pc' = [r \in Ranks |-> CASE Agreed[r] -> "optim"
                                [] ~Agreed[r] /\ factory -> "abort"
                                [] OTHER -> "dead"]
    /\ outcome' = [r \in Ranks |->
                     IF ~Agreed[r] /\ ~factory THEN "raised" ELSE outcome[r]]
    /\ UNCHANGED <<layout, st, opt, to, factory, cap, carried, new, faults, raises>>

\* The optimizer rebuilt over the new wrapper, and what HostTrainer.reshard
\* does with the result.
Finish(r) ==
    /\ pc[r] = "optim"
    /\ st' = [st EXCEPT ![r] = new[r]]
    /\ opt' = [opt EXCEPT ![r] =
                 IF to = "fsdp" THEN Shard(carried[r], r) ELSE carried[r]]
    /\ layout' = [layout EXCEPT ![r] = to]
    /\ outcome' = [outcome EXCEPT ![r] = "commit"]
    /\ pc' = [pc EXCEPT ![r] = "idle"]
    /\ UNCHANGED <<to, factory, cap, carried, new, cert, faults, raises>>
-----------------------------------------------------------------------------
(* _abort: hand the old model back, or rebuild it in the original layout.  *)

\* Mutant: rebuilds from the reassembled state, not from the captured one.
AbortFromReassembled(r) ==
    /\ pc[r] = "abort" /\ (factory => layout[r] # "ddp")
    /\ IF factory
       THEN LET Rewrapped(full) == IF layout[r] = "fsdp" THEN Shard(full, r) ELSE full
            IN /\ st' = [st EXCEPT ![r] = Rewrapped(new[r])]
               /\ opt' = [opt EXCEPT ![r] = Rewrapped(carried[r])]
       ELSE UNCHANGED <<st, opt>>
    /\ outcome' = [outcome EXCEPT ![r] = "abort"]
    /\ pc' = [pc EXCEPT ![r] = "idle"]
    /\ UNCHANGED <<layout, to, factory, cap, carried, new, cert, faults, raises>>

\* A plain or fsdp rank, or any rank that has no factory.
AbortLocal(r) ==
    /\ pc[r] = "abort" /\ (factory => layout[r] # "ddp")
    /\ IF factory
       THEN LET Rewrapped(full) == IF layout[r] = "fsdp" THEN Shard(full, r) ELSE full
            IN /\ st' = [st EXCEPT ![r] = Rewrapped(cap[r])]
               /\ opt' = [opt EXCEPT ![r] = Rewrapped(carried[r])]
       ELSE UNCHANGED <<st, opt>>
    /\ outcome' = [outcome EXCEPT ![r] = "abort"]
    /\ pc' = [pc EXCEPT ![r] = "idle"]
    /\ UNCHANGED <<layout, to, factory, cap, carried, new, cert, faults, raises>>

\* Rewrapping in ddp runs the constructor, and its broadcast, again.
AbortDDP ==
    /\ At("abort") /\ factory /\ layout[0] = "ddp"
    /\ st' = ToAll(cap[0])
    /\ opt' = carried
    /\ outcome' = ToAll("abort")
    /\ pc' = ToAll("idle")
    /\ UNCHANGED <<layout, to, factory, cap, carried, new, cert, faults, raises>>

\* An exception on one rank: nothing catches it, and the rank's process ends.
Raise(r) ==
    /\ pc[r] \in {"transport", "commit", "gather", "optim", "abort"}
    /\ raises < MaxRaises
    /\ raises' = raises + 1
    /\ pc' = [pc EXCEPT ![r] = "dead"]
    /\ UNCHANGED <<layout, st, opt, to, factory, cap, carried, new, cert, outcome, faults>>

RankStep(r) ==
    \/ SnapshotLocal(r) \/ Transport(r) \/ WrapLocal(r) \/ PostVerifyLocal(r)
    \/ Finish(r) \/ AbortLocal(r)

GroupStep ==
    \/ SnapshotGather \/ AgreeTransport \/ WrapDDP \/ PostVerifyGather
    \/ AgreePost \/ AbortDDP

Next ==
    \/ Train
    \/ \E target \in Layouts : Start(target)
    \/ \E r \in Ranks : RankStep(r) \/ Raise(r)
    \/ GroupStep

Spec == Init /\ [][Next]_vars

\* The ranks keep executing and a collective every rank has reached completes.
Fairness == (\A r \in Ranks : WF_vars(RankStep(r))) /\ WF_vars(GroupStep)

FairSpec == Spec /\ Fairness
-----------------------------------------------------------------------------
(* What must hold.                                                         *)

\* Once one rank has committed, no rank is anywhere but on its way to the
\* same commit, and once one has aborted, none can commit: the all_reduce of
\* the two certificates (_agree_certificate) decides for the whole group,
\* also when a rank dies of an exception.
Agreement ==
    \A r, s \in Ranks :
        /\ outcome[r] = "commit" => outcome[s] = "commit" \/ pc[s] \in {"optim", "dead"}
        /\ outcome[r] = "abort" => outcome[s] = "abort" \/ pc[s] \in {"abort", "dead"}
        /\ outcome[r] = "raised" => outcome[s] = "raised"

\* No two ranks ever wait in different collectives: a rank-local decision
\* would post different collective sequences and hang the group.
WaitsIn(r) ==
    CASE pc[r] = "snapshot" /\ layout[r] = "fsdp" -> "gather the old wrapper"
      [] pc[r] \in {"agree1", "agree2"} -> pc[r]
      [] pc[r] = "commit" /\ to = "ddp" -> "construct ddp"
      [] pc[r] = "gather" /\ to = "fsdp" -> "gather the new wrapper"
      [] pc[r] = "abort" /\ factory /\ layout[r] = "ddp" -> "construct ddp again"
      [] OTHER -> "nothing"

CollectivesMatch ==
    \A r, s \in Ranks :
        "nothing" \notin {WaitsIn(r), WaitsIn(s)} => WaitsIn(r) = WaitsIn(s)

\* The state a rank reads back is the captured one, up to the tolerance of
\* the certificate; the momenta are the carried ones, under fsdp those of
\* each parameter's owner (no certificate compares them).
HoldsCaptured(r) ==
    /\ Close(Logical(layout[r], st, r), cap[r])
    /\ Logical(layout[r], opt, r) = Logical(layout[r], carried, r)

\* A committed reshard preserves the state on every rank, no tensor further
\* off than the certificate's tolerance (verify-before-commit).
CommitPreservesState ==
    At("idle") => \A r \in Ranks : outcome[r] = "commit" => HoldsCaptured(r)

\* An aborted reshard leaves every rank at its last verified state, exactly,
\* but that rewrapping a ddp group gives every rank rank 0's: other buffers,
\* and the rank's own parameters as long as the replicas were in step.
Restored(r) == IF layout[r] = "ddp" /\ factory THEN cap[0] ELSE cap[r]

AbortRestoresState ==
    At("idle") => \A r \in Ranks : outcome[r] = "abort" =>
        /\ Logical(layout[r], st, r) = Restored(r)
        /\ Logical(layout[r], opt, r) = carried[r]

\* Every reshard ends on every rank, unless a rank dies on the way: no
\* decision leaves a rank waiting for the others.
ReshardTerminates == []<>(At("idle") \/ \E r \in Ranks : pc[r] = "dead")

-----------------------------------------------------------------------------
(* The group seen as one atomic reshard: until the last rank has returned, *)
(* it counts as holding what it captured, in the old layout.               *)

Unfinished == CHOOSE r \in Ranks : pc[r] # "idle"

GroupMode == IF At("idle") THEN layout[0] ELSE layout[Unfinished]

Content ==
    [r \in Ranks |-> IF At("idle") \/ cap[r] = Nothing
                     THEN Logical(layout[r], st, r) ELSE cap[r]]

Moments ==
    [r \in Ranks |-> IF At("idle") \/ carried[r] = Nothing
                     THEN Logical(layout[r], opt, r) ELSE carried[r]]

Atomic == INSTANCE AtomicReshard WITH
    mode <- GroupMode, moving <- ~At("idle"), goal <- to,
    content <- Content, moments <- Moments

\* Every behaviour of the ranks is a behaviour of the atomic reshard.
IsAtomic == Atomic!ASpec
-----------------------------------------------------------------------------
(* The inductive invariant: the group moves through the phases of a call   *)
(* together, and every rank holds the data its place in the code relies on.*)

OneLayout == \A r, s \in Ranks : layout[r] = layout[s]

\* Every rank is in one of locs, or died there.
Within(locs) ==
    \A r \in Ranks : pc[r] \in locs \cup {"dead"} /\ outcome[r] = "none"

Resting ==
    /\ \A r \in Ranks : pc[r] = "idle" /\ outcome[r] = "none"
    /\ OneLayout

Capturing ==
    /\ Within({"snapshot", "transport", "agree1"})
    /\ OneLayout
    /\ \A r \in Ranks : layout[r] = "fsdp" =>
          At("snapshot") \/ \A s \in Ranks : pc[s] # "snapshot"

Installing ==
    /\ Within({"commit", "gather", "agree2"})
    /\ OneLayout
    /\ to = "ddp" => Within({"commit"}) \/ Within({"gather", "agree2"})
    /\ to = "fsdp" => Within({"commit", "gather"}) \/ Within({"agree2"})

\* The decision is taken: ranks return one by one, with the same outcome.
Committing ==
    \A r \in Ranks :
        \/ pc[r] \in {"optim", "dead"} /\ outcome[r] = "none"
        \/ pc[r] = "idle" /\ outcome[r] = "commit" /\ layout[r] = to

Aborting ==
    /\ \A r \in Ranks :
        \/ pc[r] \in {"abort", "dead"} /\ outcome[r] = "none"
        \/ pc[r] = "idle" /\ outcome[r] = "abort"
    /\ OneLayout

Raising ==
    \A r \in Ranks : pc[r] = "dead" /\ outcome[r] = "raised"

PhaseInv ==
    \/ Resting \/ Capturing \/ Installing \/ Committing \/ Aborting \/ Raising

\* A rank misses a tensor only because fsdp keeps it elsewhere.
Whole(mode, local, r) ==
    \A e \in DOMAIN local :
        local[e] = Freed => mode = "fsdp" /\ e \in Params /\ Owner[e] # r

DataInv ==
    \A r \in Ranks :
        /\ factory \/ pc[r] \notin {"gather", "agree2", "optim", "dead"} =>
             Whole(layout[r], st[r], r)
        /\ Whole(layout[r], opt[r], r)
        /\ pc[r] \notin {"idle", "snapshot", "dead"} =>
             cap[r] \in FullState /\ carried[r] \in FullOptim
        /\ pc[r] \in {"agree1", "commit"} => new[r] \in FullState
        /\ pc[r] \in {"gather", "agree2", "optim"} =>
             new[r] \in LocalState /\ Whole(to, new[r], r)

IInv == TypeOK /\ PhaseInv /\ DataInv
=============================================================================
