--------------------------- MODULE LiveRewrapProofs ---------------------------
(***************************************************************************)
(* Proofs about LiveRewrap for every group size, model, owner map and      *)
(* bound: type correctness, that the group decides as one, that commits    *)
(* keep the training state within the certificate's tolerance and aborts   *)
(* restore it, and that the group's reshard is an atomic step.             *)
(***************************************************************************)
EXTENDS LiveRewrap, TLAPS

-----------------------------------------------------------------------------
(* Typing of the state operators.                                          *)

\* The round trip through float32 keeps a full state a full state.
LEMMA RoundTripType ==
    ASSUME NEW full \in FullState
    PROVE  RoundTrip(full) \in FullState
<1>1. ASSUME NEW v \in Values PROVE F32(v) \in Values
  BY StateAssumption DEF F32
<1>2. QED  BY <1>1 DEF RoundTrip, FullState

\* Sharding a full state leaves a local state.
LEMMA ShardType ==
    ASSUME NEW r \in Ranks
    PROVE  /\ \A full \in FullState : Shard(full, r) \in LocalState
           /\ \A full \in LocalState : Shard(full, r) \in LocalState
           /\ \A full \in FullOptim : Shard(full, r) \in LocalOptim
  BY DEF Shard, FullState, LocalState, FullOptim, LocalOptim

\* Corrupting one tensor keeps a local state a local state.
LEMMA CorruptedType ==
    ASSUME NEW s \in LocalState, NEW c \in Corrupted(s)
    PROVE  c \in LocalState
  BY DEF Corrupted, LocalState

\* A full state is a local state that misses nothing.
LEMMA FullIsWhole ==
    /\ FullState \subseteq LocalState
    /\ FullOptim \subseteq LocalOptim
    /\ \A mode : \A r \in Ranks : \A full \in FullState : Whole(mode, full, r)
    /\ \A mode : \A r \in Ranks : \A full \in FullOptim : Whole(mode, full, r)
  BY StateAssumption DEF FullState, LocalState, FullOptim, LocalOptim, Whole

\* A local state that misses nothing and is not sharded is a full state.
LEMMA WholeIsFull ==
    ASSUME NEW mode, mode # "fsdp", NEW r \in Ranks
    PROVE  /\ \A s \in LocalState : Whole(mode, s, r) => s \in FullState
           /\ \A s \in LocalOptim : Whole(mode, s, r) => s \in FullOptim
  BY StateAssumption DEF FullState, LocalState, FullOptim, LocalOptim, Whole

\* Sharding a full state for rank r leaves what r must hold under fsdp.
LEMMA ShardWhole ==
    ASSUME NEW r \in Ranks
    PROVE  /\ \A full \in FullState : Whole("fsdp", Shard(full, r), r)
           /\ \A full \in FullOptim : Whole("fsdp", Shard(full, r), r)
  BY StateAssumption DEF FullState, FullOptim, Whole, Shard, Entries

\* The gather finds every tensor: its owner never gave it away.
LEMMA GatherFull ==
    ASSUME NEW r \in Ranks, NEW mode \in [Ranks -> Layouts]
    PROVE  /\ \A local \in [Ranks -> LocalState] :
                 (\A x \in Ranks : Whole(mode[x], local[x], x))
                   => Gather(local, r) \in FullState
           /\ \A local \in [Ranks -> LocalOptim] :
                 (\A x \in Ranks : Whole(mode[x], local[x], x))
                   => Gather(local, r) \in FullOptim
<1>1. \A e \in Params : Owner[e] \in Ranks
  BY StateAssumption
<1>2. ASSUME NEW local \in [Ranks -> LocalState],
             \A x \in Ranks : Whole(mode[x], local[x], x),
             NEW e \in Entries
      PROVE  (IF e \in Params THEN local[Owner[e]][e] ELSE local[r][e]) \in Values
  <2>1. CASE e \in Params
    BY <1>1, <1>2, <2>1 DEF Whole, LocalState, Entries
  <2>2. CASE e \notin Params
    BY <1>2, <2>2 DEF Whole, LocalState
  <2>3. QED  BY <2>1, <2>2
<1>3. ASSUME NEW local \in [Ranks -> LocalOptim],
             \A x \in Ranks : Whole(mode[x], local[x], x),
             NEW e \in Params
      PROVE  local[Owner[e]][e] \in Momenta
  BY <1>1, <1>3 DEF Whole, LocalOptim
<1>4. QED
  BY <1>2, <1>3 DEF Gather, FullState, FullOptim, LocalState, LocalOptim
-----------------------------------------------------------------------------
(* The inductive invariant.                                                *)

\* What training leaves on a rank is what its layout requires.
LEMMA ReachableWhole ==
    ASSUME NEW mode \in Layouts,
           NEW local \in ReachableStates(mode), NEW steps \in ReachableOptims(mode)
    PROVE  /\ local \in [Ranks -> LocalState] /\ steps \in [Ranks -> LocalOptim]
           /\ mode # "fsdp" => local \in [Ranks -> FullState] /\ steps \in [Ranks -> FullOptim]
           /\ \A r \in Ranks : Whole(mode, local[r], r) /\ Whole(mode, steps[r], r)
<1>1. [Entries -> Learned] \subseteq FullState
  BY StateAssumption DEF FullState
<1>2. [Entries -> Learned \cup {Freed}] \subseteq LocalState
  BY StateAssumption DEF LocalState
<1>3. CASE mode = "fsdp"
  <2>1. /\ local \in [Ranks -> [Entries -> Learned \cup {Freed}]]
        /\ \A r \in Ranks : \A e \in DOMAIN local[r] :
              local[r][e] = Freed <=> e \in Params /\ Owner[e] # r
    BY <1>3 DEF ReachableStates, ShardedStates, Shards
  <2>2. /\ steps \in [Ranks -> LocalOptim]
        /\ \A r \in Ranks : \A e \in DOMAIN steps[r] :
              steps[r][e] = Freed <=> e \in Params /\ Owner[e] # r
    BY <1>3 DEF ReachableOptims, ShardedOptims, Shards
  <2>3. QED  BY <1>2, <1>3, <2>1, <2>2 DEF Whole
<1>4. CASE mode # "fsdp"
  <2>1. local \in [Ranks -> FullState] /\ steps \in [Ranks -> FullOptim]
    BY <1>1, <1>4 DEF ReachableStates, ReachableOptims
  <2>2. QED  BY <1>4, <2>1, FullIsWhole
<1>5. QED  BY <1>3, <1>4

LEMMA InitInv == Init => IInv
<1> SUFFICES ASSUME Init PROVE IInv
  OBVIOUS
<1> USE DEF Init
<1>1. /\ st \in [Ranks -> FullState] /\ opt \in [Ranks -> FullOptim]
      /\ st \in [Ranks -> LocalState] /\ opt \in [Ranks -> LocalOptim]
  BY ReachableWhole DEF Layouts
<1>2. TypeOK
  BY <1>1, RewrapAssumption
     DEF TypeOK, ToAll, Locations, Layouts, Outcomes, Nothing
<1>3. PhaseInv
  BY DEF PhaseInv, Resting, OneLayout, ToAll
<1>4. DataInv
  BY <1>1, FullIsWhole DEF DataInv, ToAll
<1>5. QED  BY <1>2, <1>3, <1>4 DEF IInv

\* Between calls the whole group is in one layout.
LEMMA IdleOneLayout == IInv /\ At("idle") => OneLayout /\ layout[0] \in Layouts
<1> SUFFICES ASSUME IInv, At("idle") PROVE OneLayout /\ layout[0] \in Layouts
  OBVIOUS
<1>1. 0 \in Ranks
  BY StateAssumption DEF Ranks
<1>2. layout[0] \in Layouts
  BY <1>1 DEF IInv, TypeOK
<1>3. ~Capturing /\ ~Installing /\ ~Raising
  BY <1>1 DEF Capturing, Installing, Raising, Within, At
<1>4. CASE Resting \/ Aborting
  BY <1>2, <1>4 DEF Resting, Aborting
<1>5. CASE Committing
  BY <1>2, <1>5 DEF Committing, At, OneLayout
<1>6. QED  BY <1>3, <1>4, <1>5 DEF IInv, PhaseInv

\* Training changes no rank's place and keeps what its layout requires.
LEMMA TrainInv == IInv /\ Train => IInv'
<1> SUFFICES ASSUME IInv, Train PROVE IInv'
  OBVIOUS
<1> USE DEF Train
<1>1. OneLayout /\ layout[0] \in Layouts
  BY IdleOneLayout
<1>2. /\ st' \in [Ranks -> LocalState] /\ opt' \in [Ranks -> LocalOptim]
      /\ \A r \in Ranks : Whole(layout[0], st'[r], r) /\ Whole(layout[0], opt'[r], r)
  BY <1>1, ReachableWhole
<1>3. TypeOK'
  BY <1>2, RewrapAssumption DEF IInv, TypeOK, ToAll, Outcomes
<1>4. PhaseInv'
  BY <1>1 DEF PhaseInv, Resting, OneLayout, ToAll, At
<1>5. \A r \in Ranks : Whole(layout[r], st'[r], r) /\ Whole(layout[r], opt'[r], r)
  <2>1. 0 \in Ranks
    BY StateAssumption DEF Ranks
  <2>2. QED  BY <1>1, <1>2, <2>1 DEF OneLayout
<1>6. DataInv'
  BY <1>3, <1>5 DEF IInv, DataInv, At
<1>7. QED  BY <1>3, <1>4, <1>6 DEF IInv

\* A call starts with every rank at the snapshot.
LEMMA StartInv == ASSUME NEW target \in Layouts
                  PROVE  IInv /\ Start(target) => IInv'
<1> SUFFICES ASSUME IInv, Start(target) PROVE IInv'
  OBVIOUS
<1> USE DEF Start
<1>1. TypeOK'
  BY RewrapAssumption DEF IInv, TypeOK, ToAll, Outcomes, Locations
<1>2. OneLayout
  BY IdleOneLayout
<1>3. PhaseInv'
  BY <1>2 DEF PhaseInv, Capturing, Within, OneLayout, ToAll, At
<1>4. DataInv'
  BY DEF IInv, DataInv, At, ToAll
<1>5. QED  BY <1>1, <1>3, <1>4 DEF IInv

\* The place of one rank tells the phase of the group.
LEMMA PhaseOf ==
    ASSUME IInv, NEW r \in Ranks
    PROVE  /\ pc[r] \in {"snapshot", "transport", "agree1"} => Capturing
           /\ pc[r] \in {"commit", "gather", "agree2"} => Installing
           /\ pc[r] = "optim" => Committing
           /\ pc[r] = "abort" => Aborting
  BY DEF IInv, PhaseInv, Resting, Capturing, Installing, Committing, Aborting,
         Raising, Within

LEMMA SnapshotLocalInv ==
    ASSUME NEW r \in Ranks
    PROVE  IInv /\ SnapshotLocal(r) => IInv'
<1> SUFFICES ASSUME IInv, SnapshotLocal(r) PROVE IInv'
  OBVIOUS
<1> USE DEF SnapshotLocal
<1>1. st[r] \in FullState /\ opt[r] \in FullOptim
  BY WholeIsFull DEF IInv, TypeOK, DataInv
<1>2. TypeOK'
  BY <1>1 DEF IInv, TypeOK, Locations
<1>3. PhaseInv'
  BY PhaseOf DEF IInv, TypeOK, PhaseInv, Capturing, Within, OneLayout
<1>4. DataInv'
  BY <1>1 DEF IInv, TypeOK, DataInv
<1>5. QED  BY <1>2, <1>3, <1>4 DEF IInv

LEMMA SnapshotGatherInv == IInv /\ SnapshotGather => IInv'
<1> SUFFICES ASSUME IInv, SnapshotGather PROVE IInv'
  OBVIOUS
<1> USE DEF SnapshotGather
<1>1. \A r \in Ranks : Gather(st, r) \in FullState /\ Gather(opt, r) \in FullOptim
  BY GatherFull DEF IInv, TypeOK, DataInv, At
<1>2. TypeOK'
  BY <1>1 DEF IInv, TypeOK, Locations, ToAll
<1>3. 0 \in Ranks
  BY StateAssumption DEF Ranks
<1>4. PhaseInv'
  BY <1>3, PhaseOf DEF IInv, TypeOK, PhaseInv, Capturing, Within, OneLayout, At, ToAll
<1>5. DataInv'
  BY <1>1 DEF IInv, TypeOK, DataInv, ToAll, At
<1>6. QED  BY <1>2, <1>4, <1>5 DEF IInv

LEMMA TransportInv ==
    ASSUME NEW r \in Ranks
    PROVE  IInv /\ Transport(r) => IInv'
<1> SUFFICES ASSUME IInv, Transport(r) PROVE IInv'
  OBVIOUS
<1> USE DEF Transport
<1>1. RoundTrip(cap[r]) \in FullState
  BY RoundTripType DEF IInv, DataInv
<1>2. PICK made \in Corrupted(RoundTrip(cap[r])) :
         /\ Corrupting(RoundTrip(cap[r]), made)
         /\ new' = [new EXCEPT ![r] = made]
         /\ cert' = [cert EXCEPT ![r] = Verified(cap[r], made)]
  OBVIOUS
<1>3. made \in FullState
  BY <1>1 DEF Corrupted, FullState
<1>4. faults' \in 0 .. MaxFaults
  BY <1>2, RewrapAssumption DEF Corrupting, IInv, TypeOK
<1>5. TypeOK'
  BY <1>2, <1>3, <1>4, FullIsWhole DEF IInv, TypeOK, Locations, Verified
<1>6. PhaseInv'
  BY PhaseOf DEF IInv, TypeOK, PhaseInv, Capturing, Within, OneLayout, At
<1>7. DataInv'
  BY <1>2, <1>3 DEF IInv, TypeOK, DataInv
<1>8. QED  BY <1>5, <1>6, <1>7 DEF IInv

LEMMA AgreeTransportInv == IInv /\ AgreeTransport => IInv'
<1> SUFFICES ASSUME IInv, AgreeTransport PROVE IInv'
  OBVIOUS
<1> USE DEF AgreeTransport
<1>1. TypeOK'
  BY DEF IInv, TypeOK, Locations, Agreed
<1>2. 0 \in Ranks
  BY StateAssumption DEF Ranks
<1>3. Capturing
  BY <1>2, PhaseOf DEF At
<1>4. PhaseInv'
  <2>1. CASE \A s \in Ranks : cert[s]
    <3>1. Installing'
      BY <1>3, <2>1 DEF Agreed, Installing, Capturing, Within, OneLayout
    <3>2. QED  BY <3>1 DEF PhaseInv
  <2>2. CASE ~\A s \in Ranks : cert[s]
    <3>1. Aborting'
      BY <1>3, <2>2 DEF Agreed, Aborting, Capturing, Within, OneLayout
    <3>2. QED  BY <3>1 DEF PhaseInv
  <2>3. QED  BY <2>1, <2>2
<1>5. DataInv'
  BY DEF IInv, TypeOK, DataInv, At
<1>6. QED  BY <1>1, <1>4, <1>5 DEF IInv

LEMMA WrapLocalInv ==
    ASSUME NEW r \in Ranks
    PROVE  IInv /\ WrapLocal(r) => IInv'
<1> SUFFICES ASSUME IInv, WrapLocal(r) PROVE IInv'
  OBVIOUS
<1> USE DEF WrapLocal
<1> DEFINE kept == IF to = "fsdp" THEN Shard(new[r], r) ELSE new[r]
<1>1. kept \in LocalState /\ Whole(to, kept, r)
  BY ShardType, ShardWhole, FullIsWhole DEF IInv, DataInv
<1>2. PICK wrapped \in Corrupted(kept) :
         Corrupting(kept, wrapped) /\ new' = [new EXCEPT ![r] = wrapped]
  OBVIOUS
<1>3. wrapped \in LocalState /\ Whole(to, wrapped, r)
  <2>1. wrapped \in LocalState
    BY <1>1, <1>2, CorruptedType
  <2>2. \A e \in DOMAIN wrapped : wrapped[e] = Freed => kept[e] = Freed
    BY <1>1, StateAssumption DEF Corrupted, LocalState
  <2>3. DOMAIN wrapped = DOMAIN kept
    BY <1>1, <2>1 DEF LocalState
  <2>4. QED  BY <1>1, <2>1, <2>2, <2>3 DEF Whole
<1>4. faults' \in 0 .. MaxFaults
  BY <1>2, RewrapAssumption DEF Corrupting, IInv, TypeOK
<1>5. new'[r] = wrapped /\ new' \in [Ranks -> LocalState \cup {Nothing}]
  BY <1>2, <1>3 DEF IInv, TypeOK
<1>6. TypeOK'
  BY <1>3, <1>4, <1>5 DEF IInv, TypeOK, Locations
<1>7. PhaseInv'
  <2>1. Installing
    BY PhaseOf
  <2>2. Installing'
    BY <2>1 DEF IInv, TypeOK, Installing, Within, OneLayout
  <2>3. QED  BY <2>2 DEF PhaseInv
<1>8. DataInv'
  BY <1>2, <1>3, <1>5 DEF IInv, TypeOK, DataInv
<1>9. QED  BY <1>6, <1>7, <1>8 DEF IInv

LEMMA WrapDDPInv == IInv /\ WrapDDP => IInv'
<1> SUFFICES ASSUME IInv, WrapDDP PROVE IInv'
  OBVIOUS
<1> USE DEF WrapDDP
<1>1. 0 \in Ranks
  BY StateAssumption DEF Ranks
<1>2. new[0] \in FullState
  BY <1>1 DEF IInv, DataInv, At
<1>3. PICK wrapped \in Corrupted(new[0]) :
         Corrupting(new[0], wrapped) /\ new' = ToAll(wrapped)
  OBVIOUS
<1>4. wrapped \in FullState
  BY <1>2, <1>3 DEF Corrupted, FullState
<1>5. faults' \in 0 .. MaxFaults
  BY <1>3, RewrapAssumption DEF Corrupting, IInv, TypeOK
<1>6. new' \in [Ranks -> FullState] /\ st' \in [Ranks -> LocalState]
  BY <1>3, <1>4, FullIsWhole DEF LoadedInPlace, IInv, TypeOK, ToAll
<1>7. TypeOK'
  BY <1>5, <1>6, FullIsWhole DEF IInv, TypeOK, Locations, ToAll
<1>8. PhaseInv'
  <2>1. Installing
    BY <1>1, PhaseOf DEF At
  <2>2. Installing'
    BY <2>1 DEF Installing, Within, OneLayout, ToAll, At
  <2>3. QED  BY <2>2 DEF PhaseInv
<1>9. DataInv'
  <2>1. ASSUME NEW r \in Ranks
        PROVE  /\ new'[r] \in LocalState /\ Whole(to', new'[r], r)
               /\ factory => st'[r] = st[r]
    BY <1>6, FullIsWhole DEF LoadedInPlace
  <2>2. QED  BY <2>1 DEF IInv, TypeOK, DataInv, ToAll, At
<1>10. QED  BY <1>7, <1>8, <1>9 DEF IInv

LEMMA PostVerifyLocalInv ==
    ASSUME NEW r \in Ranks
    PROVE  IInv /\ PostVerifyLocal(r) => IInv'
<1> SUFFICES ASSUME IInv, PostVerifyLocal(r) PROVE IInv'
  OBVIOUS
<1> USE DEF PostVerifyLocal
<1>1. TypeOK'
  BY DEF IInv, TypeOK, Locations, Verified
<1>2. Installing
  BY PhaseOf
<1>3. Installing'
  BY <1>2 DEF IInv, TypeOK, Installing, Within, OneLayout
<1>4. DataInv'
  BY DEF IInv, TypeOK, DataInv
<1>5. QED  BY <1>1, <1>3, <1>4 DEF IInv, PhaseInv

LEMMA PostVerifyGatherInv == IInv /\ PostVerifyGather => IInv'
<1> SUFFICES ASSUME IInv, PostVerifyGather PROVE IInv'
  OBVIOUS
<1> USE DEF PostVerifyGather
<1>1. TypeOK'
  BY DEF IInv, TypeOK, Locations, Verified, ToAll
<1>2. 0 \in Ranks
  BY StateAssumption DEF Ranks
<1>3. Installing
  BY <1>2, PhaseOf DEF At
<1>4. Installing'
  BY <1>3 DEF Installing, Within, OneLayout, ToAll, At
<1>5. DataInv'
  BY DEF IInv, TypeOK, DataInv, ToAll, At
<1>6. QED  BY <1>1, <1>4, <1>5 DEF IInv, PhaseInv

LEMMA AgreePostInv == IInv /\ AgreePost => IInv'
<1> SUFFICES ASSUME IInv, AgreePost PROVE IInv'
  OBVIOUS
<1> USE DEF AgreePost
<1>1. TypeOK'
  BY DEF IInv, TypeOK, Locations, Outcomes, Agreed
<1>2. 0 \in Ranks
  BY StateAssumption DEF Ranks
<1>3. Installing
  BY <1>2, PhaseOf DEF At
<1>4. PhaseInv'
  <2>1. CASE \A s \in Ranks : cert[s]
    <3>1. Committing'
      BY <1>3, <2>1 DEF Agreed, Installing, Committing, Within, OneLayout
    <3>2. QED  BY <3>1 DEF PhaseInv
  <2>2. CASE (~\A s \in Ranks : cert[s]) /\ factory
    <3>1. Aborting'
      BY <1>3, <2>2 DEF Agreed, Installing, Aborting, Within, OneLayout
    <3>2. QED  BY <3>1 DEF PhaseInv
  <2>3. CASE (~\A s \in Ranks : cert[s]) /\ ~factory
    <3>1. Raising'
      BY <2>3 DEF Agreed, Raising
    <3>2. QED  BY <3>1 DEF PhaseInv
  <2>4. QED  BY <2>1, <2>2, <2>3
<1>5. DataInv'
  BY DEF IInv, TypeOK, DataInv, At, Agreed
<1>6. QED  BY <1>1, <1>4, <1>5 DEF IInv

LEMMA FinishInv ==
    ASSUME NEW r \in Ranks
    PROVE  IInv /\ Finish(r) => IInv'
<1> SUFFICES ASSUME IInv, Finish(r) PROVE IInv'
  OBVIOUS
<1> USE DEF Finish
<1> DEFINE kept == IF to = "fsdp" THEN Shard(carried[r], r) ELSE carried[r]
<1>1. /\ new[r] \in LocalState /\ Whole(to, new[r], r)
      /\ kept \in LocalOptim /\ Whole(to, kept, r)
  BY ShardType, ShardWhole, FullIsWhole DEF IInv, DataInv
<1>2. TypeOK'
  BY <1>1 DEF IInv, TypeOK, Locations, Outcomes
<1>3. Committing
  BY PhaseOf
<1>4. Committing'
  BY <1>3 DEF IInv, TypeOK, Committing
<1>5. DataInv'
  BY <1>1 DEF IInv, TypeOK, DataInv
<1>6. QED  BY <1>2, <1>4, <1>5 DEF IInv, PhaseInv

LEMMA AbortLocalInv ==
    ASSUME NEW r \in Ranks
    PROVE  IInv /\ AbortLocal(r) => IInv'
<1> SUFFICES ASSUME IInv, AbortLocal(r) PROVE IInv'
  OBVIOUS
<1> USE DEF AbortLocal
<1>1. /\ st'[r] \in LocalState /\ Whole(layout[r], st'[r], r)
      /\ opt'[r] \in LocalOptim /\ Whole(layout[r], opt'[r], r)
      /\ \A s \in Ranks \ {r} : st'[s] = st[s] /\ opt'[s] = opt[s]
      /\ st' \in [Ranks -> LocalState] /\ opt' \in [Ranks -> LocalOptim]
  <2>1. CASE factory
    <3>1. cap[r] \in FullState /\ carried[r] \in FullOptim
      BY DEF IInv, DataInv
    <3>2. CASE layout[r] = "fsdp"
      BY <2>1, <3>1, <3>2, ShardType, ShardWhole DEF IInv, TypeOK
    <3>3. CASE layout[r] # "fsdp"
      BY <2>1, <3>1, <3>3, FullIsWhole DEF IInv, TypeOK
    <3>4. QED  BY <3>2, <3>3
  <2>2. CASE ~factory
    BY <2>2 DEF IInv, TypeOK, DataInv
  <2>3. QED  BY <2>1, <2>2
<1>2. TypeOK'
  BY <1>1 DEF IInv, TypeOK, Locations, Outcomes
<1>3. Aborting
  BY PhaseOf
<1>4. Aborting'
  BY <1>3 DEF IInv, TypeOK, Aborting, OneLayout
<1>5. DataInv'
  BY <1>1 DEF IInv, TypeOK, DataInv
<1>6. QED  BY <1>2, <1>4, <1>5 DEF IInv, PhaseInv

LEMMA AbortDDPInv == IInv /\ AbortDDP => IInv'
<1> SUFFICES ASSUME IInv, AbortDDP PROVE IInv'
  OBVIOUS
<1> USE DEF AbortDDP
<1>1. 0 \in Ranks
  BY StateAssumption DEF Ranks
<1>2. cap[0] \in FullState /\ \A r \in Ranks : carried[r] \in FullOptim
  BY <1>1 DEF IInv, DataInv, At
<1>3. TypeOK'
  BY <1>2, FullIsWhole DEF IInv, TypeOK, Locations, Outcomes, ToAll
<1>4. Aborting
  BY <1>1, PhaseOf DEF At
<1>5. Aborting'
  BY <1>4 DEF Aborting, OneLayout, ToAll
<1>6. DataInv'
  BY <1>2, FullIsWhole DEF IInv, TypeOK, DataInv, ToAll
<1>7. QED  BY <1>3, <1>5, <1>6 DEF IInv, PhaseInv

LEMMA RaiseInv ==
    ASSUME NEW r \in Ranks
    PROVE  IInv /\ Raise(r) => IInv'
<1> SUFFICES ASSUME IInv, Raise(r) PROVE IInv'
  OBVIOUS
<1> USE DEF Raise
<1>1. TypeOK'
  BY RewrapAssumption DEF IInv, TypeOK, Locations
<1>2. PhaseInv'
  <2>1. CASE Capturing
    <3>1. Capturing'
      BY <2>1 DEF IInv, TypeOK, Capturing, Within, OneLayout, At
    <3>2. QED  BY <3>1 DEF PhaseInv
  <2>2. CASE Installing
    <3>1. Installing'
      BY <2>2 DEF IInv, TypeOK, Installing, Within, OneLayout
    <3>2. QED  BY <3>1 DEF PhaseInv
  <2>3. CASE Committing
    <3>1. Committing'
      BY <2>3 DEF IInv, TypeOK, Committing
    <3>2. QED  BY <3>1 DEF PhaseInv
  <2>4. CASE Aborting
    <3>1. Aborting'
      BY <2>4 DEF IInv, TypeOK, Aborting, OneLayout
    <3>2. QED  BY <3>1 DEF PhaseInv
  <2>5. QED  BY <2>1, <2>2, <2>3, <2>4, PhaseOf
<1>3. DataInv'
  BY DEF IInv, TypeOK, DataInv
<1>4. QED  BY <1>1, <1>2, <1>3 DEF IInv

LEMMA StutterInv == IInv /\ UNCHANGED vars => IInv'
  BY DEF IInv, vars, TypeOK, PhaseInv, Resting, Capturing, Installing, Committing,
         Aborting, Raising, Within, OneLayout, At, DataInv

-----------------------------------------------------------------------------
(* The theorems.                                                           *)

\* The invariant behind all of them holds throughout.
THEOREM Invariance == Spec => []IInv
<1>1. IInv /\ [Next]_vars => IInv'
  <2> SUFFICES ASSUME IInv, [Next]_vars PROVE IInv'
    OBVIOUS
  <2>1. CASE Train
    BY <2>1, TrainInv
  <2>2. ASSUME NEW target \in Layouts, Start(target) PROVE IInv'
    BY <2>2, StartInv
  <2>3. ASSUME NEW r \in Ranks, RankStep(r) \/ Raise(r) PROVE IInv'
    BY <2>3, SnapshotLocalInv, TransportInv, WrapLocalInv, PostVerifyLocalInv,
       FinishInv, AbortLocalInv, RaiseInv DEF RankStep
  <2>4. CASE GroupStep
    BY <2>4, SnapshotGatherInv, AgreeTransportInv, WrapDDPInv, PostVerifyGatherInv,
       AgreePostInv, AbortDDPInv DEF GroupStep
  <2>5. CASE UNCHANGED vars
    BY <2>5, StutterInv
  <2>6. QED  BY <2>1, <2>2, <2>3, <2>4, <2>5 DEF Next
<1>2. QED  BY InitInv, <1>1, PTL DEF Spec

\* The values of every variable stay of their type, for any group.
THEOREM TypeCorrect == Spec => []TypeOK
<1>1. IInv => TypeOK
  BY DEF IInv
<1>2. QED  BY Invariance, <1>1, PTL

\* Whatever the certificates say and whichever ranks die, no rank commits a
\* reshard that another one aborts.
THEOREM AllOrNothing == Spec => []Agreement
<1>1. IInv => Agreement
  BY DEF IInv, PhaseInv, Resting, Capturing, Installing, Committing, Aborting,
         Raising, Within, Agreement
<1>2. QED  BY Invariance, <1>1, PTL

\* No two ranks ever wait in different collectives.
THEOREM NoCollectiveMismatch == Spec => []CollectivesMatch
<1>1. IInv => CollectivesMatch
  <2> SUFFICES ASSUME IInv, NEW r \in Ranks, NEW s \in Ranks,
                      WaitsIn(r) # "nothing", WaitsIn(s) # "nothing"
               PROVE  WaitsIn(r) = WaitsIn(s)
    BY DEF CollectivesMatch
  <2>1. CASE Resting \/ Committing \/ Raising
    BY <2>1 DEF Resting, Committing, Raising, WaitsIn
  <2>2. CASE Capturing
    BY <2>2 DEF Capturing, Within, OneLayout, At, WaitsIn
  <2>3. CASE Installing
    BY <2>3 DEF Installing, Within, WaitsIn
  <2>4. CASE Aborting
    BY <2>4 DEF Aborting, OneLayout, WaitsIn
  <2>5. QED  BY <2>1, <2>2, <2>3, <2>4 DEF IInv, PhaseInv
<1>2. QED  BY Invariance, <1>1, PTL

-----------------------------------------------------------------------------
(* What a call keeps, on top of IInv: which state each rank holds, by how  *)
(* far the group is.  Exact is what a certificate needs for its tolerance  *)
(* to be about the tensors themselves and not their float32 images.        *)

Exact == Values \subseteq 0 .. F32Exact

SameParams(a, b) == \A x \in Params : a[x] = b[x]

\* Some rank has not been through the first agreement.
Gathering == \E r \in Ranks : pc[r] \in {"snapshot", "transport", "agree1"}

\* Rank r has captured its state, and is under the new wrapper.
Captured(r) == pc[r] \notin {"idle", "snapshot"} \/ outcome[r] # "none"
Wrapped(r) == pc[r] \in {"gather", "agree2", "optim"} \/ outcome[r] = "commit"

\* Rank r still reads back what it captured.
ReadsCaptured(r) ==
    /\ Logical(layout[r], st, r) = cap[r]
    /\ Logical(layout[r], opt, r) = carried[r]

\* Ranks that read through one gather captured the same parameters and momenta.
GatheredAlike(r, s) ==
    "commit" \notin {outcome[r], outcome[s]} /\ layout[r] = "fsdp" =>
        SameParams(cap[r], cap[s]) /\ carried[r] = carried[s]

CaptureInv ==
    /\ \A r \in Ranks : Captured(r) =>
         /\ cap[r] \in FullState /\ carried[r] \in FullOptim
         /\ Gathering => ReadsCaptured(r)
    /\ \A r, s \in Ranks : Captured(r) /\ Captured(s) => GatheredAlike(r, s)

CommitInv ==
    /\ \A r \in Ranks : Exact /\ ((pc[r] = "agree2" /\ cert[r]) \/ pc[r] = "optim" \/ outcome[r] = "commit")
         => Close(Logical(to, new, r), cap[r])
    /\ to = "ddp" => \A r, s \in Ranks : Wrapped(r) /\ Wrapped(s) => new[r] = new[s]
    /\ \A r \in Ranks : outcome[r] = "commit" =>
         /\ layout[r] = to /\ st[r] = new[r]
         /\ opt[r] = IF to = "fsdp" THEN Shard(carried[r], r) ELSE carried[r]

AbortInv ==
    /\ \A r, s \in Ranks : "idle" \notin {pc[r], pc[s]} => layout[r] = layout[s]
    /\ \A r \in Ranks :
         /\ layout[r] = "fsdp" /\ (pc[r] # "idle" \/ outcome[r] = "abort") => factory
         /\ pc[r] = "abort" /\ ~factory => st[r] = cap[r] /\ opt[r] = carried[r]
         /\ outcome[r] = "abort" =>
              /\ st[r] = CASE layout[r] = "fsdp" -> Shard(cap[r], r)
                           [] factory /\ layout[r] = "ddp" -> cap[0]
                           [] OTHER -> cap[r]
              /\ opt[r] = IF layout[r] = "fsdp" THEN Shard(carried[r], r) ELSE carried[r]

KeepInv == CaptureInv /\ CommitInv /\ AbortInv

-----------------------------------------------------------------------------
(* What is read back through a wrapper.                                    *)

\* If a 32-bit float represents everything, a certificate bounds what changed.
LEMMA VerifiedClose ==
    ASSUME Exact, NEW a \in FullState, NEW b \in FullState, Verified(a, b)
    PROVE  Close(b, a)
<1>1. ASSUME NEW e \in Entries PROVE Near(b[e], a[e])
  <2>1. a[e] \in 0 .. F32Exact /\ b[e] \in 0 .. F32Exact /\ TensorMatches(a[e], b[e])
    BY DEF Exact, FullState, Verified
  <2>2. NaN \notin {a[e], b[e]}
    BY <2>1, StateAssumption
  <2>3. F32(a[e]) = a[e] /\ F32(b[e]) = b[e]
    BY <2>1, StateAssumption DEF F32
  <2>4. Distance(b[e], a[e]) <= Atol
    BY <2>1, <2>2, <2>3, StateAssumption DEF TensorMatches, Distance
  <2>5. QED  BY <2>2, <2>4 DEF Near
<1>2. QED  BY <1>1 DEF Close

\* Every rank gathers the same parameters, and the same optimizer.
LEMMA GatherSame ==
    ASSUME NEW local \in [Ranks -> LocalState], NEW steps \in [Ranks -> LocalOptim],
           NEW r \in Ranks, NEW s \in Ranks
    PROVE  /\ SameParams(Gather(local, r), Gather(local, s))
           /\ Gather(steps, r) = Gather(steps, s)
<1>1. \A q \in Ranks : DOMAIN local[q] = Entries /\ DOMAIN steps[q] = Params
  BY DEF LocalState, LocalOptim
<1>2. QED  BY <1>1 DEF SameParams, Gather, Entries

\* What ranks with the same parameters shard, each gathers back.
LEMMA GatherSharded ==
    ASSUME NEW full, NEW local, NEW r \in Ranks,
           \A q \in Ranks : local[q] = Shard(full[q], q)
    PROVE  /\ /\ \A q \in Ranks : full[q] \in FullState
              /\ \A q, s \in Ranks : SameParams(full[q], full[s])
              => Gather(local, r) = full[r]
           /\ /\ \A q \in Ranks : full[q] \in FullOptim
              /\ \A q, s \in Ranks : full[q] = full[s]
              => Gather(local, r) = full[r]
<1>1. \A e \in Params : Owner[e] \in Ranks
  BY StateAssumption
<1>2. ASSUME \A q \in Ranks : full[q] \in FullState,
             \A q, s \in Ranks : SameParams(full[q], full[s])
      PROVE  Gather(local, r) = full[r]
  <2>1. DOMAIN local[r] = Entries /\ DOMAIN full[r] = Entries
    BY <1>2 DEF Shard, FullState
  <2>2. ASSUME NEW e \in Params PROVE local[Owner[e]][e] = full[r][e]
    <3>1. e \in DOMAIN full[Owner[e]]
      BY <1>1, <1>2, SMTT(30) DEF FullState, Entries
    <3>2. local[Owner[e]] = Shard(full[Owner[e]], Owner[e])
      BY <1>1
    <3>3. local[Owner[e]][e] = full[Owner[e]][e]
      BY <3>1, <3>2 DEF Shard
    <3>4. QED  BY <1>1, <1>2, <3>3 DEF SameParams
  <2>3. ASSUME NEW e \in Entries, e \notin Params PROVE local[r][e] = full[r][e]
    <3>1. local[r] = Shard(full[r], r) /\ e \in DOMAIN full[r]
      BY <2>1
    <3>2. QED  BY <2>3, <3>1 DEF Shard
  <2>4. full[r] = [e \in Entries |-> full[r][e]]
    BY <1>2 DEF FullState
  <2>5. QED  BY <2>1, <2>2, <2>3, <2>4 DEF Gather
<1>3. ASSUME \A q \in Ranks : full[q] \in FullOptim,
             \A q, s \in Ranks : full[q] = full[s]
      PROVE  Gather(local, r) = full[r]
  <2>1. DOMAIN local[r] = Params /\ full[r] = [e \in Params |-> full[r][e]]
    BY <1>3 DEF Shard, FullOptim
  <2>2. ASSUME NEW e \in Params PROVE local[Owner[e]][e] = full[r][e]
    <3>1. e \in DOMAIN full[Owner[e]]
      BY <1>1, <1>3 DEF FullOptim
    <3>2. local[Owner[e]] = Shard(full[Owner[e]], Owner[e])
      BY <1>1
    <3>3. local[Owner[e]][e] = full[Owner[e]][e]
      BY <3>1, <3>2 DEF Shard
    <3>4. QED  BY <1>1, <1>3, <3>3
  <2>3. QED  BY <2>1, <2>2 DEF Gather
<1>4. QED  BY <1>2, <1>3
-----------------------------------------------------------------------------
(* What the group reads while nothing has been installed.                  *)

\* The phases of IInv, by the place of one rank.
LEMMA GatheringPhase == IInv /\ Gathering => Capturing /\ OneLayout
  BY PhaseOf DEF Gathering, Capturing

LEMMA InitKeep == Init => KeepInv
<1> SUFFICES ASSUME Init PROVE KeepInv
  OBVIOUS
<1>1. \A r \in Ranks : layout[r] = "plain" /\ pc[r] = "idle" /\ outcome[r] = "none"
  BY DEF Init, ToAll
<1>2. QED
  BY <1>1 DEF KeepInv, CaptureInv, CommitInv, AbortInv, Captured, Wrapped

LEMMA TrainKeep == IInv /\ KeepInv /\ Train => KeepInv'
<1> SUFFICES ASSUME IInv, KeepInv, Train PROVE KeepInv'
  OBVIOUS
<1>1. OneLayout
  BY IdleOneLayout DEF Train
<1>2. \A r \in Ranks : layout'[r] = layout[r] /\ pc'[r] = "idle" /\ outcome'[r] = "none"
  BY DEF Train, At, ToAll
<1>3. QED
  BY <1>1, <1>2 DEF KeepInv, CaptureInv, CommitInv, AbortInv, Captured, Wrapped

LEMMA StartKeep == ASSUME NEW target \in Layouts
                   PROVE  IInv /\ KeepInv /\ Start(target) => KeepInv'
<1> SUFFICES ASSUME IInv, KeepInv, Start(target) PROVE KeepInv'
  OBVIOUS
<1>1. OneLayout /\ 0 \in Ranks
  BY IdleOneLayout, StateAssumption DEF Start, Ranks
<1>2. \A r \in Ranks : pc'[r] = "snapshot" /\ outcome'[r] = "none"
  BY DEF Start, ToAll
<1>3. UNCHANGED <<layout, st, opt>> /\ (layout[0] = "fsdp" => factory')
  BY DEF Start
<1>4. QED
  BY <1>1, <1>2, <1>3
     DEF KeepInv, CaptureInv, CommitInv, AbortInv, Captured, Wrapped, OneLayout
-----------------------------------------------------------------------------
(* The capture.                                                            *)

LEMMA SnapshotLocalKeep ==
    ASSUME NEW r \in Ranks
    PROVE  IInv /\ KeepInv /\ SnapshotLocal(r) => KeepInv'
<1> SUFFICES ASSUME IInv, KeepInv, SnapshotLocal(r) PROVE KeepInv'
  OBVIOUS
<1>1. Capturing /\ OneLayout /\ Gathering
  BY GatheringPhase DEF Gathering, SnapshotLocal
<1>2. /\ UNCHANGED <<layout, st, opt, to, factory, new, cert, outcome>>
      /\ pc'[r] = "transport" /\ pc[r] = "snapshot"
      /\ \A q \in Ranks \ {r} : pc'[q] = pc[q] /\ cap'[q] = cap[q] /\ carried'[q] = carried[q]
      /\ cap'[r] = st[r] /\ carried'[r] = opt[r] /\ layout[r] # "fsdp"
  BY DEF SnapshotLocal, IInv, TypeOK
<1>3. \A q \in Ranks : Captured(q)' => q = r \/ Captured(q)
  BY <1>2 DEF Captured
<1>4. \A q \in Ranks : layout[q] # "fsdp"
  BY <1>1, <1>2 DEF OneLayout
<1>5. ASSUME NEW q \in Ranks, Captured(q)'
      PROVE  /\ cap'[q] \in FullState /\ carried'[q] \in FullOptim
             /\ Logical(layout[q], st, q) = cap'[q] /\ Logical(layout[q], opt, q) = carried'[q]
  <2>1. CASE q = r
    <3>1. st[r] \in FullState /\ opt[r] \in FullOptim
      BY <1>2, WholeIsFull DEF IInv, TypeOK, DataInv
    <3>2. QED  BY <1>2, <2>1, <3>1 DEF Logical
  <2>2. CASE q # r
    BY <1>1, <1>2, <1>3, <1>5, <2>2 DEF KeepInv, CaptureInv, ReadsCaptured
  <2>3. QED  BY <2>1, <2>2
<1>6. ASSUME NEW q \in Ranks, NEW s \in Ranks, Captured(q)', Captured(s)'
      PROVE  GatheredAlike(q, s)'
  BY <1>2, <1>4 DEF GatheredAlike
<1>7. CaptureInv'
  BY <1>2, <1>5, <1>6 DEF CaptureInv, ReadsCaptured
<1>8. CommitInv' /\ AbortInv'
  BY <1>1, <1>2 DEF KeepInv, CommitInv, AbortInv, Capturing, Within, Wrapped
<1>9. QED  BY <1>7, <1>8 DEF KeepInv

LEMMA SnapshotGatherKeep == IInv /\ KeepInv /\ SnapshotGather => KeepInv'
<1> SUFFICES ASSUME IInv, KeepInv, SnapshotGather PROVE KeepInv'
  OBVIOUS
<1>1. Capturing /\ OneLayout /\ Gathering /\ 0 \in Ranks
  BY GatheringPhase, StateAssumption DEF Gathering, SnapshotGather, At, Ranks
<1>2. /\ UNCHANGED <<layout, st, opt, to, factory, new, cert, outcome>>
      /\ \A q \in Ranks : /\ pc'[q] = "transport" /\ pc[q] = "snapshot" /\ layout[q] = "fsdp"
                          /\ cap'[q] = Gather(st, q) /\ carried'[q] = Gather(opt, q)
  BY <1>1 DEF SnapshotGather, ToAll, At, OneLayout
<1>3. /\ st \in [Ranks -> LocalState] /\ opt \in [Ranks -> LocalOptim]
      /\ layout \in [Ranks -> Layouts]
  BY DEF IInv, TypeOK
<1>4. ASSUME NEW q \in Ranks
      PROVE  /\ cap'[q] \in FullState /\ carried'[q] \in FullOptim
             /\ Logical(layout[q], st, q) = cap'[q] /\ Logical(layout[q], opt, q) = carried'[q]
  <2>1. Gather(st, q) \in FullState /\ Gather(opt, q) \in FullOptim
    BY <1>2, <1>3, GatherFull DEF IInv, DataInv
  <2>2. QED  BY <1>2, <2>1 DEF Logical
<1>5. ASSUME NEW q \in Ranks, NEW s \in Ranks
      PROVE  GatheredAlike(q, s)'
  BY <1>2, <1>3, GatherSame DEF GatheredAlike
<1>6. CaptureInv'
  BY <1>2, <1>4, <1>5 DEF CaptureInv, ReadsCaptured
<1>7. CommitInv' /\ AbortInv'
  BY <1>1, <1>2 DEF KeepInv, CommitInv, AbortInv, Capturing, Within, Wrapped
<1>8. QED  BY <1>6, <1>7 DEF KeepInv

LEMMA TransportKeep ==
    ASSUME NEW r \in Ranks
    PROVE  IInv /\ KeepInv /\ Transport(r) => KeepInv'
<1> SUFFICES ASSUME IInv, KeepInv, Transport(r) PROVE KeepInv'
  OBVIOUS
<1>1. Capturing /\ OneLayout /\ Gathering
  BY GatheringPhase DEF Gathering, Transport
<1>2. /\ UNCHANGED <<layout, st, opt, to, factory, cap, carried, outcome>>
      /\ pc'[r] = "agree1" /\ pc[r] = "transport"
      /\ \A q \in Ranks \ {r} : pc'[q] = pc[q]
  BY DEF Transport, IInv, TypeOK
<1>3. \A q \in Ranks : Captured(q)' => Captured(q)
  BY <1>2 DEF Captured
<1>4. CaptureInv'
  BY <1>1, <1>2, <1>3 DEF KeepInv, CaptureInv, ReadsCaptured, GatheredAlike
<1>5. CommitInv' /\ AbortInv'
  BY <1>1, <1>2 DEF KeepInv, CommitInv, AbortInv, Capturing, Within, Wrapped
<1>6. QED  BY <1>4, <1>5 DEF KeepInv

\* The first agreement: an abort without a factory finds the model untouched.
LEMMA AgreeTransportKeep == IInv /\ KeepInv /\ AgreeTransport => KeepInv'
<1> SUFFICES ASSUME IInv, KeepInv, AgreeTransport PROVE KeepInv'
  OBVIOUS
<1>1. Capturing /\ OneLayout /\ Gathering /\ 0 \in Ranks
  BY GatheringPhase, StateAssumption DEF Gathering, AgreeTransport, At, Ranks
<1>2. /\ UNCHANGED <<layout, st, opt, to, factory, cap, carried, new, outcome>>
      /\ \A q \in Ranks : pc[q] = "agree1" /\ pc'[q] \in {"commit", "abort"}
  BY DEF AgreeTransport, At
<1>3. \A q \in Ranks : Captured(q) /\ ReadsCaptured(q) /\ outcome[q] = "none"
  BY <1>1, <1>2 DEF KeepInv, CaptureInv, Captured, Capturing, Within
<1>4. ~Gathering' /\ ~At("idle")'
  BY <1>1, <1>2 DEF Gathering, At
<1>5. CaptureInv'
  BY <1>2, <1>3, <1>4 DEF KeepInv, CaptureInv, GatheredAlike
<1>6. CommitInv'
  BY <1>2, <1>3 DEF CommitInv, Wrapped
<1>7. AbortInv'
  BY <1>1, <1>2, <1>3 DEF KeepInv, AbortInv, OneLayout, ReadsCaptured, Logical
<1>8. QED  BY <1>5, <1>6, <1>7 DEF KeepInv
-----------------------------------------------------------------------------
(* Under the new wrapper nothing that was captured changes any more.       *)

\* Steps that keep the captured states and the optimizers in place.
InstallStep ==
    /\ UNCHANGED <<layout, to, factory, cap, carried>>
    /\ \A q \in Ranks : outcome[q] = "none" /\ Captured(q)
    /\ ~Gathering' /\ ~At("idle")'

LEMMA InstallKeeps == KeepInv /\ InstallStep => CaptureInv'
<1> SUFFICES ASSUME KeepInv, InstallStep PROVE CaptureInv'
  OBVIOUS
<1>1. \A q \in Ranks : cap'[q] \in FullState /\ carried'[q] \in FullOptim
  BY DEF KeepInv, CaptureInv, InstallStep
<1>2. ASSUME NEW q \in Ranks, NEW s \in Ranks PROVE GatheredAlike(q, s)'
  BY DEF KeepInv, CaptureInv, InstallStep, GatheredAlike
<1>3. QED  BY <1>1, <1>2 DEF CaptureInv, InstallStep

LEMMA InstallingCaptured == Installing => ~Gathering /\ \A q \in Ranks : outcome[q] = "none" /\ Captured(q)
  BY DEF Installing, Within, Captured, Gathering

LEMMA WrapLocalKeep ==
    ASSUME NEW r \in Ranks
    PROVE  IInv /\ KeepInv /\ WrapLocal(r) => KeepInv'
<1> SUFFICES ASSUME IInv, KeepInv, WrapLocal(r) PROVE KeepInv'
  OBVIOUS
<1>1. Installing
  BY PhaseOf DEF WrapLocal
<1>2. /\ UNCHANGED <<layout, opt, to, factory, cap, carried, cert, outcome>>
      /\ pc'[r] = "gather" /\ pc[r] = "commit" /\ to # "ddp"
      /\ \A q \in Ranks \ {r} : pc'[q] = pc[q] /\ new'[q] = new[q]
  BY DEF WrapLocal, IInv, TypeOK
<1>3. InstallStep
  BY <1>1, <1>2, InstallingCaptured DEF InstallStep, Gathering, At
<1>4. \A q \in Ranks : pc'[q] = "agree2" => to # "fsdp" /\ q # r /\ pc[q] = "agree2"
  BY <1>1, <1>2 DEF Installing, Within
<1>5. CommitInv'
  BY <1>1, <1>2, <1>4 DEF KeepInv, CommitInv, Installing, Within, Logical
<1>6. AbortInv'
  BY <1>1, <1>2 DEF KeepInv, AbortInv, Installing, Within
<1>7. QED  BY <1>3, <1>5, <1>6, InstallKeeps DEF KeepInv

LEMMA WrapDDPKeep == IInv /\ KeepInv /\ WrapDDP => KeepInv'
<1> SUFFICES ASSUME IInv, KeepInv, WrapDDP PROVE KeepInv'
  OBVIOUS
<1>1. Installing /\ 0 \in Ranks
  BY PhaseOf, StateAssumption DEF WrapDDP, At, Ranks
<1>2. /\ UNCHANGED <<layout, opt, to, factory, cap, carried, cert, outcome>>
      /\ \A q \in Ranks : pc'[q] = "gather" /\ pc[q] = "commit"
      /\ \A q, s \in Ranks : new'[q] = new'[s]
  BY DEF WrapDDP, At, ToAll
<1>3. InstallStep
  BY <1>1, <1>2, InstallingCaptured DEF InstallStep, Gathering, At
<1>4. CommitInv' /\ AbortInv'
  BY <1>1, <1>2 DEF KeepInv, CommitInv, AbortInv, Installing, Within
<1>5. QED  BY <1>3, <1>4, InstallKeeps DEF KeepInv

LEMMA PostVerifyLocalKeep ==
    ASSUME NEW r \in Ranks
    PROVE  IInv /\ KeepInv /\ PostVerifyLocal(r) => KeepInv'
<1> SUFFICES ASSUME IInv, KeepInv, PostVerifyLocal(r) PROVE KeepInv'
  OBVIOUS
<1>1. Installing
  BY PhaseOf DEF PostVerifyLocal
<1>2. /\ UNCHANGED <<layout, st, opt, to, factory, cap, carried, new, outcome>>
      /\ pc'[r] = "agree2" /\ pc[r] = "gather" /\ to # "fsdp"
      /\ cert'[r] = Verified(cap[r], new[r])
      /\ \A q \in Ranks \ {r} : pc'[q] = pc[q] /\ cert'[q] = cert[q]
  BY DEF PostVerifyLocal, IInv, TypeOK
<1>3. InstallStep
  BY <1>1, <1>2, InstallingCaptured DEF InstallStep, Gathering, At
<1>4. Exact /\ cert'[r] => Close(Logical(to, new, r), cap[r])
  <2>1. cap[r] \in FullState /\ new[r] \in FullState
    BY <1>2, WholeIsFull DEF IInv, DataInv
  <2>2. QED  BY <1>2, <2>1, VerifiedClose DEF Logical
<1>5. CommitInv'
  BY <1>1, <1>2, <1>4 DEF KeepInv, CommitInv, Installing, Within, Wrapped
<1>6. AbortInv'
  BY <1>1, <1>2 DEF KeepInv, AbortInv, Installing, Within
<1>7. QED  BY <1>3, <1>5, <1>6, InstallKeeps DEF KeepInv

LEMMA PostVerifyGatherKeep == IInv /\ KeepInv /\ PostVerifyGather => KeepInv'
<1> SUFFICES ASSUME IInv, KeepInv, PostVerifyGather PROVE KeepInv'
  OBVIOUS
<1>1. Installing /\ 0 \in Ranks
  BY PhaseOf, StateAssumption DEF PostVerifyGather, At, Ranks
<1>2. /\ UNCHANGED <<layout, st, opt, to, factory, cap, carried, new, outcome>>
      /\ to = "fsdp"
      /\ \A q \in Ranks : /\ pc'[q] = "agree2" /\ pc[q] = "gather"
                          /\ cert'[q] = Verified(cap[q], Gather(new, q))
  BY DEF PostVerifyGather, At, ToAll
<1>3. InstallStep
  BY <1>1, <1>2, InstallingCaptured DEF InstallStep, Gathering, At
<1>4. ASSUME NEW r \in Ranks
      PROVE  Exact /\ cert'[r] => Close(Logical(to, new, r), cap[r])
  <2>1. /\ cap[r] \in FullState
        /\ \A q \in Ranks : new[q] \in LocalState /\ Whole("fsdp", new[q], q)
    BY <1>2 DEF IInv, DataInv
  <2>2. new \in [Ranks -> LocalState]
    BY <2>1 DEF IInv, TypeOK
  <2>3. Gather(new, r) \in FullState
    <3>1. [q \in Ranks |-> "fsdp"] \in [Ranks -> Layouts]
      BY DEF Layouts
    <3>2. QED  BY <2>1, <2>2, <3>1, GatherFull
  <2>4. QED  BY <1>2, <2>1, <2>3, VerifiedClose DEF Logical
<1>5. CommitInv' /\ AbortInv'
  BY <1>1, <1>2, <1>4 DEF KeepInv, CommitInv, AbortInv, Installing, Within, Wrapped
<1>6. QED  BY <1>3, <1>5, InstallKeeps DEF KeepInv

\* The second agreement: every rank's certificate is about what it will keep.
LEMMA AgreePostKeep == IInv /\ KeepInv /\ AgreePost => KeepInv'
<1> SUFFICES ASSUME IInv, KeepInv, AgreePost PROVE KeepInv'
  OBVIOUS
<1>1. Installing /\ 0 \in Ranks
  BY PhaseOf, StateAssumption DEF AgreePost, At, Ranks
<1>2. /\ UNCHANGED <<layout, st, opt, to, factory, cap, carried, new>>
      /\ \A q \in Ranks : /\ pc[q] = "agree2" /\ pc'[q] \in {"optim", "abort", "dead"}
                          /\ outcome[q] = "none" /\ outcome'[q] \in {"none", "raised"}
                          /\ pc'[q] = "optim" => cert[q]
                          /\ pc'[q] = "abort" => factory
  BY <1>1 DEF AgreePost, At, Agreed, Installing, Within
<1>3. ~Gathering' /\ ~At("idle")' /\ \A q \in Ranks : Captured(q)
  BY <1>1, <1>2 DEF Gathering, At, Captured
<1>4. CaptureInv'
  BY <1>2, <1>3 DEF KeepInv, CaptureInv, GatheredAlike
<1>5. CommitInv' /\ AbortInv'
  BY <1>2 DEF KeepInv, CommitInv, AbortInv, Wrapped
<1>6. QED  BY <1>4, <1>5 DEF KeepInv
-----------------------------------------------------------------------------
(* The ends of a call.                                                     *)

Pairs == \A r, s \in Ranks : GatheredAlike(r, s)
AllFull == \A r \in Ranks : cap[r] \in FullState /\ carried[r] \in FullOptim

\* A group that has committed holds what it captured, within the tolerance.
LEMMA CommittedHolds ==
    Exact /\ TypeOK /\ AllFull /\ CommitInv /\ (\A r \in Ranks : outcome[r] = "commit")
      => \A r \in Ranks : HoldsCaptured(r)
<1> SUFFICES ASSUME Exact, TypeOK, AllFull, CommitInv, \A r \in Ranks : outcome[r] = "commit",
                    NEW r \in Ranks
             PROVE  HoldsCaptured(r)
  OBVIOUS
<1>1. \A q \in Ranks : layout[q] = to /\ st[q] = new[q]
  BY DEF CommitInv
<1>2. \A e \in Params : Owner[e] \in Ranks
  BY StateAssumption
<1>3. Close(Logical(to, st, r), cap[r])
  <2>1. Gather(st, r) = Gather(new, r)
    BY <1>1, <1>2 DEF Gather, TypeOK, LocalState
  <2>2. Logical(to, st, r) = Logical(to, new, r)
    BY <1>1, <2>1 DEF Logical
  <2>3. QED  BY <2>2 DEF CommitInv
<1>4. CASE to = "fsdp"
  <2>1. \A q \in Ranks : opt[q] = Shard(carried[q], q) /\ DOMAIN carried[q] = Params
    BY <1>4 DEF CommitInv, AllFull, FullOptim
  <2>2. ASSUME NEW e \in Params PROVE opt[Owner[e]][e] = carried[Owner[e]][e]
    <3>1. opt[Owner[e]] = Shard(carried[Owner[e]], Owner[e]) /\ e \in DOMAIN carried[Owner[e]]
      BY <1>2, <2>1
    <3>2. QED  BY <3>1 DEF Shard
  <2>3. DOMAIN opt[r] = Params
    BY DEF TypeOK, LocalOptim
  <2>4. Gather(opt, r) = Gather(carried, r)
    BY <2>1, <2>2, <2>3 DEF Gather
  <2>5. QED  BY <1>1, <1>3, <1>4, <2>4 DEF HoldsCaptured, Logical
<1>5. CASE to # "fsdp"
  BY <1>1, <1>3, <1>5 DEF HoldsCaptured, Logical, CommitInv
<1>6. QED  BY <1>4, <1>5

\* A group that has aborted reads what it captured, or rank 0's under ddp.
RestoredTo(r) ==
    /\ Logical(layout[r], st, r) = Restored(r)
    /\ Logical(layout[r], opt, r) = carried[r]

LEMMA AbortedHolds ==
    OneLayout /\ Pairs /\ AllFull /\ AbortInv /\ (\A r \in Ranks : outcome[r] = "abort")
      => \A r \in Ranks : RestoredTo(r)
<1> SUFFICES ASSUME OneLayout, Pairs, AllFull, AbortInv,
                    \A r \in Ranks : outcome[r] = "abort",
                    NEW r \in Ranks
             PROVE  RestoredTo(r)
  OBVIOUS
<1>1. \A q, s \in Ranks : layout[q] = layout[s]
  BY DEF OneLayout
<1>2. CASE layout[r] = "fsdp"
  <2>1. \A q \in Ranks : st[q] = Shard(cap[q], q) /\ opt[q] = Shard(carried[q], q)
    BY <1>1, <1>2 DEF AbortInv
  <2>2. \A q, s \in Ranks : SameParams(cap[q], cap[s]) /\ carried[q] = carried[s]
    BY <1>1, <1>2 DEF Pairs, GatheredAlike
  <2>3. Gather(st, r) = cap[r]
    BY <2>1, <2>2, GatherSharded DEF AllFull
  <2>4. Gather(opt, r) = carried[r]
    BY <2>1, <2>2, GatherSharded DEF AllFull
  <2>5. QED  BY <1>2, <2>3, <2>4 DEF RestoredTo, Restored, Logical
<1>3. CASE layout[r] # "fsdp"
  BY <1>3 DEF AbortInv, RestoredTo, Restored, Logical
<1>4. QED  BY <1>2, <1>3

\* The phases of IInv once a decision is taken.
LEMMA EndingPhase ==
    ASSUME IInv, NEW r \in Ranks
    PROVE  /\ pc[r] = "optim" => Committing /\ ~Gathering /\ \A q \in Ranks : Captured(q)
           /\ pc[r] = "abort" => Aborting /\ OneLayout /\ ~Gathering /\ \A q \in Ranks : Captured(q)
<1>1. pc[r] = "optim" => Committing
  BY DEF IInv, PhaseInv, Resting, Capturing, Installing, Aborting, Raising, Within
<1>2. pc[r] = "abort" => Aborting
  BY DEF IInv, PhaseInv, Resting, Capturing, Installing, Committing, Raising, Within
<1>3. QED
  BY <1>1, <1>2 DEF Committing, Aborting, Gathering, Captured

LEMMA FinishKeep ==
    ASSUME NEW r \in Ranks
    PROVE  IInv /\ KeepInv /\ Finish(r) => KeepInv'
<1> SUFFICES ASSUME IInv, KeepInv, Finish(r) PROVE KeepInv'
  OBVIOUS
<1>1. Committing /\ ~Gathering /\ \A q \in Ranks : Captured(q)
  BY EndingPhase DEF Finish
<1>2. /\ UNCHANGED <<to, factory, cap, carried, new, cert>>
      /\ pc[r] = "optim" /\ pc'[r] = "idle" /\ outcome'[r] = "commit" /\ layout'[r] = to
      /\ st'[r] = new[r] /\ opt'[r] = IF to = "fsdp" THEN Shard(carried[r], r) ELSE carried[r]
      /\ \A q \in Ranks \ {r} : /\ pc'[q] = pc[q] /\ outcome'[q] = outcome[q]
                                /\ layout'[q] = layout[q] /\ st'[q] = st[q] /\ opt'[q] = opt[q]
  BY DEF Finish, IInv, TypeOK
<1>3. Pairs' /\ AllFull'
  BY <1>1, <1>2 DEF KeepInv, CaptureInv, Pairs, AllFull, GatheredAlike
<1>4. ~Gathering'
  BY <1>1, <1>2 DEF Gathering
<1>5. CaptureInv'
  BY <1>3, <1>4 DEF CaptureInv, Pairs, AllFull
<1>6. CommitInv'
  BY <1>2 DEF KeepInv, CommitInv, Wrapped, Logical
<1>7. AbortInv'
  BY <1>1, <1>2 DEF KeepInv, AbortInv, Committing
<1>8. QED  BY <1>5, <1>6, <1>7 DEF KeepInv

LEMMA AbortLocalKeep ==
    ASSUME NEW r \in Ranks
    PROVE  IInv /\ KeepInv /\ AbortLocal(r) => KeepInv'
<1> SUFFICES ASSUME IInv, KeepInv, AbortLocal(r) PROVE KeepInv'
  OBVIOUS
<1>1. Aborting /\ OneLayout /\ ~Gathering /\ \A q \in Ranks : Captured(q)
  BY EndingPhase DEF AbortLocal
<1>2. /\ UNCHANGED <<layout, to, factory, cap, carried, new, cert>>
      /\ pc[r] = "abort" /\ pc'[r] = "idle" /\ outcome[r] = "none" /\ outcome'[r] = "abort"
      /\ \A q \in Ranks \ {r} : /\ pc'[q] = pc[q] /\ outcome'[q] = outcome[q]
                                /\ st'[q] = st[q] /\ opt'[q] = opt[q]
  BY <1>1 DEF AbortLocal, IInv, TypeOK, Aborting
<1>3. Pairs' /\ AllFull'
  BY <1>1, <1>2 DEF KeepInv, CaptureInv, Pairs, AllFull, GatheredAlike
<1>4. ~Gathering'
  BY <1>1, <1>2 DEF Gathering
<1>5. CaptureInv'
  BY <1>3, <1>4 DEF CaptureInv, Pairs, AllFull
<1>6. CommitInv'
  BY <1>1, <1>2 DEF KeepInv, CommitInv, Wrapped, Logical, Aborting
<1>7. AbortInv'
  <2>1. /\ st'[r] = CASE layout[r] = "fsdp" -> Shard(cap[r], r)
                      [] factory /\ layout[r] = "ddp" -> cap[0]
                      [] OTHER -> cap[r]
        /\ opt'[r] = IF layout[r] = "fsdp" THEN Shard(carried[r], r) ELSE carried[r]
    <3>1. CASE factory
      BY <3>1 DEF AbortLocal, IInv, TypeOK
    <3>2. CASE ~factory
      <4>1. layout[r] # "fsdp" /\ st[r] = cap[r] /\ opt[r] = carried[r]
        BY <1>2, <3>2 DEF KeepInv, AbortInv
      <4>2. QED  BY <3>2, <4>1 DEF AbortLocal
    <3>3. QED  BY <3>1, <3>2
  <2>2. QED  BY <1>2, <2>1 DEF KeepInv, AbortInv
<1>8. QED  BY <1>5, <1>6, <1>7 DEF KeepInv

LEMMA AbortDDPKeep == IInv /\ KeepInv /\ AbortDDP => KeepInv'
<1> SUFFICES ASSUME IInv, KeepInv, AbortDDP PROVE KeepInv'
  OBVIOUS
<1>0. 0 \in Ranks
  BY StateAssumption DEF Ranks
<1>1. Aborting /\ OneLayout /\ ~Gathering /\ \A q \in Ranks : Captured(q)
  BY <1>0, EndingPhase DEF AbortDDP, At
<1>2. /\ UNCHANGED <<layout, to, factory, cap, carried, new, cert>>
      /\ factory /\ opt' = carried
      /\ \A q \in Ranks : /\ pc[q] = "abort" /\ pc'[q] = "idle" /\ outcome'[q] = "abort"
                          /\ layout[q] = "ddp" /\ st'[q] = cap[0]
  BY <1>0, <1>1 DEF AbortDDP, At, ToAll, OneLayout
<1>3. Pairs' /\ AllFull'
  BY <1>1, <1>2 DEF KeepInv, CaptureInv, Pairs, AllFull, GatheredAlike, Aborting
<1>4. ~Gathering'
  BY <1>2 DEF Gathering
<1>5. CaptureInv'
  BY <1>3, <1>4 DEF CaptureInv, Pairs, AllFull
<1>6. CommitInv'
  BY <1>2 DEF CommitInv, Wrapped
<1>7. AbortInv'
  BY <1>2 DEF AbortInv
<1>8. QED  BY <1>5, <1>6, <1>7 DEF KeepInv

LEMMA RaiseKeep ==
    ASSUME NEW r \in Ranks
    PROVE  IInv /\ KeepInv /\ Raise(r) => KeepInv'
<1> SUFFICES ASSUME IInv, KeepInv, Raise(r) PROVE KeepInv'
  OBVIOUS
<1>1. /\ UNCHANGED <<layout, st, opt, to, factory, cap, carried, new, cert, outcome>>
      /\ pc[r] \in {"transport", "commit", "gather", "optim", "abort"} /\ pc'[r] = "dead"
      /\ \A q \in Ranks \ {r} : pc'[q] = pc[q]
  BY DEF Raise, IInv, TypeOK
<1>2. /\ Gathering' => Gathering
      /\ ~At("idle")'
      /\ \A q \in Ranks : (Captured(q)' => Captured(q)) /\ (Wrapped(q)' => Wrapped(q))
  BY <1>1 DEF Gathering, At, Captured, Wrapped
<1>3. CaptureInv'
  BY <1>1, <1>2 DEF KeepInv, CaptureInv, ReadsCaptured, GatheredAlike
<1>4. CommitInv'
  BY <1>1, <1>2 DEF KeepInv, CommitInv
<1>5. AbortInv'
  BY <1>1 DEF KeepInv, AbortInv
<1>6. QED  BY <1>3, <1>4, <1>5 DEF KeepInv

LEMMA StutterKeep == KeepInv /\ UNCHANGED vars => KeepInv'
  BY DEF vars, KeepInv, CaptureInv, CommitInv, AbortInv, Gathering, Captured, Wrapped,
         ReadsCaptured, GatheredAlike

\* No step loses what a call has captured.
LEMMA KeepStep == IInv /\ KeepInv /\ [Next]_vars => KeepInv'
<1> SUFFICES ASSUME IInv, KeepInv, [Next]_vars PROVE KeepInv'
  OBVIOUS
<1>1. CASE Train
  BY <1>1, TrainKeep
<1>2. ASSUME NEW target \in Layouts, Start(target) PROVE KeepInv'
  BY <1>2, StartKeep
<1>3. ASSUME NEW r \in Ranks, RankStep(r) \/ Raise(r) PROVE KeepInv'
  BY <1>3, SnapshotLocalKeep, TransportKeep, WrapLocalKeep, PostVerifyLocalKeep,
     FinishKeep, AbortLocalKeep, RaiseKeep DEF RankStep
<1>4. CASE GroupStep
  BY <1>4, SnapshotGatherKeep, AgreeTransportKeep, WrapDDPKeep, PostVerifyGatherKeep,
     AgreePostKeep, AbortDDPKeep DEF GroupStep
<1>5. CASE UNCHANGED vars
  BY <1>5, StutterKeep
<1>6. QED  BY <1>1, <1>2, <1>3, <1>4, <1>5 DEF Next

\* The certificates, the phases and the kept states support each other.
THEOREM KeepInvariance == Spec => [](IInv /\ KeepInv)
  BY Invariance, InitKeep, KeepStep, PTL DEF Spec

\* The invariant at rest: a group that rests is one that committed, aborted or trained.
LEMMA AtRest ==
    IInv /\ KeepInv /\ At("idle")
      => \/ \A r \in Ranks : outcome[r] = "none"
         \/ (\A r \in Ranks : outcome[r] = "commit") /\ Pairs /\ AllFull
         \/ (\A r \in Ranks : outcome[r] = "abort") /\ Pairs /\ AllFull /\ OneLayout
<1> SUFFICES ASSUME IInv, KeepInv, At("idle")
             PROVE  \/ \A r \in Ranks : outcome[r] = "none"
                    \/ (\A r \in Ranks : outcome[r] = "commit") /\ Pairs /\ AllFull
                    \/ (\A r \in Ranks : outcome[r] = "abort") /\ Pairs /\ AllFull /\ OneLayout
  OBVIOUS
<1>1. \/ \A r \in Ranks : outcome[r] = "none"
      \/ \A r \in Ranks : outcome[r] = "commit"
      \/ (\A r \in Ranks : outcome[r] = "abort") /\ OneLayout
  BY DEF IInv, PhaseInv, Resting, Capturing, Installing, Committing, Aborting,
         Raising, Within, At
<1>2. ASSUME \A r \in Ranks : outcome[r] # "none" PROVE Pairs /\ AllFull
  BY <1>2 DEF KeepInv, CaptureInv, Captured, Pairs, AllFull
<1>3. QED  BY <1>1, <1>2

\* A rank that committed reads back what it captured, no tensor further off
\* than the certificate's tolerance, as long as a 32-bit float represents
\* every value a tensor may have; and the momenta its ranks carried.
THEOREM CommitsPreserve == ASSUME Exact PROVE Spec => []CommitPreservesState
<1>1. IInv /\ KeepInv => CommitPreservesState
  <2> SUFFICES ASSUME IInv, KeepInv, At("idle"), NEW r \in Ranks, outcome[r] = "commit"
               PROVE  HoldsCaptured(r)
    BY DEF CommitPreservesState
  <2>1. (\A q \in Ranks : outcome[q] = "commit") /\ Pairs /\ AllFull
    BY AtRest
  <2>2. QED  BY <2>1, CommittedHolds DEF IInv, KeepInv
<1>2. QED  BY <1>1, KeepInvariance, PTL

\* A rank that aborted reads back exactly what it captured, or, in a ddp
\* group that was wrapped again, what rank 0 did; whatever the values are.
THEOREM AbortsRestore == Spec => []AbortRestoresState
<1>1. IInv /\ KeepInv => AbortRestoresState
  <2> SUFFICES ASSUME IInv, KeepInv, At("idle"), NEW r \in Ranks, outcome[r] = "abort"
               PROVE  RestoredTo(r)
    BY DEF AbortRestoresState, RestoredTo
  <2>1. (\A q \in Ranks : outcome[q] = "abort") /\ Pairs /\ AllFull /\ OneLayout
    BY AtRest
  <2>2. QED  BY <2>1, AbortedHolds DEF IInv, KeepInv
<1>2. QED  BY <1>1, KeepInvariance, PTL

LEMMA CommittedReads ==
    Exact /\ IInv /\ KeepInv /\ At("idle") /\ (\A r \in Ranks : outcome[r] = "commit")
      => \A r \in Ranks : HoldsCaptured(r)
<1> SUFFICES ASSUME Exact, IInv, KeepInv, At("idle"), \A r \in Ranks : outcome[r] = "commit"
             PROVE  \A r \in Ranks : HoldsCaptured(r)
  OBVIOUS
<1>1. 0 \in Ranks
  BY StateAssumption DEF Ranks
<1>2. Pairs /\ AllFull
  BY <1>1, AtRest
<1>3. QED  BY <1>2, CommittedHolds DEF IInv, KeepInv

LEMMA AbortedReads ==
    IInv /\ KeepInv /\ At("idle") /\ (\A r \in Ranks : outcome[r] = "abort")
      => \A r \in Ranks : RestoredTo(r)
<1> SUFFICES ASSUME IInv, KeepInv, At("idle"), \A r \in Ranks : outcome[r] = "abort"
             PROVE  \A r \in Ranks : RestoredTo(r)
  OBVIOUS
<1>1. 0 \in Ranks
  BY StateAssumption DEF Ranks
<1>2. Pairs /\ AllFull /\ OneLayout
  BY <1>1, AtRest
<1>3. QED  BY <1>2, AbortedHolds DEF IInv, KeepInv

LEMMA CommittedReadsNext ==
    Exact /\ (IInv /\ KeepInv /\ At("idle") /\ (\A r \in Ranks : outcome[r] = "commit"))'
      => (\A r \in Ranks : HoldsCaptured(r))'
<1>1. (Exact /\ IInv /\ KeepInv /\ At("idle") /\ (\A r \in Ranks : outcome[r] = "commit")
         => \A r \in Ranks : HoldsCaptured(r))'
  BY CommittedReads, PTL
<1>2. QED  BY <1>1 DEF Exact

LEMMA AbortedReadsNext ==
    (IInv /\ KeepInv /\ At("idle") /\ (\A r \in Ranks : outcome[r] = "abort")
      => \A r \in Ranks : RestoredTo(r))'
  BY AbortedReads, PTL

-----------------------------------------------------------------------------
(* The refinement: the group as the atomic reshard sees it.                *)

\* A rank that has captured nothing yet has nothing to show.
FreshInv == \A r \in Ranks : pc[r] = "snapshot" => cap[r] = Nothing /\ carried[r] = Nothing

GroupInv == IInv /\ KeepInv /\ FreshInv

LEMMA FreshStep == IInv /\ FreshInv /\ [Next]_vars => FreshInv'
<1> SUFFICES ASSUME IInv, FreshInv, [Next]_vars PROVE FreshInv'
  OBVIOUS
<1> USE DEF FreshInv, ToAll, IInv, TypeOK
<1>1. CASE Train
  BY <1>1 DEF Train, At
<1>2. ASSUME NEW target \in Layouts, Start(target) PROVE FreshInv'
  BY <1>2 DEF Start
<1>3. ASSUME NEW r \in Ranks, RankStep(r) \/ Raise(r) PROVE FreshInv'
  <2>1. /\ pc' = [pc EXCEPT ![r] = pc'[r]] /\ pc'[r] # "snapshot"
        /\ \A q \in Ranks \ {r} : cap'[q] = cap[q] /\ carried'[q] = carried[q]
    BY <1>3 DEF RankStep, SnapshotLocal, Transport, WrapLocal, PostVerifyLocal,
                Finish, AbortLocal, Raise
  <2>2. QED  BY <2>1
<1>4. CASE GroupStep
  <2>1. \A q \in Ranks : pc'[q] # "snapshot"
    BY <1>4 DEF GroupStep, SnapshotGather, AgreeTransport, WrapDDP, PostVerifyGather,
                AgreePost, AbortDDP
  <2>2. QED  BY <2>1
<1>5. CASE UNCHANGED vars
  BY <1>5 DEF vars
<1>6. QED  BY <1>1, <1>2, <1>3, <1>4, <1>5 DEF Next

\* A model without tensors reads as the empty function, captured or not.
LEMMA EmptyReads ==
    ASSUME TypeOK, NEW r \in Ranks
    PROVE  /\ cap[r] \in FullState /\ cap[r] = Nothing => Logical(layout[r], st, r) = cap[r]
           /\ carried[r] \in FullOptim /\ carried[r] = Nothing
                => Logical(layout[r], opt, r) = carried[r]
<1>1. DOMAIN Nothing = {} /\ Nothing = [e \in {} |-> Freed]
  BY DEF Nothing
<1>2. ASSUME cap[r] \in FullState, cap[r] = Nothing PROVE Logical(layout[r], st, r) = cap[r]
  <2>1. Entries = {} /\ st[r] \in [Entries -> Values \cup {Freed}]
    BY <1>1, <1>2 DEF FullState, TypeOK, LocalState
  <2>2. DOMAIN st[r] = {} /\ st[r] = [e \in {} |-> Freed]
    BY <2>1
  <2>3. Gather(st, r) = [e \in {} |-> Freed]
    BY <2>2 DEF Gather
  <2>4. QED  BY <1>1, <1>2, <2>2, <2>3 DEF Logical
<1>3. ASSUME carried[r] \in FullOptim, carried[r] = Nothing
      PROVE  Logical(layout[r], opt, r) = carried[r]
  <2>1. Params = {} /\ opt[r] \in [Params -> Momenta \cup {Freed}]
    BY <1>1, <1>3 DEF FullOptim, TypeOK, LocalOptim
  <2>2. DOMAIN opt[r] = {} /\ opt[r] = [e \in {} |-> Freed]
    BY <2>1
  <2>3. Gather(opt, r) = [e \in {} |-> Freed]
    BY <2>2 DEF Gather
  <2>4. QED  BY <1>1, <1>3, <2>2, <2>3 DEF Logical
<1>4. QED  BY <1>2, <1>3

\* What the group shows: what it reads back, or what each rank captured.
LEMMA Shown ==
    GroupInv => \A r \in Ranks :
        /\ At("idle") \/ pc[r] = "snapshot" =>
             Content[r] = Logical(layout[r], st, r) /\ Moments[r] = Logical(layout[r], opt, r)
        /\ ~At("idle") /\ pc[r] # "snapshot" => Content[r] = cap[r] /\ Moments[r] = carried[r]
<1> SUFFICES ASSUME GroupInv, NEW r \in Ranks
    PROVE  /\ At("idle") \/ pc[r] = "snapshot" =>
                Content[r] = Logical(layout[r], st, r) /\ Moments[r] = Logical(layout[r], opt, r)
           /\ ~At("idle") /\ pc[r] # "snapshot" => Content[r] = cap[r] /\ Moments[r] = carried[r]
  OBVIOUS
<1>1. /\ Content[r] = IF At("idle") \/ cap[r] = Nothing
                      THEN Logical(layout[r], st, r) ELSE cap[r]
      /\ Moments[r] = IF At("idle") \/ carried[r] = Nothing
                      THEN Logical(layout[r], opt, r) ELSE carried[r]
  BY DEF Content, Moments
<1>2. pc[r] = "snapshot" => cap[r] = Nothing /\ carried[r] = Nothing
  BY DEF GroupInv, FreshInv
<1>3. ASSUME ~At("idle"), pc[r] # "snapshot"
      PROVE  cap[r] \in FullState /\ carried[r] \in FullOptim
  <2>1. Captured(r)
    BY <1>3 DEF GroupInv, IInv, PhaseInv, Resting, Capturing, Installing, Committing,
                Aborting, Raising, Within, At, Captured
  <2>2. QED  BY <2>1 DEF GroupInv, KeepInv, CaptureInv
<1>4. TypeOK
  BY DEF GroupInv, IInv
<1>5. QED  BY <1>1, <1>2, <1>3, <1>4, EmptyReads

LEMMA ModeShown ==
    GroupInv => /\ At("idle") => \A r \in Ranks : GroupMode = layout[r]
                /\ ~At("idle") => \A r \in Ranks : pc[r] # "idle" => GroupMode = layout[r]
<1> SUFFICES ASSUME GroupInv
    PROVE  /\ At("idle") => \A r \in Ranks : GroupMode = layout[r]
           /\ ~At("idle") => \A r \in Ranks : pc[r] # "idle" => GroupMode = layout[r]
  OBVIOUS
<1>1. 0 \in Ranks
  BY StateAssumption DEF Ranks
<1>2. CASE At("idle")
  BY <1>1, <1>2, IdleOneLayout DEF GroupInv, GroupMode, OneLayout
<1>3. CASE ~At("idle")
  <2>1. \E r \in Ranks : pc[r] # "idle"
    BY <1>3 DEF At
  <2>2. Unfinished \in Ranks /\ pc[Unfinished] # "idle"
    BY <2>1 DEF Unfinished
  <2>3. QED  BY <1>3, <2>2 DEF GroupInv, KeepInv, AbortInv, GroupMode
<1>4. QED  BY <1>2, <1>3

\* At rest every rank reads back a full state.
LEMMA RestsFull ==
    IInv /\ At("idle") => /\ Content \in [Ranks -> FullState]
                          /\ Moments \in [Ranks -> FullOptim]
<1> SUFFICES ASSUME IInv, At("idle"), NEW r \in Ranks
    PROVE  Logical(layout[r], st, r) \in FullState /\ Logical(layout[r], opt, r) \in FullOptim
  BY DEF Content, Moments
<1>1. /\ layout \in [Ranks -> Layouts]
      /\ st \in [Ranks -> LocalState] /\ opt \in [Ranks -> LocalOptim]
      /\ \A q \in Ranks : Whole(layout[q], st[q], q) /\ Whole(layout[q], opt[q], q)
  BY DEF IInv, TypeOK, DataInv, At
<1>2. CASE layout[r] = "fsdp"
  BY <1>1, <1>2, GatherFull DEF Logical
<1>3. CASE layout[r] # "fsdp"
  BY <1>1, <1>3, WholeIsFull DEF Logical
<1>4. QED  BY <1>2, <1>3

LEMMA ShownNext == (GroupInv => \A r \in Ranks :
        /\ At("idle") \/ pc[r] = "snapshot" =>
             Content[r] = Logical(layout[r], st, r) /\ Moments[r] = Logical(layout[r], opt, r)
        /\ ~At("idle") /\ pc[r] # "snapshot" => Content[r] = cap[r] /\ Moments[r] = carried[r])'
  BY Shown, PTL

LEMMA ModeShownNext ==
    (GroupInv => /\ At("idle") => \A r \in Ranks : GroupMode = layout[r]
                 /\ ~At("idle") => \A r \in Ranks : pc[r] # "idle" => GroupMode = layout[r])'
  BY ModeShown, PTL

LEMMA RestsFullNext ==
    (IInv /\ At("idle") => /\ Content \in [Ranks -> FullState]
                           /\ Moments \in [Ranks -> FullOptim])'
  BY RestsFull, PTL

-----------------------------------------------------------------------------
(* Every step of a rank is a step of the atomic reshard, or none of it.    *)

ShownSame == UNCHANGED <<GroupMode, Content, Moments>>
StillInside == ShownSame /\ to' = to /\ ~At("idle") /\ ~At("idle")'

LEMMA SameContent ==
    /\ (\A r \in Ranks : Content'[r] = Content[r]) => Content' = Content
    /\ (\A r \in Ranks : Moments'[r] = Moments[r]) => Moments' = Moments
<1>1. /\ Content = [r \in Ranks |-> Content[r]] /\ Content' = [r \in Ranks |-> Content'[r]]
      /\ Moments = [r \in Ranks |-> Moments[r]] /\ Moments' = [r \in Ranks |-> Moments'[r]]
  BY DEF Content, Moments
<1>2. QED  BY <1>1

\* A step inside a call shows nothing when it lets no rank start over, moves
\* no unfinished rank to another layout and keeps what was captured.
LEMMA Hidden ==
    ASSUME GroupInv, GroupInv', ~At("idle"), ~At("idle")',
           \A r \in Ranks : pc'[r] # "idle" => pc[r] # "idle" /\ layout'[r] = layout[r],
           \A r \in Ranks :
              \/ /\ pc[r] # "snapshot" /\ pc'[r] # "snapshot"
                 /\ cap'[r] = cap[r] /\ carried'[r] = carried[r]
              \/ /\ pc[r] = "snapshot"
                 /\ UNCHANGED <<layout, st, opt>>
                 /\ pc'[r] # "snapshot" => /\ cap'[r] = Logical(layout[r], st, r)
                                           /\ carried'[r] = Logical(layout[r], opt, r)
    PROVE  ShownSame
<1>1. GroupMode' = GroupMode
  <2>1. PICK r \in Ranks : pc'[r] # "idle"
    BY DEF At
  <2>2. QED  BY <2>1, ModeShown, ModeShownNext
<1>2. ASSUME NEW r \in Ranks PROVE Content'[r] = Content[r] /\ Moments'[r] = Moments[r]
  BY Shown, ShownNext
<1>3. QED  BY <1>1, <1>2, SameContent DEF ShownSame

LEMMA SameSets ==
    /\ Atomic!Ranks = Ranks /\ Atomic!Layouts = Layouts /\ Atomic!Entries = Entries
    /\ Atomic!FullState = FullState /\ Atomic!FullOptim = FullOptim
  BY DEF Atomic!Ranks, Ranks, Atomic!Layouts, Layouts, Atomic!Entries, Entries,
         Atomic!FullState, FullState, Atomic!FullOptim, FullOptim

LEMMA SameClose ==
    \A full, other : Close(full, other) <=> Atomic!Close(full, other)
  BY DEF Close, Near, Distance, Entries,
         Atomic!Close, Atomic!Near, Atomic!Distance, Atomic!Entries

LEMMA TrainShown == GroupInv /\ GroupInv' /\ Train => Atomic!Train
<1> SUFFICES ASSUME GroupInv, GroupInv', Train PROVE Atomic!Train
  OBVIOUS
<1>1. 0 \in Ranks
  BY StateAssumption DEF Ranks
<1>2. At("idle") /\ At("idle")' /\ UNCHANGED <<layout, to>>
  BY DEF Train, At
<1>3. Content' \in [Ranks -> FullState] /\ Moments' \in [Ranks -> FullOptim]
  BY <1>2, RestsFullNext DEF GroupInv
<1>4. GroupMode' = GroupMode
  BY <1>1, <1>2, ModeShown, ModeShownNext
<1>5. QED  BY <1>2, <1>3, <1>4, SameSets DEF Atomic!Train

LEMMA StartShown ==
    ASSUME NEW target \in Layouts
    PROVE  GroupInv /\ GroupInv' /\ Start(target) => Atomic!Begin
<1> SUFFICES ASSUME GroupInv, GroupInv', Start(target) PROVE Atomic!Begin
  OBVIOUS
<1>1. 0 \in Ranks
  BY StateAssumption DEF Ranks
<1>2. /\ At("idle") /\ UNCHANGED <<layout, st, opt>> /\ to' = target
      /\ \A r \in Ranks : pc'[r] = "snapshot"
  BY DEF Start, ToAll
<1>3. ~At("idle")'
  BY <1>1, <1>2 DEF At
<1>4. Content' = Content /\ Moments' = Moments
  BY <1>2, Shown, ShownNext, SameContent
<1>5. GroupMode' = GroupMode
  BY <1>1, <1>2, <1>3, ModeShown, ModeShownNext
<1>6. QED  BY <1>2, <1>3, <1>4, <1>5, SameSets DEF Atomic!Begin

LEMMA SnapshotShown ==
    ASSUME GroupInv, GroupInv', SnapshotGather \/ \E r \in Ranks : SnapshotLocal(r)
    PROVE  StillInside
<1>1. CASE SnapshotGather
  <2>1. 0 \in Ranks
    BY StateAssumption DEF Ranks
  <2>2. OneLayout
    BY <1>1, <2>1, GatheringPhase DEF SnapshotGather, At, Gathering, GroupInv
  <2>3. /\ UNCHANGED <<layout, st, opt, to>> /\ layout[0] = "fsdp"
        /\ \A q \in Ranks : /\ pc[q] = "snapshot" /\ pc'[q] = "transport"
                            /\ cap'[q] = Gather(st, q) /\ carried'[q] = Gather(opt, q)
    BY <1>1 DEF SnapshotGather, At, ToAll
  <2>4. ~At("idle") /\ ~At("idle")'
    BY <2>1, <2>3 DEF At
  <2>5. \A q \in Ranks : /\ cap'[q] = Logical(layout[q], st, q)
                         /\ carried'[q] = Logical(layout[q], opt, q)
    BY <2>1, <2>2, <2>3 DEF OneLayout, Logical
  <2>6. QED  BY <2>3, <2>4, <2>5, Hidden DEF StillInside
<1>2. ASSUME NEW r \in Ranks, SnapshotLocal(r) PROVE StillInside
  <2>1. /\ UNCHANGED <<layout, st, opt, to>>
        /\ pc[r] = "snapshot" /\ pc'[r] = "transport" /\ layout[r] # "fsdp"
        /\ cap'[r] = st[r] /\ carried'[r] = opt[r]
        /\ \A q \in Ranks \ {r} : pc'[q] = pc[q] /\ cap'[q] = cap[q] /\ carried'[q] = carried[q]
    BY <1>2 DEF SnapshotLocal, GroupInv, IInv, TypeOK
  <2>2. ~At("idle") /\ ~At("idle")'
    BY <2>1 DEF At
  <2>3. /\ cap'[r] = Logical(layout[r], st, r) /\ carried'[r] = Logical(layout[r], opt, r)
    BY <2>1 DEF Logical
  <2>4. \A q \in Ranks : pc'[q] # "idle" => pc[q] # "idle" /\ layout'[q] = layout[q]
    BY <2>1
  <2>5. ASSUME NEW q \in Ranks
        PROVE  \/ /\ pc[q] # "snapshot" /\ pc'[q] # "snapshot"
                  /\ cap'[q] = cap[q] /\ carried'[q] = carried[q]
               \/ /\ pc[q] = "snapshot"
                  /\ UNCHANGED <<layout, st, opt>>
                  /\ pc'[q] # "snapshot" => /\ cap'[q] = Logical(layout[q], st, q)
                                            /\ carried'[q] = Logical(layout[q], opt, q)
    <3>1. CASE q = r
      BY <2>1, <2>3, <3>1
    <3>2. CASE q # r
      BY <2>1, <3>2
    <3>3. QED  BY <3>1, <3>2
  <2>6. QED  BY <2>1, <2>2, <2>4, <2>5, Hidden DEF StillInside
<1>3. QED  BY <1>1, <1>2

\* The steps between the capture and the end of a call.
LEMMA InsideShown ==
    ASSUME GroupInv, GroupInv',
           \/ \E r \in Ranks : Transport(r) \/ WrapLocal(r) \/ PostVerifyLocal(r) \/ Raise(r)
           \/ AgreeTransport \/ WrapDDP \/ PostVerifyGather \/ AgreePost
    PROVE  StillInside
<1>0. 0 \in Ranks
  BY StateAssumption DEF Ranks
<1>1. CASE AgreeTransport \/ WrapDDP \/ PostVerifyGather \/ AgreePost
  <2>1. /\ UNCHANGED <<layout, cap, carried, to>>
        /\ \A r \in Ranks : pc[r] \notin {"idle", "snapshot"} /\ pc'[r] \notin {"idle", "snapshot"}
    BY <1>1 DEF AgreeTransport, WrapDDP, PostVerifyGather, AgreePost, At, ToAll
  <2>2. ~At("idle") /\ ~At("idle")'
    BY <1>0, <2>1 DEF At
  <2>3. QED  BY <2>1, <2>2, Hidden DEF StillInside
<1>2. ASSUME NEW r \in Ranks, Transport(r) \/ WrapLocal(r) \/ PostVerifyLocal(r) \/ Raise(r)
      PROVE  StillInside
  <2>1. /\ UNCHANGED <<layout, opt, cap, carried, to>>
        /\ pc[r] \notin {"idle", "snapshot"} /\ pc'[r] \notin {"idle", "snapshot"}
        /\ \A q \in Ranks \ {r} : pc'[q] = pc[q]
    BY <1>2 DEF Transport, WrapLocal, PostVerifyLocal, Raise, GroupInv, IInv, TypeOK
  <2>2. ~At("idle") /\ ~At("idle")'
    BY <2>1 DEF At
  <2>3. ASSUME NEW q \in Ranks, pc[q] = "snapshot" PROVE UNCHANGED st
    <3>1. ~(pc[r] \in {"commit", "gather", "agree2"})
      BY <2>3, PhaseOf DEF GroupInv, Installing, Within
    <3>2. QED  BY <1>2, <3>1 DEF Transport, WrapLocal, PostVerifyLocal, Raise
  <2>4. \A q \in Ranks : pc'[q] # "idle" => pc[q] # "idle" /\ layout'[q] = layout[q]
    BY <2>1
  <2>5. ASSUME NEW q \in Ranks
        PROVE  \/ /\ pc[q] # "snapshot" /\ pc'[q] # "snapshot"
                  /\ cap'[q] = cap[q] /\ carried'[q] = carried[q]
               \/ /\ pc[q] = "snapshot"
                  /\ UNCHANGED <<layout, st, opt>>
                  /\ pc'[q] # "snapshot" => /\ cap'[q] = Logical(layout[q], st, q)
                                            /\ carried'[q] = Logical(layout[q], opt, q)
    <3>1. CASE q = r
      BY <2>1, <3>1
    <3>2. CASE q # r
      BY <2>1, <2>3, <3>2
    <3>3. QED  BY <3>1, <3>2
  <2>6. QED  BY <2>1, <2>2, <2>4, <2>5, Hidden DEF StillInside
<1>3. QED  BY <1>1, <1>2

LEMMA OwnersRanks == \A x \in Params : Owner[x] \in Ranks
  BY StateAssumption

\* Once a rank is at its end, every rank has captured.
LEMMA EndingFull ==
    ASSUME GroupInv, NEW r \in Ranks, pc[r] \in {"optim", "abort"}
    PROVE  AllFull
  BY EndingPhase DEF GroupInv, KeepInv, CaptureInv, AllFull

\* A rank returns: the last one to do so ends the reshard.
LEMMA FinishShown ==
    ASSUME Exact, GroupInv, GroupInv', NEW r \in Ranks, Finish(r)
    PROVE  StillInside \/ Atomic!Commit
<1>1. Committing /\ \A q \in Ranks : pc[q] # "snapshot"
  BY EndingPhase DEF Finish, GroupInv, Committing
<1>2. /\ UNCHANGED <<to, cap, carried>>
      /\ pc[r] = "optim" /\ pc'[r] = "idle" /\ outcome'[r] = "commit" /\ layout'[r] = to
      /\ \A q \in Ranks \ {r} : /\ pc'[q] = pc[q] /\ outcome'[q] = outcome[q]
                                /\ layout'[q] = layout[q]
  BY DEF Finish, GroupInv, IInv, TypeOK
<1>3. ~At("idle")
  BY <1>2 DEF At
<1>4. CASE ~At("idle")'
  <2>1. \A q \in Ranks : pc'[q] # "idle" => pc[q] # "idle" /\ layout'[q] = layout[q]
    BY <1>2
  <2>2. \A q \in Ranks : /\ pc[q] # "snapshot" /\ pc'[q] # "snapshot"
                         /\ cap'[q] = cap[q] /\ carried'[q] = carried[q]
    BY <1>1, <1>2
  <2>3. ShownSame
    BY <1>3, <1>4, <2>1, <2>2, Hidden
  <2>4. QED  BY <1>2, <1>3, <1>4, <2>3 DEF StillInside
<1>5. CASE At("idle")'
  <2>1. \A q \in Ranks : outcome'[q] = "commit" /\ layout'[q] = to
    BY <1>1, <1>2, <1>5 DEF Committing, At
  <2>2. \A q \in Ranks : HoldsCaptured(q)'
    BY <2>1, <1>5, CommittedReadsNext DEF GroupInv
  <2>3. ASSUME NEW q \in Ranks
        PROVE  Close(Content'[q], Content[q]) /\ Moments'[q] = Logical(to, Moments, q)
    <3>1. /\ Content[q] = cap[q] /\ Content'[q] = Logical(layout[q], st, q)'
          /\ Moments'[q] = Logical(layout[q], opt, q)'
      BY <1>1, <1>3, <1>5, Shown, ShownNext
    <3>2. \A x \in Ranks : Moments[x] = carried[x]
      BY <1>1, <1>3, Shown
    <3>3. Close(Content'[q], Content[q])
      BY <1>2, <2>2, <3>1 DEF HoldsCaptured
    <3>4. Moments'[q] = Logical(to, carried, q)
      BY <1>2, <2>1, <2>2, <3>1 DEF HoldsCaptured, Logical
    <3>5. Logical(to, carried, q) = Logical(to, Moments, q)
      BY <3>2, OwnersRanks DEF Logical, Gather
    <3>6. QED  BY <3>3, <3>4, <3>5
  <2>4. GroupMode' = to
    BY <1>2, <1>5, <2>1, ModeShownNext
  <2>5. Content' \in [Ranks -> FullState]
    BY <1>5, RestsFullNext DEF GroupInv
  <2>6. Moments' = IF to = "fsdp" THEN Atomic!OwnersMomenta ELSE Moments
    <3>1. Moments' = [q \in Ranks |-> Moments'[q]] /\ Moments = [q \in Ranks |-> Moments[q]]
      BY DEF Moments
    <3>2. \A q \in Ranks : DOMAIN Moments[q] = Params
      BY <1>1, <1>2, <1>3, Shown, EndingFull DEF AllFull, FullOptim
    <3>3. \A q \in Ranks : to = "fsdp" =>
              Moments'[q] = [x \in Params |-> Moments[Owner[x]][x]]
      BY <2>3, <3>2 DEF Logical, Gather
    <3>4. QED  BY <2>3, <3>1, <3>3, SameSets DEF Logical, Atomic!OwnersMomenta
  <2>7. \A q \in Ranks : Atomic!Close(Content'[q], Content[q])
    BY <2>3, SameClose
  <2>8. QED  BY <1>2, <1>3, <1>5, <2>4, <2>5, <2>6, <2>7, SameSets DEF Atomic!Commit
<1>6. QED  BY <1>4, <1>5

LEMMA AbortShown ==
    ASSUME GroupInv, GroupInv', AbortDDP \/ \E r \in Ranks : AbortLocal(r)
    PROVE  StillInside \/ Atomic!Abort
<1>0. PICK r \in Ranks : pc[r] = "abort" /\ pc'[r] = "idle" /\ (AbortDDP \/ AbortLocal(r))
  <2>1. 0 \in Ranks
    BY StateAssumption DEF Ranks
  <2>2. CASE AbortDDP
    BY <2>1, <2>2 DEF AbortDDP, At, ToAll
  <2>3. ASSUME NEW q \in Ranks, AbortLocal(q) PROVE pc[q] = "abort" /\ pc'[q] = "idle"
    BY <2>3 DEF AbortLocal, GroupInv, IInv, TypeOK
  <2>4. QED  BY <2>2, <2>3
<1>1. Aborting /\ OneLayout /\ \A q \in Ranks : pc[q] # "snapshot"
  BY <1>0, EndingPhase DEF GroupInv, Aborting
<1>2. /\ UNCHANGED <<layout, to, factory, cap, carried>>
      /\ \A q \in Ranks : \/ pc'[q] = pc[q] /\ outcome'[q] = outcome[q]
                          \/ pc'[q] = "idle" /\ outcome'[q] = "abort"
  <2>1. CASE AbortDDP
    BY <2>1 DEF AbortDDP, ToAll
  <2>2. CASE AbortLocal(r)
    BY <2>2 DEF AbortLocal, GroupInv, IInv, TypeOK
  <2>3. QED  BY <1>0, <2>1, <2>2
<1>3. ~At("idle")
  BY <1>0 DEF At
<1>4. CASE ~At("idle")'
  <2>1. \A q \in Ranks : pc'[q] # "idle" => pc[q] # "idle" /\ layout'[q] = layout[q]
    BY <1>2
  <2>2. \A q \in Ranks : /\ pc[q] # "snapshot" /\ pc'[q] # "snapshot"
                         /\ cap'[q] = cap[q] /\ carried'[q] = carried[q]
    BY <1>1, <1>2
  <2>3. ShownSame
    BY <1>3, <1>4, <2>1, <2>2, Hidden
  <2>4. QED  BY <1>2, <1>3, <1>4, <2>3 DEF StillInside
<1>5. CASE At("idle")'
  <2>1. \A q \in Ranks : outcome'[q] = "abort" /\ layout'[q] = layout[r]
    BY <1>0, <1>1, <1>2, <1>5 DEF Aborting, OneLayout, At
  <2>2. \A q \in Ranks : RestoredTo(q)'
    BY <2>1, <1>5, AbortedReadsNext DEF GroupInv
  <2>3. GroupMode' = layout[r] /\ GroupMode = layout[r]
    BY <1>0, <1>2, <1>3, <1>5, <2>1, ModeShown, ModeShownNext
  <2>4. Moments' = Moments
    BY <1>1, <1>2, <1>3, <1>5, <2>2, Shown, ShownNext, SameContent DEF RestoredTo
  <2>5. \A q \in Ranks : Content[q] = cap[q] /\ Content'[q] = Restored(q)'
    BY <1>1, <1>2, <1>3, <1>5, <2>2, Shown, ShownNext DEF RestoredTo
  <2>6. CASE layout[r] = "ddp" /\ factory
    <3>1. 0 \in Ranks
      BY StateAssumption DEF Ranks
    <3>2. Content' = [q \in Ranks |-> Content[0]]
      <4>1. \A q \in Ranks : Content'[q] = Content[0]
        BY <1>2, <2>1, <2>5, <2>6, <3>1 DEF Restored
      <4>2. Content' = [q \in Ranks |-> Content'[q]]
        BY DEF Content
      <4>3. QED  BY <4>1, <4>2
    <3>3. QED  BY <1>2, <1>3, <1>5, <2>3, <2>4, <2>6, <3>2, SameSets DEF Atomic!Abort
  <2>7. CASE ~(layout[r] = "ddp" /\ factory)
    <3>1. Content' = Content
      BY <1>2, <2>1, <2>5, <2>7, SameContent DEF Restored
    <3>2. QED  BY <1>2, <1>3, <1>5, <2>3, <2>4, <3>1 DEF Atomic!Abort
  <2>8. QED  BY <2>6, <2>7
<1>6. QED  BY <1>4, <1>5

LEMMA EveryStepShown ==
    ASSUME Exact, GroupInv, GroupInv', [Next]_vars
    PROVE  [Atomic!ANext]_(Atomic!avars)
<1>1. ASSUME StillInside PROVE UNCHANGED Atomic!avars
  BY <1>1 DEF StillInside, ShownSame, Atomic!avars
<1>2. CASE Train
  BY <1>2, TrainShown DEF Atomic!ANext
<1>3. ASSUME NEW target \in Layouts, Start(target) PROVE Atomic!ANext
  BY <1>3, StartShown DEF Atomic!ANext
<1>4. ASSUME NEW r \in Ranks, RankStep(r) \/ Raise(r) PROVE [Atomic!ANext]_(Atomic!avars)
  <2>1. CASE SnapshotLocal(r)
    BY <1>1, <2>1, SnapshotShown
  <2>2. CASE Transport(r) \/ WrapLocal(r) \/ PostVerifyLocal(r) \/ Raise(r)
    BY <1>1, <2>2, InsideShown
  <2>3. CASE Finish(r)
    BY <1>1, <2>3, FinishShown DEF Atomic!ANext
  <2>4. CASE AbortLocal(r)
    BY <1>1, <2>4, AbortShown DEF Atomic!ANext
  <2>5. QED  BY <1>4, <2>1, <2>2, <2>3, <2>4 DEF RankStep
<1>5. CASE GroupStep
  <2>1. CASE SnapshotGather
    BY <1>1, <2>1, SnapshotShown
  <2>2. CASE AgreeTransport \/ WrapDDP \/ PostVerifyGather \/ AgreePost
    BY <1>1, <2>2, InsideShown
  <2>3. CASE AbortDDP
    BY <1>1, <2>3, AbortShown DEF Atomic!ANext
  <2>4. QED  BY <1>5, <2>1, <2>2, <2>3 DEF GroupStep
<1>6. CASE UNCHANGED vars
  BY <1>6 DEF vars, Atomic!avars, GroupMode, Unfinished, Content, Moments, At
<1>7. QED  BY <1>2, <1>3, <1>4, <1>5, <1>6 DEF Next

\* The group of ranks implements the atomic reshard: whatever the order of
\* their steps, the certificates and the deaths, everyone outside sees one
\* reshard that moves the whole group, its state within the tolerance of the
\* certificate, or restores it.
THEOREM ImplementsAtomic == ASSUME Exact PROVE Spec => IsAtomic
<1>1. Init => Atomic!AInit
  <2> SUFFICES ASSUME Init PROVE Atomic!AInit
    OBVIOUS
  <2>1. At("idle") /\ layout[0] = "plain" /\ to = "plain"
    BY StateAssumption DEF Init, At, ToAll, Ranks
  <2>2. Content \in [Ranks -> FullState] /\ Moments \in [Ranks -> FullOptim]
    BY <2>1, InitInv, RestsFull
  <2>3. GroupMode = "plain"
    BY <2>1 DEF GroupMode
  <2>4. QED  BY <2>1, <2>2, <2>3, SameSets DEF Atomic!AInit, Layouts
<1>2. Init => FreshInv
  BY DEF Init, ToAll, FreshInv
<1>3. Spec => []GroupInv
  BY <1>2, KeepInvariance, FreshStep, PTL DEF Spec, GroupInv
<1>4. GroupInv /\ GroupInv' /\ [Next]_vars => [Atomic!ANext]_(Atomic!avars)
  BY EveryStepShown
<1>5. QED  BY <1>1, <1>3, <1>4, PTL DEF Spec, IsAtomic, Atomic!ASpec
=============================================================================
