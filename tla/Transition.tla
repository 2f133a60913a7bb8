----------------------------- MODULE Transition -----------------------------
(***************************************************************************)
(* hasagi's transition harness: a group of ranks trains, its state is      *)
(* snapshotted and checkpointed in the pre layout, a second group loads    *)
(* the checkpoint in the post layout, the state it loaded is snapshotted   *)
(* again, and the gate commits the transition or aborts it back to the     *)
(* last verified state, from where the next transition starts.             *)
(*                                                                         *)
(* Two transitions are modelled: run_transition of the harness, with one   *)
(* of its injected faults or a fault of the reshard mechanism itself, and  *)
(* the restore of random-number streams that exp_attest_rng_restore_repro  *)
(* takes from Megatron.  The stages run one after the other (mp.spawn with *)
(* join), and the ranks of a stage meet only in the collectives, so each   *)
(* stage is a few steps of the whole group.                                *)
(***************************************************************************)
EXTENDS Certificate, ShardLayout, FiniteSets

CONSTANTS
    Worlds,      \* sizes of the two groups
    NumParams,   \* parameters, by the position of their sorted names
    Rows,        \* Rows[p]: shape[0] of parameter p
    Values,      \* what a row may hold
    Trained,     \* the states training may reach: [params, moments]
    Bound        \* reduction_drift_bound

Params == 1 .. NumParams
Layouts == {"full", "shard"}
Kinds == {"harness", "cell", "rank"}   \* "cell", "rank": how streams are declared
Counters == {"global_step", "samples_seen"}

ASSUME TransitionAssumption ==
    /\ Worlds \subseteq Nat \ {0} /\ Worlds # {}
    /\ NumParams \in Nat \ {0}
    /\ Rows \in [Params -> Nat]
    /\ Values \subseteq Int \cup {NaN}
    /\ \A t \in Trained :
          /\ {t.params, t.moments} \subseteq [Params -> Seq(Values)]
          /\ \A p \in Params : Len(t.params[p]) = Rows[p] /\ Len(t.moments[p]) = Rows[p]
    /\ Bound \in Nat

Faults == {"none", "silent_unloaded_param", "value_corruption", "permuted_values",
           "cross_param_overwrite", "stale_optimizer_moment", "step_counter_reset",
           "precision_cast", "progress_reset", "dropped_fqn", "reduction_order_swap"}

VARIABLES
    spec,       \* TransitionSpec, and which of the two transitions it is
    verified,   \* the last verified state
    origin,     \* the state training left behind (history)
    phase,      \* where the transition is
    pre, post,  \* pre.json and post.json
    ckpt,       \* what DCP stored
    loaded,     \* what each rank of the second group holds
    broken,     \* the reshard mechanism delivered something else (history)
    waived,     \* streams seeded anew by a committed transition (history)
    decision    \* of the gate

vars == <<spec, verified, origin, phase, pre, post, ckpt, loaded, broken, waived, decision>>

Ranks(world) == 0 .. world - 1
Nothing == <<>>   \* a slot nothing was written to yet
-----------------------------------------------------------------------------
(* What a transition is asked to do.                                       *)

\* The streams of a group seeded apart, one per rank.
Seeds(world) == [r \in Ranks(world) |-> r]
NoStreams == [r \in {} |-> 0]

HarnessSpecs ==
    [kind : {"harness"}, worldPre : Worlds, worldPost : Worlds,
     layoutPre : Layouts, layoutPost : Layouts, fault : Faults, reseeds : {{}}]

\* The stream experiment keeps its topology and injects nothing; a caller may
\* declare that some streams are seeded anew.
StreamSpecs ==
    UNION {[kind : {"cell", "rank"}, worldPre : {w}, worldPost : {w},
            layoutPre : {"shard"}, layoutPost : {"shard"}, fault : {"none"},
            reseeds : SUBSET Ranks(w)] : w \in Worlds}

\* Training stops at a step boundary: every slot has been updated.
Init ==
    /\ spec = Nothing
    /\ \E t \in Trained, streams \in {NoStreams} \cup {Seeds(w) : w \in Worlds} :
         verified = [params |-> t.params, moments |-> t.moments,
                     steps |-> [p \in Params |-> 1],
                     progress |-> [c \in Counters |-> 1],
                     streams |-> streams]
    /\ origin = verified
    /\ phase = "trained"
    /\ pre = Nothing /\ post = Nothing /\ ckpt = Nothing /\ loaded = Nothing
    /\ broken = FALSE /\ waived = {}
    /\ decision = "none"

\* run_transition, or the stream experiment, on the verified state.
Begin ==
    /\ phase = "trained"
    /\ phase' = "begun"
    /\ spec' \in IF verified.streams = NoStreams THEN HarnessSpecs
                 ELSE {n \in StreamSpecs : Ranks(n.worldPre) = DOMAIN verified.streams}
    /\ UNCHANGED <<verified, origin, pre, post, ckpt, loaded, broken, waived, decision>>

\* The slots of a parameter: AdamW's first moment and step counter.
Slots(moments, steps) ==
    [p \in DOMAIN moments |-> [exp_avg |-> moments[p], step |-> steps[p]]]

\* order = sorted(model_full)
SortedNames(names) == SetToSortSeq(names, <)

SwappedNames(names) ==
    LET order == SortedNames(names)
    IN IF Len(order) < 2 THEN order
       ELSE [order EXCEPT ![1] = order[2], ![2] = order[1]]

\* The snapshot of a harness stage, and that of the stream experiment, whose
\* model is one painted tensor per rank without an optimizer.
HarnessSnapshot(params, moments, steps, progress, swapped) ==
    Snapshot(params, Slots(moments, steps), progress,
             IF swapped THEN SwappedNames(DOMAIN params) ELSE SortedNames(DOMAIN params),
             Bound, NoStreams, {})

Painted(world) == [r \in Ranks(world) |-> <<r, r>>]

StreamSnapshot(weights, streams, reseeds) ==
    Snapshot(weights, [p \in {} |-> 0], [global_step |-> 1], NoOrder, Bound,
             streams, reseeds)
-----------------------------------------------------------------------------
(* The first group.                                                        *)

SnapshotOfVerified ==
    IF spec.kind = "harness"
    THEN HarnessSnapshot(verified.params, verified.moments, verified.steps,
                         verified.progress, FALSE)
    ELSE StreamSnapshot(Painted(spec.worldPre), verified.streams, {})

\* Every rank gathers the full state, rank 0 writes it.
SnapshotPre ==
    /\ phase = "begun"
    /\ phase' = "pre"
    /\ pre' = SnapshotOfVerified
    /\ UNCHANGED <<spec, verified, origin, post, ckpt, loaded, broken, waived, decision>>

\* What the group's layout leaves of a tensor to be saved, put together.
Stored(t) ==
    IF Sharded(t, spec.layoutPre, spec.worldPre)
    THEN FullTensor([r \in Ranks(spec.worldPre) |->
                        Piece(t, spec.worldPre, r)], spec.worldPre)
    ELSE t

\* The slot a rank's streams are declared under: before the fix all ranks of
\* a cell are declared replicas of one object.
Slot(r) == IF spec.kind = "cell" THEN 0 ELSE r

\* dcp.save, and progress.json beside it; of replicas rank 0's is stored.
Save ==
    /\ phase = "pre"
    /\ phase' = "saved"
    /\ ckpt' = [params   |-> [p \in Params |-> Stored(verified.params[p])],
                moments  |-> [p \in Params |-> Stored(verified.moments[p])],
                steps    |-> verified.steps,
                progress |-> verified.progress,
                streams  |-> [s \in {Slot(r) : r \in DOMAIN verified.streams} |->
                                 verified.streams[s]]]
    /\ UNCHANGED <<spec, verified, origin, pre, post, loaded, broken, waived, decision>>
-----------------------------------------------------------------------------
(* The second group.                                                       *)

\* What rank r of the second group loads when the mechanism works.
Delivered(r) ==
    [params   |-> [p \in Params |-> Local(ckpt.params[p], spec.layoutPost, spec.worldPost, r)],
     moments  |-> [p \in Params |-> Local(ckpt.moments[p], spec.layoutPost, spec.worldPost, r)],
     steps    |-> ckpt.steps,
     progress |-> ckpt.progress,
     stream   |-> IF spec.kind = "harness" THEN 0 ELSE ckpt.streams[Slot(r)],
     dropped  |-> {},
     swapped  |-> FALSE]

\* dcp.load into a fresh template, read back with progress.json.
Load ==
    /\ phase = "saved"
    /\ phase' = "loaded"
    /\ loaded' = [r \in Ranks(spec.worldPost) |-> Delivered(r)]
    /\ UNCHANGED <<spec, verified, origin, pre, post, ckpt, broken, waived, decision>>

\* A fault of the mechanism: one rank's part of one parameter comes out wrong.
LoadWrong ==
    /\ phase = "saved"
    /\ spec.kind = "harness" /\ spec.fault = "none"
    /\ phase' = "loaded"
    /\ \E r \in Ranks(spec.worldPost), p \in Params :
         \E wrong \in [DOMAIN Delivered(r).params[p] -> Values] :
           /\ wrong # Delivered(r).params[p]
           /\ loaded' = [s \in Ranks(spec.worldPost) |->
                           IF s = r THEN [Delivered(r) EXCEPT !.params[p] = wrong]
                           ELSE Delivered(s)]
    /\ broken' = TRUE
    /\ UNCHANGED <<spec, verified, origin, pre, post, ckpt, waived, decision>>
-----------------------------------------------------------------------------
(* The injected faults: what each leaves on a rank, as a set of outcomes.  *)

\* The parameter at an index of the sorted names.
Pick(index) == (index % NumParams) + 1

Scrambled(t) ==
    {[i \in DOMAIN t |-> t[f[i]]] :
        f \in {g \in [DOMAIN t -> DOMAIN t] :
                 \A i, j \in DOMAIN t : g[i] = g[j] => i = j}}

\* Adjacent parameters whose parts on this rank have the same shape.
Twins(held) ==
    {p \in Params \ {NumParams} : Len(held.params[p]) = Len(held.params[p + 1])}

\* The first twin is overwritten by its neighbour; without twins the common
\* prefix of two fixed parameters is.
CrossOverwritten(held) ==
    IF Twins(held) # {}
    THEN LET first == CHOOSE p \in Twins(held) : \A q \in Twins(held) : p <= q
         IN [held EXCEPT !.params[first + 1] = held.params[first]]
    ELSE LET from == held.params[Pick(0)]
             n == Lesser(Len(from), Len(held.params[Pick(3)]))
         IN [held EXCEPT !.params[Pick(3)] =
                [i \in DOMAIN @ |-> IF i <= n THEN from[i] ELSE @[i]]]

Faulty(fault, held) ==
    LET PlusOne(v) == IF v = NaN THEN NaN ELSE v + 1
        Even(v) == IF v = NaN THEN NaN ELSE 2 * (v \div 2)  \* a bit of precision lost
    IN CASE fault = "none" -> {held}
         [] fault = "silent_unloaded_param" ->
              {[held EXCEPT !.params[Pick(1)] = fresh] :
                  fresh \in [DOMAIN held.params[Pick(1)] -> Values]}
         [] fault = "value_corruption" ->
              {[held EXCEPT !.params[Pick(2)] = [i \in DOMAIN @ |-> PlusOne(@[i])]]}
         [] fault = "permuted_values" ->
              UNION {{[held EXCEPT !.params[p] = t] : t \in Scrambled(held.params[p])} :
                        p \in Params}
         [] fault = "cross_param_overwrite" -> {CrossOverwritten(held)}
         [] fault = "stale_optimizer_moment" ->
              {[held EXCEPT !.moments[1] = [i \in DOMAIN @ |-> 0]]}
         [] fault = "step_counter_reset" -> {[held EXCEPT !.steps[1] = 0]}
         [] fault = "precision_cast" ->
              {[held EXCEPT !.params[Pick(4)] = [i \in DOMAIN @ |-> Even(@[i])]]}
         [] fault = "progress_reset" -> {[held EXCEPT !.progress["global_step"] = 0]}
         [] fault = "dropped_fqn" -> {[held EXCEPT !.dropped = {1}]}
         [] fault = "reduction_order_swap" -> {[held EXCEPT !.swapped = TRUE]}

\* get_fault(spec.fault) on every rank, before the snapshot.
Inject ==
    /\ phase = "loaded"
    /\ phase' = "injected"
    /\ loaded' \in {l \in [DOMAIN loaded -> UNION {Faulty(spec.fault, loaded[r]) :
                                                    r \in DOMAIN loaded}] :
                       \A r \in DOMAIN loaded : l[r] \in Faulty(spec.fault, loaded[r])}
    /\ UNCHANGED <<spec, verified, origin, pre, post, ckpt, broken, waived, decision>>

\* Mutant: the snapshot is taken of what was stored.
MaterializedStored(field, p) == ckpt[field][p]

\* _materialize_full on rank 0: pieces are gathered, replicas are its own.
Materialized(field, p) ==
    IF Sharded(ckpt[field][p], spec.layoutPost, spec.worldPost)
    THEN FullTensor([r \in DOMAIN loaded |-> loaded[r][field][p]], spec.worldPost)
    ELSE loaded[0][field][p]

\* Mutant: dropping a parameter drops its optimizer slots as well.
SnapshotWithoutSlots ==
    HarnessSnapshot([p \in Params \ loaded[0].dropped |-> Materialized("params", p)],
                    [p \in Params \ loaded[0].dropped |-> Materialized("moments", p)],
                    loaded[0].steps, loaded[0].progress, loaded[0].swapped)

\* _snapshot: what was materialized, without a dropped parameter, and the
\* order of the names that are left.
SnapshotOfLoaded ==
    HarnessSnapshot([p \in Params \ loaded[0].dropped |-> Materialized("params", p)],
                    [p \in Params |-> Materialized("moments", p)],
                    loaded[0].steps, loaded[0].progress, loaded[0].swapped)

LoadedStreams == [r \in DOMAIN loaded |-> loaded[r].stream]

SnapshotPost ==
    /\ phase = "injected"
    /\ phase' = "post"
    /\ post' = IF spec.kind = "harness" THEN SnapshotOfLoaded
               ELSE StreamSnapshot(Painted(spec.worldPost), LoadedStreams, spec.reseeds)
    /\ UNCHANGED <<spec, verified, origin, pre, ckpt, loaded, broken, waived, decision>>
-----------------------------------------------------------------------------
(* The gate.                                                               *)

\* certify_transition
Certify ==
    /\ phase = "post"
    /\ phase' = "decided"
    /\ decision' = IF Violated(pre, post) = {} THEN "commit" ELSE "abort"
    /\ UNCHANGED <<spec, verified, origin, pre, post, ckpt, loaded, broken, waived>>

\* The state the second group trains on, as its rank 0 broadcasts it; the
\* stream experiment moves nothing but streams.
Taken ==
    IF spec.kind = "harness"
    THEN [params   |-> [p \in Params |-> Materialized("params", p)],
          moments  |-> [p \in Params |-> Materialized("moments", p)],
          steps    |-> [p \in Params |-> loaded[0].steps[p]],
          progress |-> loaded[0].progress,
          streams  |-> NoStreams]
    ELSE [verified EXCEPT !.streams = LoadedStreams]

\* commit_with_certificate: a committed state is the new verified one, an
\* aborted transition leaves the last one; then the next transition starts.
Proceed ==
    /\ phase = "decided"
    /\ verified' = IF decision = "commit" THEN Taken ELSE verified
    /\ waived' = IF decision = "commit" THEN waived \cup spec.reseeds ELSE waived
    /\ spec' = Nothing
    /\ phase' = "trained" /\ decision' = "none" /\ broken' = FALSE
    /\ pre' = Nothing /\ post' = Nothing /\ ckpt' = Nothing /\ loaded' = Nothing
    /\ UNCHANGED origin

Next ==
    \/ Begin \/ SnapshotPre \/ Save \/ Load \/ LoadWrong \/ Inject \/ SnapshotPost
    \/ Certify \/ Proceed

Spec == Init /\ [][Next]_vars
-----------------------------------------------------------------------------
(* What must hold.                                                         *)

\* However many transitions, commits and aborts, and whatever was injected or
\* went wrong, the verified state is the one training left behind: every
\* parameter, slot, counter and stream, but for the streams whose seeding
\* anew was declared.
NoDrift ==
    /\ verified.params = origin.params /\ verified.moments = origin.moments
    /\ verified.steps = origin.steps /\ verified.progress = origin.progress
    /\ DOMAIN verified.streams = DOMAIN origin.streams
    /\ \A r \in DOMAIN origin.streams \ waived : verified.streams[r] = origin.streams[r]

\* A decision is one about snapshots of the verified state and of the loaded
\* one, and a commit found nothing violated.
Snapshotted ==
    /\ phase # "trained" /\ spec.kind = "harness" => verified.streams = NoStreams
    /\ phase \in {"pre", "saved", "loaded", "injected", "post", "decided"} =>
          pre = SnapshotOfVerified
    /\ phase \in {"post", "decided"} =>
          post = IF spec.kind = "harness" THEN SnapshotOfLoaded
                 ELSE StreamSnapshot(Painted(spec.worldPost), LoadedStreams, spec.reseeds)
    /\ decision = "commit" => phase = "decided" /\ Violated(pre, post) = {}

\* What training left behind has every parameter, slot and counter.
OriginTyped ==
    /\ origin = [params |-> origin.params, moments |-> origin.moments,
                 steps |-> origin.steps, progress |-> origin.progress,
                 streams |-> origin.streams]
    /\ {origin.params, origin.moments} \subseteq [Params -> Seq(Values)]
    /\ origin.steps \in [Params -> Nat]

\* Together they are inductive: the next verified state is one the last
\* snapshots say is the same.
IInv == OriginTyped /\ Snapshotted /\ NoDrift

\* What is asked of a transition fits the group that holds the verified state.
Asked ==
    phase # "trained" =>
        /\ spec \in HarnessSpecs \cup StreamSpecs
        /\ spec.kind # "harness" => DOMAIN verified.streams = Ranks(spec.worldPre)

\* Splitting and storing a state loses nothing of it.
Checkpointed ==
    phase \in {"saved", "loaded", "injected", "post", "decided"} =>
        ckpt = [params |-> verified.params, moments |-> verified.moments,
                steps |-> verified.steps, progress |-> verified.progress,
                streams |-> [s \in {Slot(r) : r \in DOMAIN verified.streams} |->
                                verified.streams[s]]]

\* The part of a rank's state that a fault reaches.
HarmedBy(fault) ==
    CASE fault \in {"silent_unloaded_param", "value_corruption", "permuted_values",
                    "cross_param_overwrite", "precision_cast"} -> "params"
      [] fault = "stale_optimizer_moment" -> "moments"
      [] fault = "step_counter_reset" -> "steps"
      [] fault = "progress_reset" -> "progress"
      [] fault = "dropped_fqn" -> "dropped"
      [] fault = "reduction_order_swap" -> "swapped"
      [] fault = "none" -> "nothing"

Harmed ==
    IF broken THEN "params" ELSE IF phase = "loaded" THEN "nothing" ELSE HarmedBy(spec.fault)

\* The rest is as delivered, and every row count is.
Resembles(held, delivered, harmed) ==
    /\ harmed = "nothing" => held = delivered
    /\ harmed # "params" => held.params = delivered.params
    /\ harmed # "moments" => held.moments = delivered.moments
    /\ harmed # "steps" => held.steps = delivered.steps
    /\ harmed # "progress" => held.progress = delivered.progress
    /\ harmed # "dropped" => held.dropped = delivered.dropped
    /\ harmed # "swapped" => held.swapped = delivered.swapped
    /\ held.stream = delivered.stream
    /\ held.params \in [Params -> Seq(Int \cup {NaN})]
    /\ \A p \in Params : Len(held.params[p]) = Len(delivered.params[p])

Held ==
    IF phase \in {"loaded", "injected", "post", "decided"}
    THEN /\ DOMAIN loaded = Ranks(spec.worldPost)
         /\ \A r \in DOMAIN loaded : Resembles(loaded[r], Delivered(r), Harmed)
         /\ broken => spec.kind = "harness" /\ spec.fault = "none"
    ELSE ~broken

Decided == phase = "decided" => (decision = "commit" <=> Violated(pre, post) = {})

\* The inductive invariant of the mechanism, on top of that of the gate.
MechanismInv == IInv /\ Asked /\ Checkpointed /\ Held /\ Decided

\* A committed group is one whose every rank holds its own rows of every
\* split parameter: errors of two ranks never cancel out in the gather.
PiecesCertified ==
    decision = "commit" /\ spec.kind = "harness" =>
        \A r \in DOMAIN loaded, p \in Params :
            Sharded(verified.params[p], spec.layoutPost, spec.worldPost) =>
                loaded[r].params[p] = Piece(verified.params[p], spec.worldPost, r)

\* A clean transition between any two layouts and sizes commits, exactly when
\* no parameter has a NaN in it (the checksum is close to no NaN).
AllFinite == \A p \in Params : Finite(verified.params[p])

CleanCommits ==
    phase = "decided" /\ spec.fault = "none" /\ ~broken =>
        CASE spec.kind = "harness" -> decision = "commit" <=> AllFinite
          [] spec.kind = "cell" ->
               decision = "commit" <=>
                   \A r \in DOMAIN verified.streams \ spec.reseeds :
                       verified.streams[r] = verified.streams[0]
          [] spec.kind = "rank" -> decision = "commit"

\* Each fault is attributed to its own family of invariants and to no other.
Families(fault) ==
    CASE fault \in {"silent_unloaded_param", "value_corruption", "permuted_values",
                    "cross_param_overwrite", "precision_cast"} -> {"content_equivalence"}
      [] fault \in {"stale_optimizer_moment", "step_counter_reset"} -> {"optimizer_accounting"}
      [] fault = "progress_reset" -> {"progress_invariant"}
      [] fault = "dropped_fqn" -> {"param_residency", "reduction_order_bound"}
      [] fault = "reduction_order_swap" -> {"reduction_order_bound"}
      [] fault = "none" -> {"content_equivalence"}

FaultsAttributed ==
    phase = "decided" /\ spec.kind = "harness" /\ AllFinite =>
        Violated(pre, post) \subseteq Families(spec.fault)
=============================================================================
