------------------------------ MODULE RankState ------------------------------
(***************************************************************************)
(* The training state a process group holds, as the reshard path of        *)
(* tare/tare/state/reshard.py sees it: every rank has a local part, and    *)
(* the layout (plain, ddp or fsdp) says what a rank's local part is and    *)
(* which full state can be read back out of it.                            *)
(*                                                                         *)
(* A tensor is one abstract value, a point of a grid.  Values up to        *)
(* F32Exact are represented exactly by a 32-bit float; above it only the   *)
(* even ones are (the code's 2^24 limit, scaled down), and NaN compares    *)
(* with nothing.  Tensors up to Atol steps of the grid apart pass the      *)
(* certificate as equal (the code's atol, 1e-6 unless a caller says        *)
(* otherwise; its limit and the grid's steps are not to scale).            *)
(***************************************************************************)
EXTENDS Integers, FiniteSets

CONSTANTS
    World,     \* ranks in the process group (dist.get_world_size())
    Params,    \* parameter tensors of the model, by fully qualified name
    Buffers,   \* buffer tensors (BatchNorm running statistics)
    Owner,     \* Owner[p]: the rank that keeps parameter p's flat shard
    Values,    \* the contents a tensor may have
    Learned,   \* bound: those of them that training leaves in a tensor
    Momenta,   \* the contents an optimizer may keep for a parameter
    NaN,       \* the not-a-number content (it may or may not be in Values)
    Freed,     \* what a rank holds for a parameter sharded away from it
    F32Exact,  \* the largest integer below which float32 is exact
    Atol       \* the difference the certificate lets pass

Ranks   == 0 .. World - 1
Entries == Params \cup Buffers
Layouts == {"plain", "ddp", "fsdp"}

ASSUME StateAssumption ==
    /\ World \in Nat \ {0}
    /\ Params \cap Buffers = {}
    /\ Owner \in [Params -> Ranks]
    /\ F32Exact \in Nat
    /\ Values \ {NaN} \subseteq 0 .. F32Exact + 1
    /\ Atol \in Nat
    /\ Learned \subseteq Values
    /\ Freed \notin Values \cup Momenta
    /\ NaN \notin Nat
    /\ NaN # Freed
    /\ \A v \in Values : v # NaN /\ v > F32Exact => v - (v % 2) \in Values

FullState  == [Entries -> Values]
LocalState == [Entries -> Values \cup {Freed}]
FullOptim  == [Params -> Momenta]
LocalOptim == [Params -> Momenta \cup {Freed}]

-----------------------------------------------------------------------------
(* What each wrapper keeps on a rank, and what is read back through it.    *)

\* FSDP keeps a parameter only on its owner; buffers are never sharded.
Shard(full, r) ==
    [e \in DOMAIN full |->
        IF e \in Params /\ Owner[e] # r THEN Freed ELSE full[e]]

\* The FULL_STATE_DICT gather on rank r: each parameter from its owner's
\* shard, buffers from rank r itself.
Gather(local, r) ==
    [e \in DOMAIN local[r] |->
        IF e \in Params THEN local[Owner[e]][e] ELSE local[r][e]]

\* A plain or ddp rank reads its own copy, an fsdp rank gathers.
Logical(layout, local, r) ==
    IF layout = "fsdp" THEN Gather(local, r) ELSE local[r]

-----------------------------------------------------------------------------
(* The float32 transport and the comparison of the certificate.            *)

\* Mutant: the limit is taken one too low and the rounding goes up.
F32Up(v) == IF v # NaN /\ v >= F32Exact THEN v + (v % 2) ELSE v

\* flatten_state stores every tensor as float32.
F32(v) == IF v # NaN /\ v > F32Exact THEN v - (v % 2) ELSE v

\* unflatten(unshard(shard(flatten(state)))): the padding and the cuts
\* disappear again, the conversion to float32 stays.
RoundTrip(full) == [e \in DOMAIN full |-> F32(full[e])]

Distance(a, b) == IF a < b THEN b - a ELSE a - b

\* verify compares float32 images up to atol, and folds the differences with
\* Python's max(max_diff, diff), which keeps max_diff when diff is NaN.
TensorMatches(a, b) == NaN \in {a, b} \/ Distance(F32(a), F32(b)) <= Atol

Verified(captured, other) ==
    \A e \in DOMAIN captured : TensorMatches(captured[e], other[e])

\* What the certificate is for: contents no further than Atol apart, NaN only
\* where there was NaN.
Near(a, b) == a = b \/ (NaN \notin {a, b} /\ Distance(a, b) <= Atol)

Close(full, other) == \A e \in Entries : Near(full[e], other[e])

-----------------------------------------------------------------------------
(* The states training can put a group in (external: torch's wrappers).    *)

\* An fsdp rank holds its own shards; buffers are nobody's.
Shards(whole) ==
    {local \in [Ranks -> whole] :
        \A r \in Ranks : \A e \in DOMAIN local[r] :
            local[r][e] = Freed <=> e \in Params /\ Owner[e] # r}

ShardedStates == Shards([Entries -> Learned \cup {Freed}])
ShardedOptims == Shards(LocalOptim)

\* A plain or ddp rank holds everything.
ReachableStates(layout) == IF layout = "fsdp" THEN ShardedStates ELSE [Ranks -> [Entries -> Learned]]
ReachableOptims(layout) == IF layout = "fsdp" THEN ShardedOptims ELSE [Ranks -> FullOptim]

\* The ranks hold the same parameters and the same optimizer state.  Under
\* ddp, where all apply the same gradients, they stay in step; their buffers
\* come of each rank's own last forward pass.
InStep(local, opt) ==
    \A r \in Ranks :
        /\ \A x \in Params : local[r][x] = local[0][x]
        /\ opt[r] = opt[0]
=============================================================================
