----------------------------- MODULE Certificate -----------------------------
(***************************************************************************)
(* hasagi's transition certificate: snapshots of the logical training      *)
(* state before and after a layout transition, and the six invariants that *)
(* decide whether the transition may be committed.                         *)
(*                                                                         *)
(* A tensor is the sequence of its rows.  Its sha256 fingerprint is        *)
(* abstracted to the tensor itself: equal exactly when dtype, shape and    *)
(* bytes are.  The independent checksum keeps what it computes: count, sum *)
(* of squares and the middle element, none of which accepts a NaN.         *)
(***************************************************************************)
EXTENDS Integers, Sequences, SequencesExt

CONSTANT NaN   \* the not-a-number content of a tensor row

ASSUME NaNAssumption == NaN \notin Int

NoOrder == <<>>   \* reduction_order None: the caller declares no order

Invariants == {"param_residency", "content_equivalence", "optimizer_accounting",
               "progress_invariant", "reduction_order_bound", "aux_stream_residency"}

\* snapshot_from_state_dicts: the caller's full state dicts by name.
Snapshot(params, slots, progress, order, bound, streams, reseeds) ==
    [params |-> params, slots |-> slots, progress |-> progress, order |-> order,
     bound |-> bound, streams |-> streams, reseeds |-> reseeds]

Finite(t) == \A i \in DOMAIN t : t[i] # NaN

\* _independent_checksum of a finite tensor.
Checksum(t) ==
    LET Square(row, sum) == row * row + sum
    IN [numel |-> Len(t),
        l2    |-> FoldSeq(Square, 0, t),
        probe |-> IF t = <<>> THEN 0 ELSE t[Len(t) \div 2 + 1]]

\* l2_close: NaN and infinity are close to nothing, not even to themselves.
Close(t, u) == Finite(t) /\ Finite(u) /\ Checksum(t) = Checksum(u)

ParamResidency(pre, post) == DOMAIN pre.params = DOMAIN post.params

ContentEquivalence(pre, post) ==
    \A f \in DOMAIN pre.params \cap DOMAIN post.params :
        /\ pre.params[f] = post.params[f]
        /\ Close(pre.params[f], post.params[f])

\* A slot the pre side does not have is no violation.
OptimizerAccounting(pre, post) ==
    /\ DOMAIN pre.slots \subseteq DOMAIN post.slots
    /\ \A f \in DOMAIN pre.slots \cap DOMAIN post.slots :
          /\ DOMAIN pre.slots[f] \subseteq DOMAIN post.slots[f]
          /\ \A s \in DOMAIN pre.slots[f] \cap DOMAIN post.slots[f] :
                pre.slots[f][s] = post.slots[f][s]

ProgressInvariant(pre, post) == pre.progress = post.progress

\* A permutation of the declared order is a violation as well.
ReductionOrderBound(pre, post) ==
    /\ pre.order = post.order
    /\ pre.order # NoOrder => pre.bound = post.bound

\* Mutant: the contents of the streams are compared, not who owns them.
AuxStreamsUnowned(pre, post) ==
    LET Contents(streams) == {streams[n] : n \in DOMAIN streams}
    IN /\ DOMAIN pre.streams = DOMAIN post.streams
       /\ Contents(post.streams) \subseteq Contents(pre.streams)

\* A declared reseed waives a stream's content, never its presence.
AuxStreamResidency(pre, post) ==
    /\ DOMAIN pre.streams = DOMAIN post.streams
    /\ \A n \in DOMAIN pre.streams \cap DOMAIN post.streams :
          n \notin pre.reseeds \cup post.reseeds => pre.streams[n] = post.streams[n]

\* TransitionCertificate.check: the invariants with a violation.
Violated(pre, post) ==
    {i \in Invariants :
        CASE i = "param_residency"       -> ~ParamResidency(pre, post)
          [] i = "content_equivalence"   -> ~ContentEquivalence(pre, post)
          [] i = "optimizer_accounting"  -> ~OptimizerAccounting(pre, post)
          [] i = "progress_invariant"    -> ~ProgressInvariant(pre, post)
          [] i = "reduction_order_bound" -> ~ReductionOrderBound(pre, post)
          [] i = "aux_stream_residency"  -> ~AuxStreamResidency(pre, post)}
=============================================================================
