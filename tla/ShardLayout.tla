---------------------------- MODULE ShardLayout -----------------------------
(***************************************************************************)
(* How the checkpoint layouts of hasagi's harness place tensors on ranks:  *)
(* full(N) replicates every tensor, shard(N) splits the rows of each large *)
(* enough tensor into N chunks of equal size, the last ones shorter.       *)
(***************************************************************************)
EXTENDS Integers, Sequences, SequencesExt

\* Mutant: the chunk is rounded down, and rows after the last chunk are lost.
ChunkDown(n, world) == n \div world

\* The rows of one chunk, rounded up.
Chunk(n, world) == (n + world - 1) \div world

Lesser(n, m) == IF n <= m THEN n ELSE m

\* The rows rank r holds of a tensor split over world ranks: none, when the
\* ranks before it took them all.
Piece(t, world, r) ==
    SubSeq(t, r * Chunk(Len(t), world) + 1,
              Lesser((r + 1) * Chunk(Len(t), world), Len(t)))

\* _to_layout_sd splits a tensor only when each rank can get a row.
Sharded(t, layout, world) == layout = "shard" /\ world > 1 /\ Len(t) >= world

Local(t, layout, world, r) ==
    IF Sharded(t, layout, world) THEN Piece(t, world, r) ELSE t

\* DTensor.full_tensor: the pieces, in the order of the ranks.
FullTensor(pieces, world) == FlattenSeq([k \in 1 .. world |-> pieces[k - 1]])
=============================================================================
