---------------------------- MODULE MCInterBatch ----------------------------
(* Three nodes: alike, uneven, one without capacity, and none with any. *)
EXTENDS InterBatch

MCFleets == {<<1, 1, 1>>, <<1, 2, 1>>, <<2, 0, 1>>, <<0, 0, 0>>}
=============================================================================
