---------------------------- MODULE MCLiveRewrap ----------------------------
(* Small groups for LiveRewrap: the last rank owns the parameter p, rank 0
   every other one, so a ddp broadcast and an fsdp gather read different
   ranks. *)
EXTENDS LiveRewrap

CONSTANTS p, b

MCOwner == [x \in Params |-> IF x = p THEN World - 1 ELSE 0]
=============================================================================
