----------------------------- MODULE MCWorkers ------------------------------
(* Each client in turn, with small bounds.                                 *)
EXTENDS Workers

CONSTANTS r1, r2, r3   \* requests

MCEndpoints == [r \in Requests |-> IF r = r3 THEN "reshard" ELSE "work"]
=============================================================================
