------------------------------ MODULE Sharing -------------------------------
(***************************************************************************)
(* What mss.py is called for: the admission of one job, or the allocation  *)
(* of the GPUs left to those admitted.  The two share no state.            *)
(***************************************************************************)
EXTENDS Admission, GreedyAllocation

NoAdmission ==
    /\ curve = [s \in Shares |-> 0] /\ iters = 0 /\ deadline = 0 /\ affordable = {}
    /\ pc = "done" /\ lo = 1 /\ hi = CurveGpus /\ x = 1 /\ gpus = 0

SharingInit == (Init /\ GreedyIdle) \/ (NoAdmission /\ GreedyCall)

SharingNext == (Next /\ UNCHANGED greedyVars) \/ (Give /\ UNCHANGED vars)

SharingSpec ==
    /\ SharingInit /\ [][SharingNext]_<<vars, greedyVars>>
    /\ WF_<<vars, greedyVars>>(SharingNext)
-----------------------------------------------------------------------------
\* Every call returns: the binary search narrows its bounds to one share, the
\* walk runs off the end of the curve, and the allocator out of GPUs or takers.
Returns == <>[](pc = "done" /\ ~CanGive)
=============================================================================
