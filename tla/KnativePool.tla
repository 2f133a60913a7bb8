---------------------------- MODULE KnativePool -----------------------------
(***************************************************************************)
(* KnativePool.scale against a cluster that answers in its own time.  A    *)
(* patch pins min-scale and max-scale to the target; when it changes them  *)
(* it makes a new revision, whose pods are created while those of earlier  *)
(* revisions drain.  scale polls the pods until there are enough of them,  *)
(* or until its timeout.  A pod that drains may still be Ready, and scale  *)
(* counts it; observe does not.                                            *)
(***************************************************************************)
EXTENDS Naturals

CONSTANT MaxReplicas   \* bound: largest target

ASSUME PoolAssumption == MaxReplicas \in Nat \ {0}

VARIABLES
    spec,     \* min-scale = max-scale of the service
    pods,     \* pods of this revision, starting and ready, and of older ones
    call,     \* the scale under way: its target, wait_for_ready, how far it is
    result,   \* KnativeScaleResult of the last call that returned
    patched   \* older pods there were just after the last patch (history)

poolVars == <<spec, pods, call, result, patched>>

Live == pods.starting + pods.ready
Active == Live + pods.old

PoolInit ==
    /\ spec = 0 /\ patched = 0
    /\ pods = [starting |-> 0, ready |-> 0, old |-> 0]
    /\ call = [pc |-> "none", target |-> 0, wait |-> FALSE]
    /\ result = [target |-> 0, timedOut |-> FALSE]

\* _patch_annotations, the start of a call.
Patch(target, wait) ==
    /\ call.pc # "polling"
    /\ spec' = target
    /\ pods' = IF target = spec THEN pods
               ELSE [starting |-> 0, ready |-> 0, old |-> Active]
    /\ patched' = pods'.old
    /\ call' = [pc |-> "polling", target |-> target, wait |-> wait]
    /\ UNCHANGED result

\* Mutant: a drain is over when no pod is ready.
EnoughReady(observed) ==
    IF call.target = 0 THEN observed = 0
    ELSE IF call.wait THEN observed >= call.target ELSE Active >= call.target

\* The condition of the poll loop, for the number of pods seen ready.
Enough(observed) ==
    IF call.target = 0 THEN Active = 0
    ELSE IF call.wait THEN observed >= call.target ELSE Active >= call.target

\* A poll sees enough pods, and scale returns; of the older pods any number
\* may still be ready.
PollReturns ==
    /\ call.pc = "polling"
    /\ \E lingering \in 0 .. pods.old : Enough(pods.ready + lingering)
    /\ result' = [target |-> call.target, timedOut |-> FALSE]
    /\ call' = [call EXCEPT !.pc = "returned"]
    /\ UNCHANGED <<spec, pods, patched>>

\* Mutant: the poll loop has no timeout.
NeverTimesOut ==
    /\ call.pc = "polling" /\ FALSE
    /\ UNCHANGED poolVars

\* The timeout fires after a poll that saw too few, or too many.
PollTimesOut ==
    /\ call.pc = "polling"
    /\ \E lingering \in 0 .. pods.old : ~Enough(pods.ready + lingering)
    /\ result' = [target |-> call.target, timedOut |-> TRUE]
    /\ call' = [call EXCEPT !.pc = "returned"]
    /\ UNCHANGED <<spec, pods, patched>>

\* kubectl fails, in the patch (which then changed nothing) or in a poll, and
\* scale raises.
CallRaises ==
    /\ call.pc = "polling"
    /\ call' = [call EXCEPT !.pc = "raised"]
    /\ UNCHANGED <<spec, pods, result, patched>>

PatchRaises ==
    /\ call.pc # "polling"
    /\ call' = [call EXCEPT !.pc = "raised"]
    /\ UNCHANGED <<spec, pods, result, patched>>

\* The cluster: pods of the revision are created up to the target and become
\* ready, older ones go.
PodCreated ==
    /\ Live < spec
    /\ pods' = [pods EXCEPT !.starting = @ + 1]
    /\ UNCHANGED <<spec, call, result, patched>>

PodReady ==
    /\ pods.starting > 0
    /\ pods' = [starting |-> pods.starting - 1, ready |-> pods.ready + 1, old |-> pods.old]
    /\ UNCHANGED <<spec, call, result, patched>>

PodGone ==
    /\ pods.old > 0
    /\ pods' = [pods EXCEPT !.old = @ - 1]
    /\ UNCHANGED <<spec, call, result, patched>>

Cluster == PodCreated \/ PodReady \/ PodGone
=============================================================================
