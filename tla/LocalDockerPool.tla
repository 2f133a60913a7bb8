-------------------------- MODULE LocalDockerPool ---------------------------
(***************************************************************************)
(* LocalDockerPool.scale for one job: containers named by their index,     *)
(* started one by one (docker run raises when it fails, and when the name  *)
(* is still taken) and stopped from the last one down (docker stop may     *)
(* fail, and nobody looks).  A container may also end by itself.           *)
(***************************************************************************)
EXTENDS Naturals, Sequences, SequencesExt

CONSTANT MaxWorkers   \* bound: largest target

ASSUME WorkersAssumption == MaxWorkers \in Nat \ {0}

VARIABLES
    spawned,     \* the indices in `spawned`, in its order
    containers,  \* the containers there are
    scaling,     \* the last call: its target, and how far it is
    troubled     \* a stop failed or a container ended by itself (history)

dockerVars == <<spawned, containers, scaling, troubled>>

Called == scaling.pc = "called"

DockerInit ==
    /\ spawned = <<>> /\ containers = {} /\ scaling = [pc |-> "returned", to |-> 0]
    /\ troubled = FALSE

\* scale is called; the names it has count as running, whatever they do.
BeginScale(target) ==
    /\ ~Called
    /\ scaling' = [pc |-> "called", to |-> target]
    /\ UNCHANGED <<spawned, containers, troubled>>

\* _spawn of the next index.
Spawn ==
    /\ Called /\ Len(spawned) < scaling.to
    /\ Len(spawned) \notin containers
    /\ containers' = containers \cup {Len(spawned)}
    /\ spawned' = Append(spawned, Len(spawned))
    /\ UNCHANGED <<scaling, troubled>>

SpawnRaises ==
    /\ Called /\ Len(spawned) < scaling.to
    /\ scaling' = [scaling EXCEPT !.pc = "raised"]
    /\ UNCHANGED <<spawned, containers, troubled>>

\* Mutant: scale stops the first names of the list.
KillFirst(works) ==
    /\ Called /\ Len(spawned) > scaling.to
    /\ containers' = IF works THEN containers \ {Head(spawned)} ELSE containers
    /\ spawned' = Tail(spawned)
    /\ troubled' = (troubled \/ ~works)
    /\ UNCHANGED scaling

\* _kill of the next name beyond the target, and its removal from the list.
Kill(works) ==
    /\ Called /\ Len(spawned) > scaling.to
    /\ LET name == spawned[scaling.to + 1]
       IN  /\ containers' = IF works THEN containers \ {name} ELSE containers
           /\ spawned' = RemoveAt(spawned, scaling.to + 1)
    /\ troubled' = (troubled \/ ~works)
    /\ UNCHANGED scaling

EndScale ==
    /\ Called /\ Len(spawned) = scaling.to
    /\ scaling' = [scaling EXCEPT !.pc = "returned"]
    /\ UNCHANGED <<spawned, containers, troubled>>

ContainerEnds ==
    /\ \E c \in containers : containers' = containers \ {c}
    /\ troubled' = TRUE
    /\ UNCHANGED <<spawned, scaling>>
=============================================================================
