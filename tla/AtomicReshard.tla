---------------------------- MODULE AtomicReshard ----------------------------
(***************************************************************************)
(* What reshard.py promises about one group: a reshard moves the whole     *)
(* group to the new layout or leaves the whole group in the old one.  A    *)
(* commit lets every tensor of every rank differ from the one it had by no *)
(* more than the certificate's tolerance, and an abort gives the states    *)
(* back as they were, but that the ranks of a ddp group may all be given   *)
(* rank 0's, which differs from theirs in the buffers while they are in    *)
(* step.  Momenta are never changed, but that fsdp keeps only those of a   *)
(* parameter's owner.                                                      *)
(***************************************************************************)
EXTENDS RankState

VARIABLES
    mode,      \* the layout of the group
    moving,    \* a reshard is under way
    goal,      \* the layout the last reshard asked for
    content,   \* content[r]: the full model state rank r reads back
    moments    \* moments[r]: the optimizer state rank r reads back

avars == <<mode, moving, goal, content, moments>>

AInit ==
    /\ mode \in Layouts
    /\ moving = FALSE
    /\ goal \in Layouts
    /\ content \in [Ranks -> FullState]
    /\ moments \in [Ranks -> FullOptim]

Train ==
    /\ ~moving
    /\ content' \in [Ranks -> FullState]
    /\ moments' \in [Ranks -> FullOptim]
    /\ UNCHANGED <<mode, moving, goal>>

Begin ==
    /\ ~moving
    /\ moving' = TRUE
    /\ goal' \in Layouts
    /\ UNCHANGED <<mode, content, moments>>

\* What fsdp keeps of the momenta of all ranks.
OwnersMomenta == [r \in Ranks |-> [x \in Params |-> moments[Owner[x]][x]]]

\* A commit changes the layout, and the contents within the tolerance.
Commit ==
    /\ moving
    /\ moving' = FALSE
    /\ mode' = goal
    /\ content' \in [Ranks -> FullState]
    /\ \A r \in Ranks : Close(content'[r], content[r])
    /\ moments' = IF goal = "fsdp" THEN OwnersMomenta ELSE moments
    /\ UNCHANGED goal

\* An abort changes nothing, but a ddp group may be given rank 0's state.
Abort ==
    /\ moving
    /\ moving' = FALSE
    /\ \/ UNCHANGED content
       \/ mode = "ddp" /\ content' = [r \in Ranks |-> content[0]]
    /\ UNCHANGED <<mode, goal, moments>>

ANext == Train \/ Begin \/ Commit \/ Abort

ASpec == AInit /\ [][ANext]_avars
=============================================================================
