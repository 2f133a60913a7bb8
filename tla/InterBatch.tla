----------------------------- MODULE InterBatch ------------------------------
(***************************************************************************)
(* The micro-batch scheduler of one pipeline stage: InterBatchScheduler,   *)
(* with a round robin for each direction and two queues per node, and the  *)
(* energy-aware round robin that refreshes its weights from telemetry.     *)
(*                                                                         *)
(* The stage is driven from outside: micro-batches arrive, the stage is    *)
(* ticked, and the gradient of a micro-batch whose forward has left the    *)
(* stage comes back, with or without the node it belongs to.  The          *)
(* energy-aware round robin is not used by the stage; a behaviour is of    *)
(* one or of the other.                                                    *)
(***************************************************************************)
EXTENDS DeficitRoundRobin, Sequences

CONSTANTS
    Fleets,        \* the capacity_flops of the nodes of a stage
    Efficiencies,  \* iterations per joule a node may report, 0 without a report
    RefreshPeriod, \* refresh_period of the energy-aware round robin
    MaxBatches     \* bound: micro-batches of a behaviour

ASSUME InterBatchAssumption ==
    /\ Fleets \subseteq [Nodes -> Nat] /\ Efficiencies \subseteq Nat
    /\ RefreshPeriod \in Nat \ {0}
    /\ MaxBatches \in Nat

\* A node's share of a turn is a whole number of parts, whichever nodes report.
ASSUME WholeParts ==
    \A c \in Fleets : \A raw \in [Nodes -> Efficiencies \cup {0} \cup {c[n] : n \in Nodes}] :
        Total(raw) > 0 => Turn % Total(raw) = 0

Batches == 1 .. MaxBatches
Directions == {"fwd", "bwd"}

VARIABLES
    kind,      \* "stage", "last stage" or "energy"
    capacity,  \* capacity_flops
    deficit,   \* of the round robin of each direction
    weights,   \* _weights of the round robins
    since,     \* _ticks_since_refresh of the energy-aware one
    fwd, bwd,  \* fwd_queue and bwd_queue of each node
    arrived,   \* micro-batches that arrived
    ranF,      \* the node that ran a micro-batch's forward (history)
    ranB,      \* the node that ran its backward (history)
    back,      \* target_node_id its gradient came back with, Nobody without
    earned,    \* what each node earned less the turns it was given (history)
    misses     \* picks that found no node (history)

queues  == <<fwd, bwd>>
history == <<ranF, ranB, back>>
rounds  == <<deficit, earned, misses>>
vars == <<kind, capacity, weights, since, rounds, queues, arrived, history>>

\* Neither a node nor Nobody: nothing has happened to a micro-batch yet.
Unknown == NumNodes + 1

\* _refresh_weights: iterations per joule, or the capacity of a node without a
\* report; nodes near their power cap are left out; FLOPS when nothing is left.
Refreshed ==
    LET Raw(report, saturated) ==
            [n \in Nodes |-> CASE n \in saturated -> 0
                               [] n \notin saturated /\ report[n] > 0 -> report[n]
                               [] OTHER -> capacity[n]]
    IN {IF Total(Raw(report, saturated)) = 0 THEN Normalised(capacity)
        ELSE Normalised(Raw(report, saturated)) :
            report \in [Nodes -> Efficiencies], saturated \in SUBSET Nodes}

\* Some node of an energy-aware round robin has capacity.
Init ==
    /\ kind \in {"stage", "last stage", "energy"}
    /\ capacity \in Fleets
    /\ kind = "energy" => Total(capacity) > 0
    /\ weights \in IF kind = "energy" THEN Refreshed ELSE {Normalised(capacity)}
    /\ since = 0
    /\ deficit = [d \in Directions |-> [n \in Nodes |-> 0]]
    /\ earned = deficit /\ misses = [d \in Directions |-> 0]
    /\ fwd = [n \in Nodes |-> <<>>] /\ bwd = [n \in Nodes |-> <<>>]
    /\ arrived = 0
    /\ ranF = [b \in Batches |-> Unknown] /\ ranB = ranF /\ back = ranF
-----------------------------------------------------------------------------
\* A pick of node by a direction's round robin, and what the histories make of it.
Pick(d, w, node) ==
    /\ node \in Picks(deficit[d], w)
    /\ deficit' = [deficit EXCEPT ![d] = Charged(@, w, node)]
    /\ earned' = [earned EXCEPT ![d] =
                    [n \in Nodes |-> @[n] + w[n] - IF n = node THEN Turn ELSE 0]]
    /\ misses' = [misses EXCEPT ![d] = IF node = Nobody THEN @ + 1 ELSE @]

\* The node picked, or nodes[microbatch_id % len(nodes)].
Dispatched(node, b) == IF node \in Nodes THEN node ELSE (b % NumNodes) + 1

Queue(queue, n, b) == [queue EXCEPT ![n] = Append(@, b)]

EnqueueForward ==
    /\ kind # "energy" /\ arrived < MaxBatches
    /\ arrived' = arrived + 1
    /\ \E node \in Nodes \cup {Nobody} :
         /\ Pick("fwd", weights, node)
         /\ fwd' = Queue(fwd, Dispatched(node, arrived'), arrived')
    /\ UNCHANGED <<kind, capacity, weights, since, bwd, history>>

\* Mutant: the round robin is asked whether a target is given or not.
EnqueueBackwardPicked(b, target) ==
    /\ kind = "stage" /\ ranF[b] # Unknown /\ back[b] = Unknown
    /\ back' = [back EXCEPT ![b] = target]
    /\ \E node \in Nodes \cup {Nobody} :
         /\ Pick("bwd", weights, node)
         /\ bwd' = Queue(bwd, Dispatched(node, b), b)
    /\ UNCHANGED <<kind, capacity, weights, since, fwd, arrived, ranF, ranB>>

\* The gradient of b comes back from the next stage, once.
EnqueueBackward(b, target) ==
    /\ kind = "stage" /\ ranF[b] # Unknown /\ back[b] = Unknown
    /\ back' = [back EXCEPT ![b] = target]
    /\ \/ /\ target = Nobody
          /\ \E node \in Nodes \cup {Nobody} :
               /\ Pick("bwd", weights, node)
               /\ bwd' = Queue(bwd, Dispatched(node, b), b)
       \/ /\ target # Nobody
          /\ bwd' = Queue(bwd, target, b)
          /\ UNCHANGED rounds
    /\ UNCHANGED <<kind, capacity, weights, since, fwd, arrived, ranF, ranB>>

\* R1: a node runs a backward before any forward.
RunsB(n) == bwd[n] # <<>>
RunsF(n) == bwd[n] = <<>> /\ fwd[n] # <<>>

\* Mutant: the forward stream goes first.
TickForwardFirst ==
    /\ kind # "energy"
    /\ \E n \in Nodes : RunsB(n) \/ RunsF(n)
    /\ fwd' = [n \in Nodes |-> IF fwd[n] # <<>> THEN Tail(fwd[n]) ELSE <<>>]
    /\ bwd' = [n \in Nodes |->
                 CASE fwd[n] # <<>> /\ kind = "last stage" -> Append(bwd[n], Head(fwd[n]))
                   [] fwd[n] = <<>> /\ RunsB(n) -> Tail(bwd[n])
                   [] OTHER -> bwd[n]]
    /\ ranF' = [b \in Batches |->
                  IF \E n \in Nodes : fwd[n] # <<>> /\ Head(fwd[n]) = b
                  THEN CHOOSE n \in Nodes : fwd[n] # <<>> /\ Head(fwd[n]) = b ELSE ranF[b]]
    /\ ranB' = [b \in Batches |->
                  IF \E n \in Nodes : fwd[n] = <<>> /\ RunsB(n) /\ Head(bwd[n]) = b
                  THEN CHOOSE n \in Nodes : RunsB(n) /\ Head(bwd[n]) = b ELSE ranB[b]]
    /\ UNCHANGED <<kind, capacity, weights, since, rounds, arrived, back>>

\* Mutant: on the last stage the forward is run, but not taken off its queue
\* while a backward of the node is still to come.
TickPeeks ==
    /\ kind # "energy"
    /\ \E n \in Nodes : RunsB(n) \/ RunsF(n)
    /\ fwd' = [n \in Nodes |-> IF RunsF(n) /\ kind = "stage" THEN Tail(fwd[n]) ELSE fwd[n]]
    /\ bwd' = [n \in Nodes |->
                 CASE RunsB(n) -> Tail(bwd[n])
                   [] RunsF(n) /\ kind = "last stage" -> <<Head(fwd[n])>>
                   [] OTHER -> <<>>]
    /\ ranF' = [b \in Batches |->
                  IF \E n \in Nodes : RunsF(n) /\ Head(fwd[n]) = b
                  THEN CHOOSE n \in Nodes : RunsF(n) /\ Head(fwd[n]) = b ELSE ranF[b]]
    /\ UNCHANGED <<kind, capacity, weights, since, rounds, arrived, ranB, back>>

\* Every node runs one micro-batch; R2: on the last stage a forward is
\* followed by the backward on the same node.
Tick ==
    /\ kind # "energy"
    /\ \E n \in Nodes : RunsB(n) \/ RunsF(n)
    /\ fwd' = [n \in Nodes |-> IF RunsF(n) THEN Tail(fwd[n]) ELSE fwd[n]]
    /\ bwd' = [n \in Nodes |->
                 CASE RunsB(n) -> Tail(bwd[n])
                   [] RunsF(n) /\ kind = "last stage" -> <<Head(fwd[n])>>
                   [] OTHER -> <<>>]
    /\ ranF' = [b \in Batches |->
                  IF \E n \in Nodes : RunsF(n) /\ Head(fwd[n]) = b
                  THEN CHOOSE n \in Nodes : RunsF(n) /\ Head(fwd[n]) = b ELSE ranF[b]]
    /\ ranB' = [b \in Batches |->
                  IF \E n \in Nodes : RunsB(n) /\ Head(bwd[n]) = b
                  THEN CHOOSE n \in Nodes : RunsB(n) /\ Head(bwd[n]) = b ELSE ranB[b]]
    /\ UNCHANGED <<kind, capacity, weights, since, rounds, arrived, back>>

\* EnergyAwareWRR.pick, after whatever telemetry reports by then.
EnergyPick ==
    /\ kind = "energy"
    /\ IF since + 1 >= RefreshPeriod
       THEN weights' \in Refreshed /\ since' = 0
       ELSE since' = since + 1 /\ UNCHANGED weights
    /\ \E node \in Nodes \cup {Nobody} : Pick("fwd", weights', node)
    /\ UNCHANGED <<kind, capacity, queues, arrived, history>>

Next ==
    \/ EnqueueForward
    \/ \E b \in Batches : \E target \in {Nobody, ranF[b]} : EnqueueBackward(b, target)
    \/ Tick
    \/ EnergyPick

Spec == Init /\ [][Next]_vars
-----------------------------------------------------------------------------
(* What must hold.                                                         *)

\* A micro-batch has exactly one place in the queues of a direction, or none.
Once(queue, b) ==
    \E n \in Nodes : \E i \in 1 .. Len(queue[n]) :
        /\ queue[n][i] = b
        /\ \A m \in Nodes : \A k \in 1 .. Len(queue[m]) :
              queue[m][k] = b => m = n /\ k = i

Absent(queue, b) == \A n \in Nodes : \A i \in 1 .. Len(queue[n]) : queue[n][i] # b

\* Its forward has run and its gradient is here, but its backward has not run.
Due(b) ==
    /\ ranF[b] # Unknown /\ ranB[b] = Unknown
    /\ kind = "last stage" \/ back[b] # Unknown

\* No micro-batch is lost, queued twice or run twice: it waits in one place
\* for its forward, then in one place for its backward, which on the last
\* stage follows by itself and elsewhere once its gradient is back.
ExactlyOnce ==
    kind # "energy" =>
        \A b \in 1 .. arrived :
            /\ IF ranF[b] = Unknown THEN Once(fwd, b) ELSE Absent(fwd, b)
            /\ IF Due(b) THEN Once(bwd, b) ELSE Absent(bwd, b)

\* R3: the backward finds its activations, on the node that ran the forward,
\* when it belongs to the last stage or came back with a target.
ActivationsMatched ==
    \A b \in Batches :
        ranB[b] # Unknown /\ back[b] # Nobody => ranB[b] = ranF[b]

\* What R1 and R2 are for: on the last stage no node ever keeps the
\* activations of two micro-batches, however many have arrived.
OneActivation == kind = "last stage" => \A n \in Nodes : Len(bwd[n]) <= 1

\* However many picks were made and however often the weights changed, no
\* node was given more turns than it earned, nor is any owed more turns than
\* there are nodes.  A micro-batch dispatched by its number takes no turn.
FairShare ==
    \A d \in Directions, n \in Nodes :
        0 <= earned[d][n] /\ earned[d][n] <= NumNodes * Turn

\* All the micro-batches ever dispatched out of turn are no more than there are
\* nodes (as many, when floats fall short of the turn they all have earned).
FewMisses ==
    Total(capacity) > 0 => \A d \in Directions : misses[d] <= NumNodes
-----------------------------------------------------------------------------
(* The inductive invariant behind R1 to R3: what a queued micro-batch      *)
(* stands for.                                                             *)

\* A forward is still to run, and queued once.
Waiting ==
    \A n \in Nodes : \A i \in 1 .. Len(fwd[n]) :
        /\ fwd[n][i] <= arrived /\ ranF[fwd[n][i]] = Unknown
        /\ \A m \in Nodes : \A k \in 1 .. Len(fwd[m]) :
              fwd[m][k] = fwd[n][i] => m = n /\ k = i

\* A backward follows its forward, on the same node but for a gradient that
\* came back without a target.
Owned ==
    \A n \in Nodes : \A i \in 1 .. Len(bwd[n]) :
        /\ ranF[bwd[n][i]] # Unknown
        /\ back[bwd[n][i]] # Nobody => ranF[bwd[n][i]] = n

\* Nothing has happened to a micro-batch that has not arrived.
Unseen == \A b \in Batches : b > arrived => ranF[b] = Unknown

Queued ==
    /\ fwd \in [Nodes -> Seq(Batches)] /\ bwd \in [Nodes -> Seq(Batches)]
    /\ arrived \in Nat
    /\ ranF \in [Batches -> Nodes \cup {Unknown}] /\ ranB \in [Batches -> Nodes \cup {Unknown}]
    /\ back \in [Batches -> Nodes \cup {Nobody, Unknown}]

\* Nothing comes back, or runs backward, before its turn; what is queued has
\* arrived, and what has arrived may be counted.
Ordered ==
    /\ arrived <= MaxBatches
    /\ \A b \in Batches :
         /\ ranF[b] = Unknown => back[b] = Unknown /\ ranB[b] = Unknown
         /\ kind = "stage" /\ back[b] = Unknown => ranB[b] = Unknown

\* Queues and histories agree: this is what every step keeps, and what R1 to
\* R3 rest on.
IInv == Queued /\ Unseen /\ Waiting /\ Owned /\ OneActivation /\ ActivationsMatched

\* With it, what has been queued for a micro-batch is exactly what is still due.
OnceInv == IInv /\ Ordered /\ ExactlyOnce
-----------------------------------------------------------------------------
(* The inductive invariant of the round robins.                            *)

\* The parts all nodes earn in a pick.
PerPick == IF Total(capacity) > 0 THEN Turn ELSE 0

\* Every pick but a missed one takes out as much as was earned: the deficits
\* are the turns that were missed.
RoundInv ==
    /\ capacity \in Fleets /\ (kind = "energy" => Total(capacity) > 0)
    /\ weights \in [Nodes -> Nat] /\ Total(weights) = PerPick
    /\ deficit \in [Directions -> [Nodes -> Nat]] /\ earned = deficit
    /\ misses \in [Directions -> Nat]
    /\ \A d \in Directions : Total(deficit[d]) = misses[d] * PerPick
    /\ FewMisses
=============================================================================
