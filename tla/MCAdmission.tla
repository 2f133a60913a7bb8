---------------------------- MODULE MCAdmission -----------------------------
(* Every non-decreasing curve of a small size, every call, every budget;   *)
(* every pair of small profiles, every start, every number of GPUs.        *)
EXTENDS Sharing

\* Profiles of two and three GPUs whose steps are at most two.
MCProfiles ==
    {[rate |-> <<1, 1 + a, 1 + a + b>>, power |-> <<1, 1 + c, 1 + c + d>>] :
        a \in 0 .. 2, b \in 0 .. 2, c \in 0 .. 2, d \in 0 .. 2}

Shaped(p) ==
    /\ p.rate[3] - p.rate[2] <= p.rate[2] - p.rate[1]
    /\ p.power[3] - p.power[2] >= p.power[2] - p.power[1]

MCSmallProfiles ==
    {p \in MCProfiles : Shaped(p)}
        \cup {[rate |-> <<1, 1 + a>>, power |-> <<1, 1 + c>>] : a \in 0 .. 2, c \in 0 .. 2}
=============================================================================
