---------------------------- MODULE MCTransition ----------------------------
(* Two parameters, of four rows and of two: three ranks cannot split the
   smaller one, and leave the last rank without a row of the larger one. *)
EXTENDS Transition

MCRows == <<4, 2>>

\* Every finite content of the larger parameter, and one with a NaN.
MCTrained ==
    {[params |-> <<t, <<0, 1>>>>, moments |-> <<<<1, 0, 1, 1>>, <<1, 0>>>>] :
        t \in [1 .. 4 -> {0, 1}] \cup (IF NaN \in Values THEN {<<0, 1, NaN, 1>>} ELSE {})}
=============================================================================
