------------------------------ MODULE MCIt8613 ------------------------------
(* Two ugreenctl processes on a model whose `sys` target is a fan pair. *)
EXTENDS It8613

MCTargets == {"sys"}
MCOutputs == [t \in MCTargets |-> <<"pwm3", "pwm4">>]
=============================================================================
