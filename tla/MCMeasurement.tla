---------------------------- MODULE MCMeasurement ----------------------------
(* A small instance of Measurement for TLC.                                *)
EXTENDS Measurement, TLC

CONSTANTS w1, w2

TwoWorkers == {w1, w2}
Mixed      == {[kind |-> "read", need |-> 1], [kind |-> "stat", need |-> 1],
               [kind |-> "write", need |-> 3]}
Sym        == Permutations(TwoWorkers)
=============================================================================
