-------------------------- MODULE MCScatterGather --------------------------
(* Instances of ScatterGather for TLC.                                     *)
EXTENDS ScatterGather, TLC

Symmetric == Permutations(Threads)
=============================================================================
