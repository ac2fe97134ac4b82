-------------------------- MODULE MCControlDevice --------------------------
(* Instances of ControlDevice for TLC.                                     *)
EXTENDS ControlDevice, TLC

\* An error, success, and a count.
SomeResults == {-5, 0, 1}

Symmetric == Permutations(Threads)
=============================================================================
