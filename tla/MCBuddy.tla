------------------------------ MODULE MCBuddy ------------------------------
(* Instances of Buddy for TLC.                                              *)
EXTENDS Buddy, TLC

CONSTANTS a, b

Symmetric == Permutations(Threads)
=============================================================================
