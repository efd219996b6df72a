------------------------------ MODULE MCSched ------------------------------
(* Instances of Sched for TLC.                                              *)
EXTENDS SchedInv, TLC

CONSTANTS idle, reaper, w1, w2, w3

Symmetric == Permutations(Workers)
=============================================================================
