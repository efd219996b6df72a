---------------------------- MODULE MCSemaphore ----------------------------
(* Instances of Semaphore for TLC.                                          *)
EXTENDS Semaphore, TLC

CONSTANTS idle, reaper, w1, w2, w3, s1

Symmetric == Permutations(Workers)
=============================================================================
