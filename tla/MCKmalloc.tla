----------------------------- MODULE MCKmalloc -----------------------------
(* Instances of Kmalloc for TLC.                                            *)
EXTENDS Kmalloc

CONSTANTS t1, t2
=============================================================================
