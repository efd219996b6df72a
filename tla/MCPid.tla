-------------------------------- MODULE MCPid --------------------------------
(* Instances of Pid for TLC.                                                 *)
EXTENDS Pid, TLC

CONSTANTS idle, t1, t2, t3, t4

Symmetric == Permutations({t1, t2, t3, t4})
=============================================================================
