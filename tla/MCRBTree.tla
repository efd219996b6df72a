------------------------------ MODULE MCRBTree ------------------------------
(* Instances of RBTree for TLC.                                              *)
EXTENDS RBTree

CONSTANT nil

\* The nodes are numbers; two of them share a key.
MCKey == [n \in Nodes |-> IF n <= 2 THEN 2 ELSE n]
=============================================================================
