------------------------------- MODULE MCUart -------------------------------
(* Instances of Uart for TLC.                                               *)
EXTENDS Uart

CONSTANTS t1, t2

MCChars == {"a"}
MCKeys == {"CR", "DEL"}
=============================================================================
