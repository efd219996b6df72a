-------------------------------- MODULE Fifo --------------------------------
(* What the two buffers of the UART driver promise: characters come out in  *)
(* the order in which they went in, each once, as long as there is room.    *)
(* An overrun spoils the characters that wait, but not their number.        *)
EXTENDS Integers, Sequences

CONSTANTS
    Items,
    Cap         \* the number of items there is room for

VARIABLE queue

Init == queue = <<>>

Put == \E c \in Items : Len(queue) < Cap /\ queue' = Append(queue, c)

Overrun == Len(queue) >= Cap /\ Len(queue') = Len(queue) + 1

Get == queue # <<>> /\ queue' = Tail(queue)

Next == Put \/ Overrun \/ Get

Spec == Init /\ [][Next]_queue
=============================================================================
