------------------------------- MODULE Pages -------------------------------
(* What an allocator promises its callers: a thread is given n consecutive  *)
(* units that nobody else has, and keeps them until it gives them back.  The *)
(* units are page frames for mm_operations and bytes for kmalloc             *)
(* (include/mm.h).                                                          *)
EXTENDS Integers

CONSTANTS
    Threads,    \* the threads that allocate
    Managed,    \* the units the allocator was given
    Sizes       \* the numbers of units it hands out

VARIABLE held   \* each thread's allocations, <<first unit, number>>

RangeOf(b) == b[1] .. b[1] + b[2] - 1

Init == held = [t \in Threads |-> {}]

Grant(t, b) ==
    /\ RangeOf(b) \subseteq Managed
    /\ \A u \in Threads : \A c \in held[u] : RangeOf(b) \cap RangeOf(c) = {}
    /\ held' = [held EXCEPT ![t] = @ \cup {b}]

GiveBack(t, b) ==
    /\ b \in held[t]
    /\ held' = [held EXCEPT ![t] = @ \ {b}]

Next == \E t \in Threads, f \in Managed, n \in Sizes :
    Grant(t, <<f, n>>) \/ GiveBack(t, <<f, n>>)

Spec == Init /\ [][Next]_held
=============================================================================
