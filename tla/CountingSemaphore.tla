------------------------- MODULE CountingSemaphore -------------------------
(* What counting semaphores promise (include/semaphore.h): a post is one    *)
(* permit, a permit lets one thread through, and a thread gets past those   *)
(* that wait only if there are more permits than they need.                 *)
EXTENDS Integers, FiniteSets

CONSTANTS Threads, Sems

VARIABLES
    permits,    \* posted and not yet used, of each semaphore
    waiting     \* the threads that wait for one

Init == permits = [s \in Sems |-> 0] /\ waiting = [s \in Sems |-> {}]

Use(s) == permits' = [permits EXCEPT ![s] = @ - 1]

Pass(s) == permits[s] > Cardinality(waiting[s]) /\ Use(s) /\ UNCHANGED waiting

Block(s, t) ==
    /\ permits[s] <= Cardinality(waiting[s]) /\ t \notin waiting[s]
    /\ waiting' = [waiting EXCEPT ![s] = @ \cup {t}]
    /\ UNCHANGED permits

Post(s) == permits' = [permits EXCEPT ![s] = @ + 1] /\ UNCHANGED waiting

Release(s, t) ==
    /\ permits[s] > 0 /\ t \in waiting[s]
    /\ Use(s)
    /\ waiting' = [waiting EXCEPT ![s] = @ \ {t}]

Next == \E s \in Sems : Pass(s) \/ Post(s) \/ \E t \in Threads : Block(s, t) \/ Release(s, t)

Spec == Init /\ [][Next]_<<permits, waiting>>
=============================================================================
