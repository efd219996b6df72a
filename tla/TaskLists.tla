----------------------------- MODULE TaskLists -----------------------------
(* The lists a thread can be linked into and the operations on them:        *)
(* the intrusive list_node of include/list.h, the task queues of            *)
(* kernel/task_queue.c and the bitmap-indexed run queues of                 *)
(* kernel/sched_rr.c.                                                       *)
(*                                                                          *)
(* A task_t has ONE queue_node, so one function `list` gives the content of *)
(* every list head, and list_del removes a thread from whichever list it is *)
(* on, as the C code does: it is never told the list.                       *)
(*                                                                          *)
(* These are the bodies of the operations, between the spin_lock and the    *)
(* spin_unlock; taking and releasing the lock are steps of the caller       *)
(* (module Sched).                                                          *)
EXTENDS Integers, Sequences, SequencesExt

CONSTANTS
    Tasks,      \* every task_t the page allocator may hand out
    NULL,       \* the null pointer
    Sems,       \* semaphores; each has a task queue of its own
    W           \* bits of one bitmap byte: 8 in the code, NR_PRIO = W * W

ASSUME ListAssumption == W \in Nat \ {0} /\ NULL \notin Tasks /\ NULL \notin Sems

Prios == 0 .. W * W - 1

RR == <<"rr", 0>>               \* the struct rr, its counter and its lock
Sleep == <<"sleep", 0>>         \* sleep_que
Zombie == <<"zombie", 0>>       \* zombie_que
SemQ(s) == <<"sem", s>>         \* sem->queue
Run(p) == <<"run", p>>          \* rr.queue[p]

TaskQueues == {Sleep, Zombie} \cup {SemQ(s) : s \in Sems}
Heads == {Run(p) : p \in Prios} \cup TaskQueues
Queues == {RR} \cup TaskQueues

VARIABLES
    list,       \* list head -> the threads linked on it, first to last
    bit_tbl,    \* rr.bit_tbl: byte -> its set of one bits
    bit_grp,    \* rr.bit_grp: the set of its one bits
    n_tasks     \* the n_tasks counter of each queue

queues == <<list, bit_tbl, bit_grp, n_tasks>>

On(h) == ToSet(list[h])

Linked(t) == \E h \in Heads : t \in On(h)

\* Mutated rr_unmap: the table lists the highest bit.
rr_unmap_highest(bits) ==
    IF bits = {} THEN 0 ELSE CHOOSE x \in bits : \A y \in bits : x >= y

\* The lowest set bit, as the lookup table gives it: entry 0 of the table is 0.
rr_unmap(bits) ==
    IF bits = {} THEN 0 ELSE CHOOSE x \in bits : \A y \in bits : x <= y

First(q) == IF q = <<>> THEN NULL ELSE q[1]

\* The thread whose queue_node follows t's; NULL stands for the list head.
Succ(q, t) ==
    LET i == CHOOSE j \in DOMAIN q : q[j] = t
    IN IF i < Len(q) THEN q[i + 1] ELSE NULL

Drop(q, t) ==
    IF t \in ToSet(q) THEN RemoveAt(q, CHOOSE i \in DOMAIN q : q[i] = t) ELSE q

list_del(t) == [h \in Heads |-> Drop(list[h], t)]

\* Mutated list_add_tail: list_add, at the front.
list_add_front(t, h) == [list EXCEPT ![h] = <<t>> \o @]

list_add_tail(t, h) == [list EXCEPT ![h] = Append(@, t)]

rr_enqueue(t, p) ==
    /\ list' = list_add_tail(t, Run(p))
    /\ n_tasks' = [n_tasks EXCEPT ![RR] = @ + 1]
    /\ bit_tbl' = [bit_tbl EXCEPT ![p \div W] = @ \cup {p % W}]
    /\ bit_grp' = bit_grp \cup {p \div W}

\* Mutated rr_dequeue: the group bit is cleared without looking at the byte.
rr_dequeue_group(t, p) ==
    /\ list' = list_del(t)
    /\ n_tasks' = [n_tasks EXCEPT ![RR] = @ - 1]
    /\ IF list'[Run(p)] = <<>>
       THEN /\ bit_tbl' = [bit_tbl EXCEPT ![p \div W] = @ \ {p % W}]
            /\ bit_grp' = bit_grp \ {p \div W}
       ELSE UNCHANGED <<bit_tbl, bit_grp>>

\* The bits are cleared when the queue of the thread's own priority is empty
\* afterwards, whichever list the thread was on.
rr_dequeue(t, p) ==
    LET byte == bit_tbl[p \div W] \ {p % W}
    IN /\ list' = list_del(t)
       /\ n_tasks' = [n_tasks EXCEPT ![RR] = @ - 1]
       /\ IF list'[Run(p)] = <<>>
          THEN /\ bit_tbl' = [bit_tbl EXCEPT ![p \div W] = byte]
               /\ bit_grp' = IF byte = {} THEN bit_grp \ {p \div W} ELSE bit_grp
          ELSE UNCHANGED <<bit_tbl, bit_grp>>

\* The priority the two bitmaps lead to, and the thread at the head of its
\* queue; NULL when that queue is empty, where the code would take the list
\* head itself for a thread.
PickPrio ==
    LET y == rr_unmap(bit_grp) IN y * W + rr_unmap(bit_tbl[y])

PickHead == First(list[Run(PickPrio)])

\* Mutated rr_pick_next: the picked thread keeps its place.
rr_pick_next_same == UNCHANGED <<list, bit_tbl, bit_grp, n_tasks>>

\* The picked thread stays linked: it goes to the tail of its queue.
rr_pick_next ==
    /\ list' = [list EXCEPT ![Run(PickPrio)] = Append(Drop(@, PickHead), PickHead)]
    /\ UNCHANGED <<bit_tbl, bit_grp, n_tasks>>

tq_enqueue(q, t) ==
    /\ list' = list_add_tail(t, q)
    /\ n_tasks' = [n_tasks EXCEPT ![q] = @ + 1]
    /\ UNCHANGED <<bit_tbl, bit_grp>>

\* Mutated tq_dequeue: the counter is forgotten.
tq_dequeue_count(q, t) ==
    /\ list' = list_del(t)
    /\ UNCHANGED <<bit_tbl, bit_grp, n_tasks>>

tq_dequeue(q, t) ==
    /\ list' = list_del(t)
    /\ n_tasks' = [n_tasks EXCEPT ![q] = @ - 1]
    /\ UNCHANGED <<bit_tbl, bit_grp>>

tq_pick_next(q) == IF n_tasks[q] > 0 THEN First(list[q]) ELSE NULL

\* rr_init, tq_init on every queue, then t enqueued at the lowest priority.
QueuesInit(t) ==
    /\ list = [h \in Heads |-> IF h = Run(W * W - 1) THEN <<t>> ELSE <<>>]
    /\ bit_tbl = [y \in 0 .. W - 1 |-> IF y = W - 1 THEN {W - 1} ELSE {}]
    /\ bit_grp = {W - 1}
    /\ n_tasks = [q \in Queues |-> IF q = RR THEN 1 ELSE 0]

QueuesType ==
    /\ list \in [Heads -> Seq(Tasks)]
    /\ bit_tbl \in [0 .. W - 1 -> SUBSET (0 .. W - 1)]
    /\ bit_grp \in SUBSET (0 .. W - 1)
    /\ n_tasks \in [Queues -> Int]

\* The two bitmaps say exactly which run queues hold a thread, whatever the
\* order of enqueues, dequeues and rotations (sched_rr.c:51-75).
BitmapsExact ==
    /\ \A p \in Prios : list[Run(p)] # <<>> <=> p % W \in bit_tbl[p \div W]
    /\ \A y \in 0 .. W - 1 : y \in bit_grp <=> bit_tbl[y] # {}
=============================================================================
