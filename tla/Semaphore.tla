------------------------------ MODULE Semaphore ------------------------------
(* The semaphores of include/semaphore.h and kernel/semaphore.c, used by     *)
(* the threads of Sched: two more services, whose steps the clock interrupt, *)
(* the other services and each other get in between of.                      *)
EXTENDS Sched, FiniteSets

CONSTANT MaxCount       \* bound: no post is made at this count

ASSUME SemaphoreAssumption == MaxCount \in Nat /\ IsFiniteSet(Tasks)

VARIABLES
    count,      \* sem->count as the signed number that jns and jg test
    sem,        \* the semaphore a thread's call is about
    broken      \* history: a list was corrupted or NULL was dereferenced

semvars == <<count, sem, broken>>

WaitPoints == {"semw_rr", "semw_dequeue", "semw_stat", "semw_for", "semw_tq",
               "semw_add", "semw_unlock", "semw_sched"}
PostPoints == {"semp_tq", "semp_pick", "semp_tq2", "semp_del", "semp_unlock",
               "semp_stat", "semp_for", "semp_rr", "semp_enqueue"}

\* sem_init(sem, 0).
SemInit ==
    /\ Init
    /\ count = [s \in Sems |-> 0]
    /\ sem = [t \in Tasks |-> NULL]
    /\ broken = FALSE

Queue == SemQ(sem[current])

-----------------------------------------------------------------------------
\* The atomic part of a call: the count becomes c, and the thread goes on at
\* `to` or, when its call ends there, in its own code.
Count(s, c, more, to) ==
    /\ At("run") /\ current \in Workers
    /\ count' = [count EXCEPT ![s] = c]
    /\ Goto(IF more THEN to ELSE "run")
    /\ sem' = [sem EXCEPT ![current] = IF more THEN s ELSE NULL]
    /\ UNCHANGED <<queues, lock, current, arg, family, fields, ticks, cpu, broken>>

\* Mutated MustBlock: jg instead of jns.
MustBlock_zero(c) == c <= 0

MustBlock(c) == c < 0

\* Mutated MustPost: jge instead of jg.
MustPost_negative(c) == c < 0

MustPost(c) == c <= 0

sem_wait(s) == Count(s, count[s] - 1, MustBlock(count[s] - 1), "semw_rr")

sem_post(s) == count[s] < MaxCount /\ Count(s, count[s] + 1, MustPost(count[s] + 1), "semp_tq")

-----------------------------------------------------------------------------
(* __sem_wait.                                                               *)

\* Mutated SetWaitFor: the address of the queue is stored.
SetWaitFor_queue(t, s, from, to) ==
    /\ At(from)
    /\ wait_for' = [wait_for EXCEPT ![t] = Queue]
    /\ Goto(to)
    /\ UNCHANGED <<queues, lock, current, arg, family, stat, prio, ticks, cpu>>

SetWaitFor(t, s, from, to) ==
    /\ At(from)
    /\ wait_for' = [wait_for EXCEPT ![t] = s]
    /\ Goto(to)
    /\ UNCHANGED <<queues, lock, current, arg, family, stat, prio, ticks, cpu>>

\* A thread that somebody has linked in the meantime corrupts that list.
LinkWaiter ==
    /\ Link(Queue, "semw_add", "semw_unlock")
    /\ broken' = Linked(current)
    /\ UNCHANGED <<count, sem>>

BlockSelf ==
    /\ \/ Acquire(RR, "semw_rr", "semw_dequeue")
       \/ Dequeue("semw_dequeue", "semw_stat")
       \/ SetStat(current, "WAITING", "semw_stat", "semw_for")
       \/ SetWaitFor(current, sem[current], "semw_for", "semw_tq")
       \/ Acquire(Queue, "semw_tq", "semw_add")
       \/ Unlock(Queue, "semw_unlock", "semw_sched")
    /\ UNCHANGED semvars

SwitchAway ==
    /\ Schedule("semw_sched", "run")
    /\ sem' = [sem EXCEPT ![current] = NULL]
    /\ UNCHANGED <<count, broken>>

-----------------------------------------------------------------------------
(* __sem_post.                                                               *)

PickWaiter ==
    /\ At("semp_pick")
    /\ arg' = [arg EXCEPT ![current] = tq_pick_next(Queue)]
    /\ Release(Queue)
    /\ Goto("semp_tq2")
    /\ UNCHANGED <<queues, current, family, fields, ticks, cpu, semvars>>

\* Mutated UnlinkWaiter: the waiter is left on the queue.
UnlinkWaiter_left ==
    /\ At("semp_del") /\ arg[current] # NULL
    /\ Goto("semp_unlock")
    /\ UNCHANGED <<queues, lock, current, arg, family, fields, ticks, cpu, semvars>>

\* The waiter picked may be none, or one that another post has taken since.
UnlinkWaiter ==
    LET t == arg[current]
        there == t # NULL /\ t \in On(Queue)
    IN /\ At("semp_del")
       /\ broken' = ~there
       /\ IF there THEN tq_dequeue(Queue, t) ELSE UNCHANGED queues
       /\ Goto("semp_unlock")
       /\ UNCHANGED <<lock, current, arg, family, fields, ticks, cpu, count, sem>>

WakeWaiter ==
    /\ \/ Acquire(Queue, "semp_tq", "semp_pick")
       \/ Acquire(Queue, "semp_tq2", "semp_del")
       \/ Unlock(Queue, "semp_unlock", "semp_stat")
       \/ SetStat(arg[current], "READY", "semp_stat", "semp_for")
       \/ SetWaitFor(arg[current], NULL, "semp_for", "semp_rr")
       \/ Acquire(RR, "semp_rr", "semp_enqueue")
    /\ UNCHANGED semvars

EnqueueWaiter ==
    /\ At("semp_enqueue")
    /\ rr_enqueue(arg[current], prio[arg[current]])
    /\ Release(RR)
    /\ arg' = [arg EXCEPT ![current] = NULL] /\ sem' = [sem EXCEPT ![current] = NULL]
    /\ Goto("run")
    /\ UNCHANGED <<current, family, fields, ticks, cpu, count, broken>>

-----------------------------------------------------------------------------
SemService ==
    \/ \E s \in Sems : sem_wait(s) \/ sem_post(s)
    \/ BlockSelf \/ LinkWaiter \/ SwitchAway
    \/ PickWaiter \/ UnlinkWaiter \/ WakeWaiter \/ EnqueueWaiter

\* A broken machine is not followed further: the page fault handler loops.
SemNext ==
    IF broken THEN UNCHANGED <<vars, semvars>>
    ELSE (Next /\ UNCHANGED semvars) \/ SemService

SemSpec == SemInit /\ [][SemNext]_<<vars, semvars>>

-----------------------------------------------------------------------------
\* The threads that sem_wait has counted and no post has taken off yet.
Waiters(s) == {t \in live : t \in On(SemQ(s)) \/
    (sem[t] = s /\ pc[t] \in {"semw_rr", "semw_dequeue", "semw_stat", "semw_for",
                              "semw_tq", "semw_add"})}

\* The posts that have counted and not yet taken a waiter off.
Posting(s) == {t \in live : sem[t] = s /\ pc[t] \in {"semp_tq", "semp_pick", "semp_tq2", "semp_del"}}

\* The types of the variables.
SemTypeOK ==
    /\ QueuesType
    /\ pc \in [Tasks -> Points \cup WaitPoints \cup PostPoints]
    /\ wait_for \in [Tasks -> Sems \cup {NULL}]
    /\ arg \in [Tasks -> Tasks \cup {NULL}]
    /\ count \in [Sems -> -Cardinality(Tasks) .. MaxCount]
    /\ sem \in [Tasks -> Sems \cup {NULL}]
    /\ broken \in BOOLEAN

\* The count says how many wait: a negative count is the number of threads
\* that wait and that no post is on its way to, although count and queue are
\* changed far apart.
CountExact ==
    ~broken => \A s \in Sems :
      Cardinality(Waiters(s)) - Cardinality(Posting(s)) = IF count[s] < 0 THEN -count[s] ELSE 0

\* A thread on a semaphore's queue waits for this semaphore and is on no other
\* list: neither the exit of a child (sched.c:65) nor another post enqueues it
\* meanwhile, unless the machine is broken.
WaitersExact ==
    ~broken => \A s \in Sems :
      /\ IsInjective(list[SemQ(s)]) /\ n_tasks[SemQ(s)] = Len(list[SemQ(s)])
      /\ \A t \in On(SemQ(s)) :
           /\ stat[t] = "WAITING" /\ wait_for[t] = s /\ t \in live
           /\ \A h \in Heads \ {SemQ(s)} : t \notin On(h)

Sem == INSTANCE CountingSemaphore WITH
    Threads <- Tasks,
    permits <- [s \in Sems |-> count[s] + Cardinality(Waiters(s))],
    waiting <- [s \in Sems |-> Waiters(s)]

\* Semaphores count: whatever the interrupt and the scheduler do between the
\* steps of sem_wait and sem_post, every post lets exactly one wait through.
ImplementsSemaphore == Sem!Spec
=============================================================================
