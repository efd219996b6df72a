------------------------------ MODULE SchedInv ------------------------------
(* The inductive invariant behind the theorems of SchedProofs: why no       *)
(* thread is ever linked twice, and why rr_pick_next always finds a thread. *)
EXTENDS Sched

ForkPoints == {"fork_lock", "fork_adopt", "fork_rr", "fork_enqueue"}
ParentPoints == {"exit_unlink", "exit_lock", "exit_reparent", "exit_check",
                 "exit_wake", "exit_enqueue", "exit_unlock", "exit_unlockp"}
WakePoints == {"exit_wake", "exit_enqueue",
               "semp_unlock", "semp_stat", "semp_for", "semp_rr", "semp_enqueue"}
ReapPoints == {"reap_tq", "reap_pick", "reap_sched", "reap_tq2", "reap_unlink",
               "reap_unlock", "reap_kill"}
SleepPoints == {"sleep_tq", "sleep_add", "sleep_half", "sleep_unlock", "sleep_sched"}
DeadPoints == {"exit_tqunlock", "exit_sched", "dead"}

(* The invariant is stated for the services of Semaphore too, whose         *)
(* statements Sched does not have.                                          *)
SemPoints == {"semw_rr", "semw_dequeue", "semw_stat", "semw_for", "semw_tq", "semw_add",
              "semw_unlock", "semw_sched",
              "semp_tq", "semp_pick", "semp_tq2", "semp_del", "semp_unlock",
              "semp_stat", "semp_for", "semp_rr", "semp_enqueue"}
Places == Points \cup SemPoints

\* A waiter has stored what it waits for; it is about to be, or was, queued.
NamedPoints == {"semw_tq", "semw_add", "semw_unlock", "semw_sched"}

\* A post has taken a waiter off and not yet marked it ready.
PostedPoints == {"semp_unlock", "semp_stat"}

\* TypeOK, with the statements of all services.
Typed ==
    /\ QueuesType
    /\ lock \in [Locks -> Tasks \cup {NULL}]
    /\ current \in Tasks
    /\ pc \in [Tasks -> Places]
    /\ arg \in [Tasks -> Tasks \cup {NULL}]
    /\ live \in SUBSET Tasks
    /\ stat \in [Tasks -> Stats]
    /\ prio \in [Tasks -> Prios]
    /\ parent \in [Tasks -> Tasks \cup {NULL}]
    /\ children \in [Tasks -> SUBSET Tasks]
    /\ wait_for \in [Tasks -> Sems \cup {NULL}]
    /\ rest_ticks \in [Tasks -> 1 .. W * W]
    /\ sleep_ticks \in [Tasks -> 0 .. TickMod - 1]
    /\ due \in [Tasks -> 0 .. TickMod - 1]
    /\ irq \in {"none", "scan", "unlink", "enqueue"}
    /\ cursor \in Tasks \cup {NULL}
    /\ temp \in Tasks \cup {NULL}
    /\ need \in BOOLEAN

\* ListsExact says nothing of the semaphores' queues.
SemsWait == \A s \in Sems : \A t \in On(SemQ(s)) : stat[t] = "WAITING"

\* Between its dequeue and its next enqueue a thread is on no list.  A waiter
\* may be linked by its last child before it has said what it waits for.
Windows == Unlinked \cup {"semw_stat"}
WindowsUnlinked == \A t \in live : pc[t] \in Windows => ~Linked(t)

\* What a thread's stat says of where it is, and the other way round.
StatFits(s, p) ==
    /\ s = "SLEEP" => p \in SleepPoints \cup {"run"}
    /\ s = "WAITING" => p \in {"wait_sched", "run", "semw_for", "semw_tq", "semw_add",
                             "semw_unlock", "semw_sched"}
    /\ s = "ZOMBIE" => p \in {"exit_tq", "exit_link"} \cup DeadPoints
    /\ p \in {"sleep_tq", "sleep_add"} => s = "SLEEP"
    /\ p \in {"exit_tq", "exit_link"} => s = "ZOMBIE"
    /\ p \in {"prio_rr", "prio_dequeue", "prio_rr2", "prio_enqueue"} => s = "READY"

StatPoints == \A t \in Tasks : StatFits(stat[t], pc[t])

\* The running thread is live and, in its own code, ready; a freed thread is
\* past everything it could do.
Running ==
    /\ current \in live
    /\ pc[current] = "run" => stat[current] = "READY"
    /\ \A t \in Tasks \ live : pc[t] \in DeadPoints

\* Thread u is about to enqueue t: its new child, the parent it has woken, or
\* the waiter its post has taken off.
InHand(u, t) == pc[u] \in ForkPoints \cup WakePoints /\ arg[u] = t

\* Such a thread is ready, or about to be marked so by its post, on no list,
\* waits outside every window, is not running, and nobody else is about to
\* enqueue it.
HandsOff ==
    \A u, t \in Tasks : InHand(u, t) =>
      /\ t \in live /\ ~Linked(t)
      /\ stat[t] = IF pc[u] \in PostedPoints THEN "WAITING" ELSE "READY"
      /\ pc[u] \in PostedPoints => wait_for[t] \in Sems
      /\ pc[t] \in {"run", "reap_tq", "wait_sched", "semw_for", "semw_sched"}
      /\ t # current
      /\ \A v \in Tasks : InHand(v, t) => v = u

\* A thread on a semaphore's queue waits for this semaphore; wait_for keeps
\* the exit of a child from waking it.  Before that it may have been woken,
\* and is then linked or about to be.
WaitersFit ==
    /\ \A s \in Sems : \A t \in On(SemQ(s)) :
         wait_for[t] = s /\ pc[t] \in {"semw_unlock", "semw_sched", "run"}
    /\ \A t \in Tasks : stat[t] = "WAITING" /\ pc[t] \in NamedPoints => wait_for[t] \in Sems
    /\ \A t \in Tasks : pc[t] \in {"semw_for", "semw_tq", "semw_add"} =>
         stat[t] = "WAITING" \/ Linked(t) \/ \E u \in Tasks : InHand(u, t)

\* The local pointers that the code follows without a test are not null, and
\* a thread has a parent from the moment its creator hands it to the run queue.
PointersSet ==
    /\ \A u \in Tasks : pc[u] \in ForkPoints \cup ParentPoints => arg[u] \in Tasks
    /\ \A t \in live \ {Idle} : parent[t] = NULL =>
         \E u \in Tasks : pc[u] \in {"fork_lock", "fork_adopt"} /\ arg[u] = t

\* Only the reaper reaps, and what it holds is a zombie that nobody uses.
ReaperFits ==
    \A u \in Tasks :
      /\ pc[u] \in ReapPoints => u = Reaper
      /\ pc[u] \in {"reap_tq2", "reap_unlink"} => arg[u] \in On(Zombie)
      /\ pc[u] \in {"reap_unlock", "reap_kill"} =>
           /\ arg[u] \in live /\ ~Linked(arg[u])
           /\ stat[arg[u]] = "ZOMBIE" /\ pc[arg[u]] \in DeadPoints

\* The idle thread only ever creates a thread and then loops.
IdleFits ==
    /\ Idle \in On(Run(IdlePrio))
    /\ pc[Idle] \in ForkPoints \cup {"boot", "fork_sched", "fork_ret", "run"}

\* The interrupt's loop variables are threads on the sleep list; the one it
\* has taken off the list is ready and on no list.
TickFits ==
    /\ irq \in {"scan", "unlink"} /\ cursor # NULL => cursor \in On(Sleep)
    /\ irq \in {"unlink", "enqueue"} =>
         cursor # NULL /\ temp # cursor /\ (temp # NULL => temp \in On(Sleep))
    /\ irq = "enqueue" =>
         /\ cursor \in live /\ ~Linked(cursor) /\ stat[cursor] = "READY"
         /\ pc[cursor] \in SleepPoints \cup {"run"}
         /\ pc[cursor] \notin {"sleep_tq", "sleep_add"}
         /\ \A u \in Tasks : ~InHand(u, cursor)

\* The inductive invariant.  The types alone are not inductive: that
\* schedule() finds a thread needs the bitmaps to be exact and the idle thread
\* linked; the bitmaps stay exact only if a thread is removed from the queue of
\* its own priority, which needs ListsExact; and that holds only because
\* whoever links a thread knows that it is on no list.
GInv ==
    /\ Typed
    /\ BitmapsExact
    /\ ListsExact
    /\ SemsWait
    /\ WindowsUnlinked
    /\ StatPoints
    /\ Running
    /\ HandsOff
    /\ WaitersFit
    /\ PointersSet
    /\ ReaperFits
    /\ IdleFits
    /\ TickFits

\* Nothing in Sched uses the semaphores' queues.
SemsUnused == \A s \in Sems : On(SemQ(s)) = {}

IInv == TypeOK /\ GInv /\ SemsUnused

-----------------------------------------------------------------------------
(* Why the locks are held by whom the code thinks, and why no child is left *)
(* with a parent that is gone.  The two are proved together: an exiting     *)
(* thread follows its parent pointer to a lock, so the pointer must lead to *)
(* a live thread; and it does because that thread's own exit needs the lock.*)

NewChildPoints == {"fork_lock", "fork_adopt"}
PickedPoints == {"reap_tq2", "reap_unlink"}
TakenPoints == {"reap_unlock", "reap_kill"}
DonePoints == {"exit_sched", "dead"}

\* A new child has no children, is nobody's child yet, and is not the parent
\* of a thread that exits, although its task_t may have been another thread's.
FreshAlone ==
    \A u, t \in Tasks : pc[u] \in NewChildPoints /\ arg[u] = t =>
      /\ children[t] = {}
      /\ \A p \in Tasks : t \notin children[p]
      /\ \A v \in Tasks : pc[v] \in ParentPoints => arg[v] # t

\* The parent whose lock an exiting thread holds is live and waits for that
\* lock before it gives its own children away.
ParentHeld ==
    \A v \in Tasks : pc[v] \in ParentPoints =>
      /\ arg[v] \in live /\ arg[v] = parent[v]
      /\ pc[arg[v]] \notin Gone \ {"exit_lock"}
      /\ pc[v] \notin {"exit_unlink", "exit_lock"} => arg[v] # v

\* A thread that is freed, or about to be, has released its last lock.
DeadIsDone ==
    /\ \A t \in Tasks \ live : pc[t] \in DonePoints
    /\ \A u \in Tasks : pc[u] \in TakenPoints => pc[arg[u]] \in DonePoints

IdleRoot == parent[Idle] = NULL

\* After the test for a waiting parent (sched.c:63) and until its lock is
\* released, the parent does not wait for a child that will never exit.
WakeDone ==
    pc[current] \in {"exit_unlock", "exit_unlockp"} => ~MustWake(arg[current])

\* LockDiscipline and ChildrenExact with what makes them inductive.
FInv ==
    /\ IInv
    /\ LockDiscipline
    /\ ChildrenExact
    /\ FreshAlone
    /\ ParentHeld
    /\ DeadIsDone
    /\ IdleRoot
    /\ WakeDone

-----------------------------------------------------------------------------
(* Why the reaper frees nothing that is still referred to: the zombie queue *)
(* is first in, first out, and a parent enters it after its children.       *)

\* No list leads to a thread whose parent is freed or about to be.
LinkedParents ==
    \A t \in Tasks : Linked(t) /\ parent[t] # NULL =>
      /\ parent[t] \in live
      /\ \A u \in Tasks : pc[u] \in TakenPoints => arg[u] # parent[t]

\* A zombie is reaped before its parent.
ChildrenFirst ==
    \A i, j \in DOMAIN list[Zombie] : parent[list[Zombie][i]] = list[Zombie][j] => i < j

\* The zombie the reaper has picked stays at the head of the queue.
PickedIsHead ==
    \A u \in Tasks : pc[u] \in PickedPoints => arg[u] = First(list[Zombie])

\* While an exiting thread goes from its parent's lock to the zombie queue
\* its parent does not run; a thread that is switched out here is never linked.
ParentWaits ==
    /\ \A t \in live : pc[t] \in Gone \ {"exit_lock"} => parent[t] # t
    /\ pc[current] \in {"exit_mark", "exit_tq", "exit_link"} =>
         parent[current] \in live /\ pc[parent[current]] \notin Gone \ {"exit_lock"}

\* Whoever is past the zombie queue's tq_enqueue is marked a zombie.
DeadZombie == \A t \in live : pc[t] \in DeadPoints => stat[t] = "ZOMBIE"

\* The reaper is never anywhere but in its own loop.
ReaperLoops == pc[Reaper] \in ReapPoints \cup {"dead"}

\* A creator that has yet to read its child's pid is ready all the time, so the
\* reaper runs before it only with a priority that is not lower.
CreatorsBehind ==
    current = Reaper =>
      \A u \in Tasks : pc[u] \in {"fork_sched", "fork_ret"} => prio[u] >= prio[Reaper]

RInv ==
    /\ FInv /\ LinkedParents /\ ChildrenFirst /\ PickedIsHead /\ ParentWaits /\ DeadZombie
    /\ ReaperLoops /\ CreatorsBehind

-----------------------------------------------------------------------------
(* Why a sleeper is woken on time, if nobody sleeps for zero ticks: in the  *)
(* middle of its walk the interrupt has charged the threads before its loop *)
(* variable and none from there on.                                         *)

Exact(t) == due[t] > 0 /\ sleep_ticks[t] = due[t]

Uncharged(t) == sleep_ticks[t] = due[t] + 1

\* The interrupt visits c next; NULL is the end of the sleep list.
WalkedTo(c) ==
    IF c = NULL
    THEN \A t \in On(Sleep) : Exact(t)
    ELSE \E k \in DOMAIN list[Sleep] :
           /\ list[Sleep][k] = c
           /\ \A i \in DOMAIN list[Sleep] :
                IF i < k THEN Exact(list[Sleep][i]) ELSE Uncharged(list[Sleep][i])

\* The thread at c is due, and temp is where the walk goes on.
DueAt(c) ==
    \E k \in DOMAIN list[Sleep] :
      /\ list[Sleep][k] = c /\ due[c] = 0
      /\ temp = IF k < Len(list[Sleep]) THEN list[Sleep][k + 1] ELSE NULL
      /\ \A i \in DOMAIN list[Sleep] :
           /\ i < k => Exact(list[Sleep][i])
           /\ i > k => Uncharged(list[Sleep][i])

WInv ==
    /\ irq = "none" => WalkedTo(NULL)
    /\ irq = "scan" => WalkedTo(cursor)
    /\ irq = "unlink" => DueAt(cursor)
    /\ irq = "enqueue" => due[cursor] = 0 /\ WalkedTo(temp)
    /\ \A t \in Tasks : pc[t] \in {"sleep_tq", "sleep_add"} => Exact(t)
=============================================================================
