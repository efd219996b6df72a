------------------------------- MODULE Sched -------------------------------
(* The scheduler of kernel/sched.c on one processor: kernel threads that    *)
(* call sleep, wait, kernel_thread, task_reset_prio, schedule or return,    *)
(* the zombie reaper, and the clock interrupt, which may arrive between any *)
(* two steps of the running thread because the code runs with interrupts    *)
(* enabled everywhere but in schedule() and in the handler itself.          *)
(*                                                                          *)
(* pc[t] names the statement thread t is about to execute; a step runs up   *)
(* to the next statement whose order the interrupt can tell.  The interrupt *)
(* handler sched_tick runs with interrupts disabled: while irq # "none" no  *)
(* thread step is possible.                                                 *)
EXTENDS TaskLists

CONSTANTS
    Idle,       \* the boot thread, task_idle
    Reaper,     \* the thread that runs kkill_zombie
    Workers,    \* the other threads
    InitPrio,   \* the priority kern_entry gives to init
    DaemonPrio, \* DAEMON_PRIO, the reaper's
    Levels,     \* priorities a worker may ask for
    Durations,  \* arguments sleep may be called with
    Calls,      \* the services a worker may call
    TickMod     \* uint32_t counters of ticks wrap at TickMod

IdlePrio == W * W - 1   \* IDEL_PRIO

ASSUME SchedAssumption ==
    /\ Tasks = Workers \cup {Idle, Reaper}
    /\ Idle # Reaper /\ Idle \notin Workers /\ Reaper \notin Workers
    /\ {InitPrio, DaemonPrio} \cup Levels \subseteq Prios
    /\ Durations \subseteq Nat
    /\ TickMod \in Nat \ {0}
    /\ \A d \in Durations : d < TickMod

VARIABLES
    lock,       \* the thread that holds each spin lock, NULL when it is free
    current,    \* the thread on the processor
    pc,         \* the statement each thread is at
    arg,        \* the local pointer in each thread's call: child, parent, zombie
    live,       \* the threads registered in task_tbl
    stat,       \* task->stat
    prio,       \* task->prio; task->time_ticks is always prio + 1
    parent,     \* task->parent
    children,   \* the threads whose sibling node is on task->children
    wait_for,   \* task->wait_for
    rest_ticks, \* task->rest_ticks
    sleep_ticks,\* task->sleep_ticks
    due,        \* auxiliary: ticks still to come before a sleeper is due
    irq,        \* where sched_tick is, "none" outside it
    cursor,     \* its loop variable, NULL at the end of the sleep list
    temp,       \* the successor saved in its local copy `temp`
    need        \* its local need_schedule

cpu == <<irq, cursor, temp, need>>
family == <<live, parent, children>>
ticks == <<rest_ticks, sleep_ticks, due>>
fields == <<stat, prio, wait_for>>
vars == <<queues, lock, current, pc, arg, family, fields, ticks, cpu>>

TaskLock(t) == <<"task", t>>
Locks == Queues \cup {TaskLock(t) : t \in Tasks}

Points == {"dead", "run",
    "boot", "fork_lock", "fork_adopt", "fork_rr", "fork_enqueue", "fork_sched", "fork_ret",
    "sleep_rr", "sleep_dequeue", "sleep_mark", "sleep_tq", "sleep_add",
    "sleep_half", "sleep_unlock", "sleep_sched",
    "wait_rr", "wait_dequeue", "wait_mark", "wait_sched",
    "prio_lock", "prio_rr", "prio_dequeue", "prio_set", "prio_rr2",
    "prio_enqueue", "prio_unlock", "prio_sched",
    "exit_rr", "exit_dequeue", "exit_lockp", "exit_unlink", "exit_lock",
    "exit_reparent", "exit_check", "exit_wake", "exit_enqueue", "exit_unlock",
    "exit_unlockp", "exit_mark", "exit_tq", "exit_link", "exit_tqunlock",
    "exit_sched", "yield_sched",
    "reap_tq", "reap_pick", "reap_sched", "reap_tq2", "reap_unlink",
    "reap_unlock", "reap_kill"}

Stats == {"READY", "SLEEP", "WAITING", "ZOMBIE"}

\* After sched_init and sti: only the idle thread exists, about to call
\* kernel_thread(init) from kern_entry.
Init ==
    /\ QueuesInit(Idle)
    /\ lock = [l \in Locks |-> NULL]
    /\ current = Idle
    /\ pc = [t \in Tasks |-> IF t = Idle THEN "boot" ELSE "dead"]
    /\ arg = [t \in Tasks |-> NULL]
    /\ live = {Idle}
    /\ stat = [t \in Tasks |-> "READY"]
    /\ prio = [t \in Tasks |-> IdlePrio]
    /\ parent = [t \in Tasks |-> NULL]
    /\ children = [t \in Tasks |-> {}]
    /\ wait_for = [t \in Tasks |-> NULL]
    /\ rest_ticks = [t \in Tasks |-> IdlePrio + 1]
    /\ sleep_ticks = [t \in Tasks |-> 0]
    /\ due = [t \in Tasks |-> 0]
    /\ irq = "none" /\ cursor = NULL /\ temp = NULL /\ need = FALSE

-----------------------------------------------------------------------------
(* Steps every service is made of.  At(p) holds when the running thread is  *)
(* at p and the interrupt handler is not.                                   *)

At(p) == irq = "none" /\ pc[current] = p

Goto(p) == pc' = [pc EXCEPT ![current] = p]

\* spin_lock: a thread that finds the lock taken spins, that is, stays here.
Acquire(l, from, to) ==
    /\ At(from) /\ lock[l] = NULL
    /\ lock' = [lock EXCEPT ![l] = current]
    /\ Goto(to)
    /\ UNCHANGED <<queues, current, arg, family, fields, ticks, cpu>>

Release(l) == lock' = [lock EXCEPT ![l] = NULL]

Unlock(l, from, to) ==
    /\ At(from)
    /\ Release(l)
    /\ Goto(to)
    /\ UNCHANGED <<queues, current, arg, family, fields, ticks, cpu>>

\* The critical sections on rr end with their unlock: nobody can run between
\* the two, since an interrupt that needs to switch spins on rr.lock.
Enqueue(t, from, to) ==
    /\ At(from)
    /\ rr_enqueue(t, prio[t])
    /\ Release(RR)
    /\ Goto(to)
    /\ UNCHANGED <<current, arg, family, fields, ticks, cpu>>

Dequeue(from, to) ==
    /\ At(from)
    /\ rr_dequeue(current, prio[current])
    /\ Release(RR)
    /\ Goto(to)
    /\ UNCHANGED <<current, arg, family, fields, ticks, cpu>>

\* schedule(): interrupts are disabled from cli to sti, and a thread switched
\* out here resumes after the call.  No service follows its local pointer after
\* it but kernel_thread, which goes on to "fork_ret".
Schedule(from, to) ==
    /\ At(from) /\ lock[RR] = NULL
    /\ current' = PickHead
    /\ rr_pick_next
    /\ Goto(to)
    /\ arg' = [arg EXCEPT ![current] = IF to = "fork_ret" THEN @ ELSE NULL]
    /\ UNCHANGED <<lock, family, fields, ticks, cpu>>

SetStat(t, s, from, to) ==
    /\ At(from)
    /\ stat' = [stat EXCEPT ![t] = s]
    /\ Goto(to)
    /\ UNCHANGED <<queues, lock, current, arg, family, prio, wait_for, ticks, cpu>>

\* A worker, in its own code, calls a service.
Call(name, to) ==
    /\ At("run") /\ current \in Workers /\ name \in Calls
    /\ Goto(to)
    /\ UNCHANGED <<queues, lock, current, arg, family, fields, ticks, cpu>>

-----------------------------------------------------------------------------
(* kernel_thread and task_init.  alloc_page and alloc_pid give an unused    *)
(* task_t; the fields nobody else reads before the enqueue are set at once. *)

Create(child, p, from) ==
    /\ At(from) /\ child \notin live
    /\ live' = live \cup {child}
    /\ arg' = [arg EXCEPT ![current] = child]
    /\ pc' = [pc EXCEPT ![current] = "fork_lock",
                        ![child] = IF child = Reaper THEN "reap_tq" ELSE "run"]
    /\ prio' = [prio EXCEPT ![child] = p]
    /\ rest_ticks' = [rest_ticks EXCEPT ![child] = p + 1]
    /\ sleep_ticks' = [sleep_ticks EXCEPT ![child] = 0]
    /\ wait_for' = [wait_for EXCEPT ![child] = NULL]
    /\ stat' = [stat EXCEPT ![child] = "READY"]
    /\ lock' = [lock EXCEPT ![TaskLock(child)] = NULL]
    /\ UNCHANGED <<queues, current, parent, children, due, cpu>>

Adopt ==
    /\ At("fork_adopt")
    /\ LET child == arg[current]
       IN /\ parent' = [parent EXCEPT ![child] = current]
          /\ children' = [children EXCEPT ![child] = {}, ![current] = @ \cup {child}]
    /\ Release(TaskLock(current))
    /\ Goto("fork_rr")
    /\ UNCHANGED <<queues, current, arg, live, fields, ticks, cpu>>

\* return new_task->pid: the creator follows its pointer once more, whatever
\* has become of the child since.  No caller uses the number it returns.
ReturnPid ==
    /\ At("fork_ret")
    /\ arg' = [arg EXCEPT ![current] = NULL]
    /\ Goto("run")
    /\ UNCHANGED <<queues, lock, current, family, fields, ticks, cpu>>

KernelThread ==
    \/ \E c \in Workers : Create(c, InitPrio, "boot")
    \/ /\ "fork" \in Calls /\ current \in Workers
       /\ \E c \in Workers, p \in Levels : Create(c, p, "run")
    \/ /\ "reap" \in Calls /\ current \in Workers
       /\ Create(Reaper, DaemonPrio, "run")
    \/ Acquire(TaskLock(current), "fork_lock", "fork_adopt")
    \/ Adopt
    \/ Acquire(RR, "fork_rr", "fork_enqueue")
    \/ Enqueue(arg[current], "fork_enqueue", "fork_sched")
    \/ Schedule("fork_sched", "fork_ret")
    \/ ReturnPid

-----------------------------------------------------------------------------
(* sleep.  list_add_tail stores prev->next first: at "sleep_half" the new   *)
(* node is reachable from the sleep list and its own next pointer is stale. *)

SetSleep ==
    /\ At("sleep_mark")
    /\ \E d \in Durations :
         /\ sleep_ticks' = [sleep_ticks EXCEPT ![current] = d]
         /\ due' = [due EXCEPT ![current] = d]
    /\ stat' = [stat EXCEPT ![current] = "SLEEP"]
    /\ Goto("sleep_tq")
    /\ UNCHANGED <<queues, lock, current, arg, family, prio, wait_for, rest_ticks, cpu>>

Link(q, from, to) ==
    /\ At(from)
    /\ tq_enqueue(q, current)
    /\ Goto(to)
    /\ UNCHANGED <<lock, current, arg, family, fields, ticks, cpu>>

FinishLink ==
    /\ At("sleep_half")
    /\ Goto("sleep_unlock")
    /\ UNCHANGED <<queues, lock, current, arg, family, fields, ticks, cpu>>

SleepCall ==
    \/ Call("sleep", "sleep_rr")
    \/ Acquire(RR, "sleep_rr", "sleep_dequeue")
    \/ Dequeue("sleep_dequeue", "sleep_mark")
    \/ SetSleep
    \/ Acquire(Sleep, "sleep_tq", "sleep_add")
    \/ Link(Sleep, "sleep_add", "sleep_half")
    \/ FinishLink
    \/ Unlock(Sleep, "sleep_unlock", "sleep_sched")
    \/ Schedule("sleep_sched", "run")

WaitCall ==
    \/ Call("wait", "wait_rr")
    \/ Acquire(RR, "wait_rr", "wait_dequeue")
    \/ Dequeue("wait_dequeue", "wait_mark")
    \/ SetStat(current, "WAITING", "wait_mark", "wait_sched")
    \/ Schedule("wait_sched", "run")

\* kfree_km_cache calls schedule() itself after each round.
YieldCall ==
    \/ Call("yield", "yield_sched")
    \/ Schedule("yield_sched", "run")

-----------------------------------------------------------------------------
(* task_reset_prio on the running thread, its only caller's use of it.      *)

SetPrio ==
    /\ At("prio_set")
    /\ \E p \in Levels : prio' = [prio EXCEPT ![current] = p]
    /\ Goto(IF stat[current] = "READY" THEN "prio_rr2" ELSE "prio_unlock")
    /\ UNCHANGED <<queues, lock, current, arg, family, stat, wait_for, ticks, cpu>>

LockSelf ==
    /\ At("prio_lock") /\ lock[TaskLock(current)] = NULL
    /\ lock' = [lock EXCEPT ![TaskLock(current)] = current]
    /\ Goto(IF stat[current] = "READY" THEN "prio_rr" ELSE "prio_set")
    /\ UNCHANGED <<queues, current, arg, family, fields, ticks, cpu>>

ResetPrio ==
    \/ Call("prio", "prio_lock")
    \/ LockSelf
    \/ Acquire(RR, "prio_rr", "prio_dequeue")
    \/ Dequeue("prio_dequeue", "prio_set")
    \/ SetPrio
    \/ Acquire(RR, "prio_rr2", "prio_enqueue")
    \/ Enqueue(current, "prio_enqueue", "prio_unlock")
    \/ Unlock(TaskLock(current), "prio_unlock", "prio_sched")
    \/ Schedule("prio_sched", "run")

-----------------------------------------------------------------------------
(* kthread_exit(0) and task_exit.                                           *)

LockParent ==
    LET l == TaskLock(parent[current])
    IN /\ At("exit_lockp") /\ lock[l] = NULL
       /\ lock' = [lock EXCEPT ![l] = current]
       /\ arg' = [arg EXCEPT ![current] = parent[current]]
       /\ Goto("exit_unlink")
       /\ UNCHANGED <<queues, current, family, fields, ticks, cpu>>

UnlinkSibling ==
    /\ At("exit_unlink")
    /\ children' = [children EXCEPT ![arg[current]] = @ \ {current}]
    /\ Goto("exit_lock")
    /\ UNCHANGED <<queues, lock, current, arg, live, parent, fields, ticks, cpu>>

\* Mutated Reparent: the children change lists and keep their parent pointer.
Reparent_pointer ==
    /\ At("exit_reparent")
    /\ LET p == arg[current]
       IN children' = [children EXCEPT ![p] = @ \cup children[current], ![current] = {}]
    /\ Goto("exit_check")
    /\ UNCHANGED <<queues, lock, current, arg, live, parent, fields, ticks, cpu>>

\* Every child goes to the parent.  The list head of the exiting thread keeps
\* its stale pointers; the thread never uses it again.
Reparent ==
    /\ At("exit_reparent")
    /\ LET p == arg[current]
       IN /\ parent' = [t \in Tasks |-> IF t \in children[current] THEN p ELSE parent[t]]
          /\ children' = [children EXCEPT ![p] = @ \cup children[current], ![current] = {}]
    /\ Goto("exit_check")
    /\ UNCHANGED <<queues, lock, current, arg, live, fields, ticks, cpu>>

\* Mutated MustWake: a parent that is not waiting is enqueued again.
MustWake_ready(p) == wait_for[p] = NULL /\ children[p] = {}

\* Mutated MustWake: tested as if the exiting thread were still on the list.
MustWake_early(p) ==
    stat[p] = "WAITING" /\ wait_for[p] = NULL /\ children[p] = {current}

MustWake(p) == stat[p] = "WAITING" /\ wait_for[p] = NULL /\ children[p] = {}

\* Mutated CheckParent: the parent is marked ready and not enqueued.
CheckParent_mark ==
    /\ At("exit_check")
    /\ LET p == arg[current]
       IN stat' = IF MustWake(p) THEN [stat EXCEPT ![p] = "READY"] ELSE stat
    /\ Goto("exit_unlock")
    /\ UNCHANGED <<queues, lock, current, arg, family, prio, wait_for, ticks, cpu>>

CheckParent ==
    /\ At("exit_check")
    /\ LET p == arg[current]
       IN IF MustWake(p)
          THEN stat' = [stat EXCEPT ![p] = "READY"] /\ Goto("exit_wake")
          ELSE UNCHANGED stat /\ Goto("exit_unlock")
    /\ UNCHANGED <<queues, lock, current, arg, family, prio, wait_for, ticks, cpu>>

Exit ==
    \/ Call("exit", "exit_rr")
    \/ Acquire(RR, "exit_rr", "exit_dequeue")
    \/ Dequeue("exit_dequeue", "exit_lockp")
    \/ LockParent
    \/ UnlinkSibling
    \/ Acquire(TaskLock(current), "exit_lock", "exit_reparent")
    \/ Reparent
    \/ CheckParent
    \/ Acquire(RR, "exit_wake", "exit_enqueue")
    \/ Enqueue(arg[current], "exit_enqueue", "exit_unlock")
    \/ Unlock(TaskLock(current), "exit_unlock", "exit_unlockp")
    \/ Unlock(TaskLock(arg[current]), "exit_unlockp", "exit_mark")
    \/ SetStat(current, "ZOMBIE", "exit_mark", "exit_tq")
    \/ Acquire(Zombie, "exit_tq", "exit_link")
    \/ Link(Zombie, "exit_link", "exit_tqunlock")
    \/ Unlock(Zombie, "exit_tqunlock", "exit_sched")
    \/ Schedule("exit_sched", "dead")

-----------------------------------------------------------------------------
(* kkill_zombie.                                                            *)

\* Mutated PickZombie: an empty queue is left locked.
PickZombie_empty ==
    /\ At("reap_pick")
    /\ LET z == tq_pick_next(Zombie)
       IN /\ arg' = [arg EXCEPT ![current] = z]
          /\ IF z \in {current, NULL}
             THEN Goto("reap_sched") /\ UNCHANGED lock
             ELSE Goto("reap_tq2") /\ Release(Zombie)
    /\ UNCHANGED <<queues, current, family, fields, ticks, cpu>>

\* Mutated PickZombie: the test for an empty queue is forgotten.
PickZombie_null ==
    /\ At("reap_pick")
    /\ LET z == tq_pick_next(Zombie)
       IN /\ arg' = [arg EXCEPT ![current] = z]
          /\ Goto(IF z = current THEN "reap_sched" ELSE "reap_tq2")
    /\ Release(Zombie)
    /\ UNCHANGED <<queues, current, family, fields, ticks, cpu>>

PickZombie ==
    /\ At("reap_pick")
    /\ LET z == tq_pick_next(Zombie)
       IN /\ arg' = [arg EXCEPT ![current] = z]
          /\ Goto(IF z \in {current, NULL} THEN "reap_sched" ELSE "reap_tq2")
    /\ Release(Zombie)
    /\ UNCHANGED <<queues, current, family, fields, ticks, cpu>>

UnlinkZombie ==
    /\ At("reap_unlink")
    /\ tq_dequeue(Zombie, arg[current])
    /\ Goto("reap_unlock")
    /\ UNCHANGED <<lock, current, arg, family, fields, ticks, cpu>>

\* task_kill: the task_tbl entry, the pid and the page are given back.
Kill ==
    /\ At("reap_kill")
    /\ live' = live \ {arg[current]}
    /\ arg' = [arg EXCEPT ![current] = NULL]
    /\ Goto("reap_tq")
    /\ UNCHANGED <<queues, lock, current, parent, children, fields, ticks, cpu>>

KillZombies ==
    \/ Acquire(Zombie, "reap_tq", "reap_pick")
    \/ PickZombie
    \/ Schedule("reap_sched", "reap_tq")
    \/ Acquire(Zombie, "reap_tq2", "reap_unlink")
    \/ UnlinkZombie
    \/ Unlock(Zombie, "reap_unlock", "reap_kill")
    \/ Kill

-----------------------------------------------------------------------------
(* The clock interrupt, sched_tick.  It walks the sleep list without taking *)
(* its lock and spins, with interrupts disabled, on any lock it finds taken.*)

\* Mutated Charged: the quantum is not reloaded.
Charged_once(t) == rest_ticks[t] - 1

\* The running thread's quantum after one more tick, reloaded when used up.
Charged(t) == IF rest_ticks[t] = 1 THEN prio[t] + 1 ELSE rest_ticks[t] - 1

\* The interrupt arrives: the running thread's quantum is charged.
Tick ==
    /\ irq = "none"
    /\ need' = (rest_ticks[current] = 1)
    /\ rest_ticks' = [rest_ticks EXCEPT ![current] = Charged(current)]
    /\ due' = [t \in Tasks |-> IF t \in On(Sleep) /\ due[t] > 0 THEN due[t] - 1 ELSE due[t]]
    /\ irq' = "scan"
    /\ cursor' = First(list[Sleep])
    /\ UNCHANGED <<queues, lock, current, pc, arg, family, fields, sleep_ticks, temp>>

\* A node linked halfway leads the walk into the run queue it came from; it
\* never meets the head of the sleep list again.
HalfLinked(t) == pc[t] = "sleep_half"

\* Mutated TickScan: the local copy is decremented, not the thread's counter.
TickScan_copy ==
    /\ irq = "scan" /\ cursor # NULL /\ ~HalfLinked(cursor)
    /\ LET next == Succ(list[Sleep], cursor)
       IN IF sleep_ticks[cursor] = 1
          THEN irq' = "unlink" /\ temp' = next /\ UNCHANGED cursor
          ELSE cursor' = next /\ UNCHANGED <<irq, temp>>
    /\ UNCHANGED <<queues, lock, current, pc, arg, family, fields, ticks, need>>

TickScan ==
    /\ irq = "scan" /\ cursor # NULL /\ ~HalfLinked(cursor)
    /\ LET left == (sleep_ticks[cursor] - 1) % TickMod
           next == Succ(list[Sleep], cursor)
       IN /\ sleep_ticks' = [sleep_ticks EXCEPT ![cursor] = left]
          /\ IF left = 0
             THEN irq' = "unlink" /\ temp' = next /\ UNCHANGED cursor
             ELSE cursor' = next /\ UNCHANGED <<irq, temp>>
    /\ UNCHANGED <<queues, lock, current, pc, arg, family, fields, rest_ticks, due, need>>

TickUnlink ==
    /\ irq = "unlink" /\ lock[Sleep] = NULL
    /\ tq_dequeue(Sleep, cursor)
    /\ stat' = [stat EXCEPT ![cursor] = "READY"]
    /\ irq' = "enqueue"
    /\ UNCHANGED <<lock, current, pc, arg, family, prio, wait_for, ticks, cursor, temp, need>>

\* Mutated TickEnqueue: the walk starts over after a removal.
TickEnqueue_restart ==
    /\ irq = "enqueue" /\ lock[RR] = NULL
    /\ rr_enqueue(cursor, prio[cursor])
    /\ need' = TRUE
    /\ irq' = "scan" /\ cursor' = First(list[Sleep]) /\ temp' = NULL
    /\ UNCHANGED <<lock, current, pc, arg, family, fields, ticks>>

TickEnqueue ==
    /\ irq = "enqueue" /\ lock[RR] = NULL
    /\ rr_enqueue(cursor, prio[cursor])
    /\ need' = TRUE
    /\ irq' = "scan" /\ cursor' = temp /\ temp' = NULL
    /\ UNCHANGED <<lock, current, pc, arg, family, fields, ticks>>

TickReturn ==
    /\ irq = "scan" /\ cursor = NULL /\ ~need
    /\ irq' = "none"
    /\ UNCHANGED <<queues, lock, current, pc, arg, family, fields, ticks, cursor, temp, need>>

TickSwitch ==
    /\ irq = "scan" /\ cursor = NULL /\ need /\ lock[RR] = NULL
    /\ current' = PickHead
    /\ rr_pick_next
    /\ irq' = "none" /\ need' = FALSE
    /\ UNCHANGED <<lock, pc, arg, family, fields, ticks, cursor, temp>>

SchedTick == TickScan \/ TickUnlink \/ TickEnqueue \/ TickReturn \/ TickSwitch

\* The handler spins with interrupts disabled on a lock the interrupted thread
\* holds, or walks in a circle: the machine has stopped.
Hung ==
    \/ irq = "unlink" /\ lock[Sleep] # NULL
    \/ irq = "enqueue" /\ lock[RR] # NULL
    \/ irq = "scan" /\ cursor = NULL /\ need /\ lock[RR] # NULL
    \/ irq = "scan" /\ cursor # NULL /\ HalfLinked(cursor)

Spin == Hung /\ UNCHANGED vars

-----------------------------------------------------------------------------
Service ==
    KernelThread \/ SleepCall \/ WaitCall \/ YieldCall \/ ResetPrio \/ Exit \/ KillZombies

Next == Service \/ Tick \/ SchedTick \/ Spin

Spec == Init /\ [][Next]_vars

-----------------------------------------------------------------------------
(* Safety.                                                                  *)

TypeOK ==
    /\ QueuesType
    /\ lock \in [Locks -> Tasks \cup {NULL}]
    /\ current \in Tasks
    /\ pc \in [Tasks -> Points]
    /\ arg \in [Tasks -> Tasks \cup {NULL}]
    /\ live \in SUBSET Tasks
    /\ stat \in [Tasks -> Stats]
    /\ prio \in [Tasks -> Prios]
    /\ parent \in [Tasks -> Tasks \cup {NULL}]
    /\ children \in [Tasks -> SUBSET Tasks]
    /\ wait_for \in [Tasks -> Sems \cup {NULL}]
    /\ rest_ticks \in [Tasks -> 1 .. W * W]
    /\ sleep_ticks \in [Tasks -> 0 .. TickMod - 1]
    /\ due \in [Tasks -> 0 .. TickMod - 1]
    /\ irq \in {"none", "scan", "unlink", "enqueue"}
    /\ cursor \in Tasks \cup {NULL}
    /\ temp \in Tasks \cup {NULL}
    /\ need \in BOOLEAN

\* The n_tasks counters, which list_del knows nothing of, count the threads on
\* their lists: tq_pick_next trusts the counter instead of the list
\* (task_queue.c:31).
QueueCounts ==
    /\ n_tasks[RR] = Cardinality(UNION {On(Run(p)) : p \in Prios})
    /\ \A q \in TaskQueues : n_tasks[q] = Len(list[q])

\* A queue_node is on one list at a time, once, and never after its page was
\* freed; the list agrees with the thread's stat and, for a run queue, with
\* its prio, so that rr_dequeue clears the bits of the right queue.
ListsExact ==
    \A h \in Heads :
      /\ IsInjective(list[h])
      /\ \A t \in On(h) :
           /\ t \in live
           /\ \A g \in Heads \ {h} : t \notin On(g)
           /\ h \in {Run(p) : p \in Prios} => stat[t] = "READY" /\ h = Run(prio[t])
           /\ h = Sleep => stat[t] = "SLEEP"
           /\ h = Zombie => stat[t] = "ZOMBIE"

\* Statements between the dequeue of a thread and its next enqueue.
Unlinked == {"sleep_mark", "sleep_tq", "sleep_add", "wait_mark",
    "prio_set", "prio_rr2", "prio_enqueue",
    "exit_lockp", "exit_unlink", "exit_lock", "exit_reparent", "exit_check",
    "exit_wake", "exit_enqueue", "exit_unlock", "exit_unlockp", "exit_mark",
    "exit_tq", "exit_link"}

\* The threads that were switched out inside such a window: no list leads to
\* them, so no code will ever run them again.
Lost == {t \in live \ {current} : pc[t] \in Unlinked}

\* A live thread that is on no list is in one of those windows, is waiting for
\* a child, or is in the hands of somebody who is about to link or free it:
\* the interrupt, its creator, its last child, or the reaper.
AccountedFor ==
    \A t \in live : Linked(t) \/
      \/ pc[t] \in Unlinked
      \/ pc[t] \in {"wait_sched", "run"} /\ stat[t] = "WAITING"
      \/ irq = "enqueue" /\ cursor = t
      \/ \E u \in live :
           /\ arg[u] = t
           /\ \/ pc[u] \in {"fork_lock", "fork_adopt", "fork_rr", "fork_enqueue"}
              \/ pc[u] \in {"exit_wake", "exit_enqueue"} /\ stat[t] = "READY"
              \/ pc[u] \in {"reap_unlock", "reap_kill"} /\ stat[t] = "ZOMBIE"

\* The statements at which a thread holds a lock.
Holds(t, l) ==
    \/ l = RR /\ pc[t] \in {"fork_enqueue", "sleep_dequeue", "wait_dequeue",
                             "prio_dequeue", "prio_enqueue", "exit_dequeue", "exit_enqueue"}
    \/ l = Sleep /\ pc[t] \in {"sleep_add", "sleep_half", "sleep_unlock"}
    \/ l = Zombie /\ pc[t] \in {"exit_link", "exit_tqunlock",
                                 "reap_pick", "reap_unlink", "reap_unlock"}
    \/ l = TaskLock(t) /\ pc[t] \in {"fork_adopt",
            "prio_rr", "prio_dequeue", "prio_set", "prio_rr2", "prio_enqueue", "prio_unlock",
            "exit_reparent", "exit_check", "exit_wake", "exit_enqueue", "exit_unlock"}
    \/ l = TaskLock(arg[t]) /\ pc[t] \in {"exit_unlink", "exit_lock", "exit_reparent",
            "exit_check", "exit_wake", "exit_enqueue", "exit_unlock", "exit_unlockp"}

\* Every lock is held by the thread inside its critical section and by no
\* other, across thread exit, reuse of the page for a new thread (whose lock
\* task_init sets free) and switches that leave a lock held.
LockDiscipline == \A l \in Locks, t \in Tasks : lock[l] = t <=> Holds(t, l)

\* A thread that has taken itself off its parent's list of children.
Gone == {"exit_lock", "exit_reparent", "exit_check", "exit_wake", "exit_enqueue",
    "exit_unlock", "exit_unlockp", "exit_mark", "exit_tq", "exit_link",
    "exit_tqunlock", "exit_sched", "dead"}

\* The family tree: a thread on a list of children is live, points to the
\* owner of the list, and that owner is live and has not yet given its
\* children away, so no child is ever left with a parent that is gone.
ChildrenExact ==
    /\ \A p, t \in Tasks : t \in children[p] =>
         /\ {p, t} \subseteq live /\ parent[t] = p
         /\ pc[t] \notin Gone
         /\ pc[p] \notin Gone \ {"exit_lock", "exit_reparent"}
    /\ \A t \in live \ {Idle} : (\E p \in live : t \in children[p]) \/ pc[t] \in Gone
         \/ \E u \in live : arg[u] = t /\ pc[u] \in {"fork_lock", "fork_adopt"}

\* A sleeper's counter is the time it still has to sleep whenever the handler
\* is not running, and the handler wakes it at that moment: not a tick early,
\* not a tick late, whatever else the same walk of the list removes
\* (sched.c:140-150).
SleepExact ==
    /\ irq = "none" => \A t \in On(Sleep) : due[t] > 0 /\ sleep_ticks[t] = due[t]
    /\ irq \in {"unlink", "enqueue"} => due[cursor] = 0

-----------------------------------------------------------------------------
(* What a step may never do.                                                *)

\* Every call of schedule(), by a thread or by the interrupt, gives the
\* processor to a ready thread, and no ready thread has a higher priority (a
\* smaller number).
Reschedules ==
    \/ irq = "none" /\ irq' = "none" /\ pc[current] \in {"fork_sched", "sleep_sched",
         "wait_sched", "yield_sched", "prio_sched", "exit_sched", "reap_sched"}
    \/ irq = "scan" /\ irq' = "none" /\ need

RunsHighest ==
    [][Reschedules =>
         /\ stat[current'] = "READY"
         /\ \A p \in Prios : list'[Run(p)] # <<>> => prio[current'] <= p]_vars

\* An exiting thread never releases its parent's lock leaving the parent
\* asleep in wait() with no child left to wake it (sched.c:51-73).
NoMissedWake ==
    [][\A p \in Tasks :
         (lock[TaskLock(p)] \notin {p, NULL} /\ lock'[TaskLock(p)] = NULL)
           => ~(stat'[p] = "WAITING" /\ wait_for[p] = NULL /\ children'[p] = {})]_vars

\* The statements that follow the thread's local pointer, or come before one
\* that does.
Following == {"fork_lock", "fork_adopt", "fork_rr", "fork_enqueue", "fork_sched", "fork_ret",
    "exit_unlink", "exit_lock", "exit_reparent", "exit_check", "exit_wake", "exit_enqueue",
    "exit_unlock", "exit_unlockp"}

\* When the reaper frees the page of a thread, the thread will not run again,
\* holds no lock, has no children, is on no list, and is the parent of no
\* thread that a list still leads to, a zombie waiting behind it included
\* (task_print follows its parent pointer).  One pointer may be left that will
\* be followed: the creator's, which reads new_task->pid after schedule()
\* (sched.c:227-229), and that only if the creator's priority is not above the
\* reaper's.  The creator then reads the page after it was freed.
ReapedIsDone ==
    [][\A t \in live \ live' :
         /\ pc[t] \in {"exit_sched", "dead"} /\ t # current
         /\ \A l \in Locks : lock[l] # t
         /\ children[t] = {} /\ ~Linked(t)
         /\ \A u \in live' : Linked(u) => parent[u] # t
         /\ \A u \in live' \ {current} : arg[u] = t /\ pc[u] \in Following =>
              pc[u] \in {"fork_sched", "fork_ret"} /\ prio[u] >= prio[Reaper]]_vars

-----------------------------------------------------------------------------
(* Liveness.  The clock keeps ticking (clk_init programs it once, every     *)
(* interrupt is acknowledged), and the handler runs to its end unless it    *)
(* spins; nothing is assumed of the threads.                                *)

ClockFair == WF_vars(Tick) /\ WF_vars(SchedTick)

ClockSpec == Spec /\ ClockFair

\* A thread linked on the sleep list is back on its run queue some day.
SleeperWakes ==
    \A t \in Tasks : t \in On(Sleep) ~> (t \in On(Run(prio[t])) \/ Hung)

\* Round robin: a ready thread of the highest priority that has ready threads
\* gets the processor, whatever the running thread does or does not do.
Top(t) == \E p \in Prios :
    t \in On(Run(p)) /\ \A q \in 0 .. p - 1 : list[Run(q)] = <<>>

RoundRobin == \A t \in Tasks : Top(t) ~> (current = t \/ ~Top(t) \/ Hung)

(* For what is said of a whole call: a thread inside a service also goes on *)
(* executing.  The clock period is 5 ms, so it cannot be interrupted before *)
(* every one of its instructions.                                           *)
InService(t) == current = t /\ pc[t] # "run" /\ Service

FairSpec == ClockSpec /\ \A t \in Tasks : SF_vars(InService(t))

-----------------------------------------------------------------------------
(* What the documents and tests say, and the code does not do.              *)

\* init/README.md:51: every interrupt ends with interrupts enabled and a
\* return to the interrupted thread.
InterruptsReturn == ~Hung

\* kernel/sched.c:362-363: a thread that calls sleep goes on afterwards.
SleepReturns ==
    \A t \in Tasks : pc[t] = "sleep_rr" ~> (pc[t] = "run" /\ current = t) \/ Hung
=============================================================================
