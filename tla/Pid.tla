--------------------------------- MODULE Pid ---------------------------------
(* The pid allocator of kernel/pid.c with its two callers, task_init and     *)
(* task_kill (kernel/sched.c).  It has no lock: threads that create threads  *)
(* and the reaper interleave between its loads and stores.  An actor is      *)
(* named by the thread it creates or kills.                                  *)
EXTENDS Integers, FiniteSets, FiniteSetsExt

CONSTANTS
    W,          \* bits of a bitmap word, 16 in the code
    Threads,
    Idle,       \* task_idle, created by sched_init before any other
    NULL

Words == 0..W-1
Pids == 0 .. W*W - 1
INVALID_PID == 0

VARIABLES
    pid_grp,    \* pid_grp: the bits that are set
    pid_tbl,    \* pid_tbl[y]: the bits that are set
    task_tbl,   \* the thread registered under each pid
    pid,        \* task->pid
    pc,         \* where the creation or the killing of a thread is
    y, x        \* locals of alloc_pid

vars == <<pid_grp, pid_tbl, task_tbl, pid, pc, y, x>>

Init ==
    /\ pid_grp = {}
    /\ pid_tbl = [w \in Words |-> IF w = 0 THEN {0} ELSE {}]
    /\ task_tbl = [p \in Pids |-> IF p = 0 THEN Idle ELSE NULL]
    /\ pid = [t \in Threads |-> 0]
    /\ pc = [t \in Threads |-> IF t = Idle THEN "live" ELSE "none"]
    /\ y = [t \in Threads |-> 0] /\ x = [t \in Threads |-> 0]

Step(t, from, to) == pc[t] = from /\ pc' = [pc EXCEPT ![t] = to]

Live == {t \in Threads : pc[t] = "live"}
Creating == {t \in Threads : pc[t] \in {"group", "table", "mark", "markgrp", "enter"}}

\* The two lookups in unmap: the lowest clear bit, W when the word is full.
unmap(word) == Min(0..W \ word)

-----------------------------------------------------------------------------
(* task_init: alloc_pid, then task_tbl[task->pid] = task.  Each creation in  *)
(* progress occupies a live thread.                                          *)

kernel_thread(t) ==
    /\ Cardinality(Creating) < Cardinality(Live)
    /\ Step(t, "none", "group")
    /\ UNCHANGED <<pid_grp, pid_tbl, task_tbl, pid, y, x>>

NoneFree(t) ==
    /\ pid_grp = Words
    /\ Step(t, "group", "enter")
    /\ pid' = [pid EXCEPT ![t] = INVALID_PID]
    /\ UNCHANGED <<pid_grp, pid_tbl, task_tbl, y, x>>

FindGroup(t) ==
    /\ pid_grp # Words
    /\ Step(t, "group", "table")
    /\ y' = [y EXCEPT ![t] = unmap(pid_grp)]
    /\ UNCHANGED <<pid_grp, pid_tbl, task_tbl, pid, x>>

\* A word that another thread has filled and not yet marked in pid_grp gives W.
FindBit(t) ==
    /\ Step(t, "table", "mark")
    /\ x' = [x EXCEPT ![t] = unmap(pid_tbl[y[t]])]
    /\ UNCHANGED <<pid_grp, pid_tbl, task_tbl, pid, y>>

\* map[W] lies outside the array: any bits may be found there.
Mark(t) ==
    /\ Step(t, "mark", "markgrp")
    /\ \E bits \in IF x[t] < W THEN {{x[t]}} ELSE SUBSET Words :
         pid_tbl' = [pid_tbl EXCEPT ![y[t]] = @ \cup bits]
    /\ UNCHANGED <<pid_grp, task_tbl, pid, y, x>>

\* The pid is returned as a uint8_t.
MarkGroup(t) ==
    /\ Step(t, "markgrp", "enter")
    /\ pid_grp' = IF pid_tbl[y[t]] = Words THEN pid_grp \cup {y[t]} ELSE pid_grp
    /\ pid' = [pid EXCEPT ![t] = (y[t] * W + x[t]) % (W * W)]
    /\ UNCHANGED <<pid_tbl, task_tbl, y, x>>

Enter(t) ==
    /\ Step(t, "enter", "live")
    /\ task_tbl' = [task_tbl EXCEPT ![pid[t]] = t]
    /\ UNCHANGED <<pid_grp, pid_tbl, pid, y, x>>

-----------------------------------------------------------------------------
(* task_kill, called by the reaper for one zombie at a time.                 *)

task_kill(t) ==
    /\ t # Idle /\ Cardinality(Creating) < Cardinality(Live)
    /\ \A u \in Threads : pc[u] \notin {"clear", "cleargrp"}
    /\ Step(t, "live", "clear")
    /\ task_tbl' = [task_tbl EXCEPT ![pid[t]] = NULL]
    /\ UNCHANGED <<pid_grp, pid_tbl, pid, y, x>>

ClearBit(t) ==
    /\ Step(t, "clear", "cleargrp")
    /\ pid_tbl' = [pid_tbl EXCEPT ![pid[t] \div W] = @ \ {pid[t] % W}]
    /\ UNCHANGED <<pid_grp, task_tbl, pid, y, x>>

ClearGroup(t) ==
    /\ Step(t, "cleargrp", "none")
    /\ pid_grp' = pid_grp \ {pid[t] \div W}
    /\ UNCHANGED <<pid_tbl, task_tbl, pid, y, x>>

alloc_pid(t) == NoneFree(t) \/ FindGroup(t) \/ FindBit(t) \/ Mark(t) \/ MarkGroup(t)
free_pid(t) == ClearBit(t) \/ ClearGroup(t)

Next == \E t \in Threads :
    kernel_thread(t) \/ alloc_pid(t) \/ Enter(t) \/ task_kill(t) \/ free_pid(t)

Spec == Init /\ [][Next]_vars

-----------------------------------------------------------------------------
\* Pid 0 is the idle thread's for good (pid.h:6).
IdleKeepsZero == task_tbl[0] = Idle
=============================================================================
