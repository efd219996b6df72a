-------------------------- MODULE SchedFamilyProofs --------------------------
(* The spin locks are held by exactly the threads inside their critical     *)
(* sections, and the family tree is what the lists of children say, through *)
(* every exit, reuse of a freed task_t and interrupt: the invariants FInv   *)
(* and RInv of SchedInv, for every choice of the constants.                 *)
EXTENDS SchedProofs

\* Holds as a function of the statement and of the local pointer.
Has(p, a, t, l) ==
    \/ l = RR /\ p \in {"fork_enqueue", "sleep_dequeue", "wait_dequeue",
                        "prio_dequeue", "prio_enqueue", "exit_dequeue", "exit_enqueue"}
    \/ l = Sleep /\ p \in {"sleep_add", "sleep_half", "sleep_unlock"}
    \/ l = Zombie /\ p \in {"exit_link", "exit_tqunlock",
                            "reap_pick", "reap_unlink", "reap_unlock"}
    \/ l = TaskLock(t) /\ p \in {"fork_adopt",
            "prio_rr", "prio_dequeue", "prio_set", "prio_rr2", "prio_enqueue", "prio_unlock",
            "exit_reparent", "exit_check", "exit_wake", "exit_enqueue", "exit_unlock"}
    \/ l = TaskLock(a) /\ p \in {"exit_unlink", "exit_lock", "exit_reparent",
            "exit_check", "exit_wake", "exit_enqueue", "exit_unlock", "exit_unlockp"}

\* A move from one statement to another that takes l, frees l or neither.
Takes(p, q, a, t, l) == \A m \in Locks : Has(q, a, t, m) <=> Has(p, a, t, m) \/ m = l
Frees(p, q, a, t, l) ==
    Has(p, a, t, l) /\ \A m \in Locks : Has(q, a, t, m) <=> Has(p, a, t, m) /\ m # l
Keeps(p, a, q, b, t) == \A m \in Locks : Has(q, b, t, m) <=> Has(p, a, t, m)

\* A move that means nothing to the family tree.
Neutral(p, q) ==
    /\ q \in NewChildPoints <=> p \in NewChildPoints
    /\ q \in ParentPoints => p \in ParentPoints
    /\ q \in ParentPoints \ {"exit_unlink", "exit_lock"} => p \notin {"exit_unlink", "exit_lock"}
    /\ q \in Gone <=> p \in Gone
    /\ q \in Gone \ {"exit_lock"} => p \in Gone \ {"exit_lock"}
    /\ q \in Gone \ {"exit_lock", "exit_reparent"} => p \in Gone \ {"exit_lock", "exit_reparent"}
    /\ p \in DonePoints => q \in DonePoints
    /\ q \in TakenPoints => p \in TakenPoints

Family == ChildrenExact /\ FreshAlone /\ ParentHeld /\ DeadIsDone /\ IdleRoot

\* Who holds a lock is a matter of the program point.
LEMMA HoldsHas == \A t, l : Holds(t, l) <=> Has(pc[t], arg[t], t, l)
BY DEF Holds, Has

\* No two locks are the same, and each thread has one of its own.
LEMMA LocksDiffer ==
    /\ {RR, Sleep, Zombie} \subseteq Locks /\ \A t \in Tasks : TaskLock(t) \in Locks
    /\ RR # Sleep /\ RR # Zombie /\ Sleep # Zombie
    /\ \A t : TaskLock(t) # RR /\ TaskLock(t) # Sleep /\ TaskLock(t) # Zombie
    /\ \A t, u : TaskLock(t) = TaskLock(u) => t = u
BY DEF Locks, Queues, TaskQueues, TaskLock, RR, Sleep, Zombie

\* What the proofs below use of the types.
LEMMA FamilyTypes ==
    ASSUME FInv
    PROVE  /\ NULL \notin Tasks /\ Idle \in Tasks
           /\ current \in Tasks /\ current \in live /\ live \subseteq Tasks
           /\ pc \in [Tasks -> Points] /\ arg \in [Tasks -> Tasks \cup {NULL}]
           /\ lock \in [Locks -> Tasks \cup {NULL}]
           /\ parent \in [Tasks -> Tasks \cup {NULL}] /\ children \in [Tasks -> SUBSET Tasks]
           /\ stat \in [Tasks -> Stats] /\ LockDiscipline /\ Family
BY Constants DEF FInv, IInv, GInv, TypeOK, Running, Family

-----------------------------------------------------------------------------
(* The locks.                                                               *)

\* spin_lock: the lock was free, so the thread is alone in its section.
LEMMA LockTaken ==
    ASSUME FInv, NEW l \in Locks, lock[l] = NULL, lock' = [lock EXCEPT ![l] = current],
           \A t \in Tasks \ {current} : pc'[t] = pc[t] /\ arg'[t] = arg[t],
           \A m \in Locks : Has(pc'[current], arg'[current], current, m)
                              <=> Has(pc[current], arg[current], current, m) \/ m = l
    PROVE  LockDiscipline'
<1>1. ASSUME NEW m \in Locks, NEW t \in Tasks  PROVE lock'[m] = t <=> Holds(t, m)'
  <2>1. lock[m] = t <=> Has(pc[t], arg[t], t, m)
    BY FamilyTypes, HoldsHas DEF LockDiscipline
  <2>2. Holds(t, m)' <=> Has(pc'[t], arg'[t], t, m)
    BY HoldsHas DEF Holds, Has
  <2>3. lock[l] = t <=> Has(pc[t], arg[t], t, l)
    BY FamilyTypes, HoldsHas DEF LockDiscipline
  <2> QED  BY <2>1, <2>2, <2>3, FamilyTypes
<1> QED  BY <1>1 DEF LockDiscipline

\* spin_unlock: only the holder calls it.
LEMMA LockFreed ==
    ASSUME FInv, NEW l \in Locks, Holds(current, l), lock' = [lock EXCEPT ![l] = NULL],
           \A t \in Tasks \ {current} : pc'[t] = pc[t] /\ arg'[t] = arg[t],
           \A m \in Locks : Has(pc'[current], arg'[current], current, m)
                              <=> Has(pc[current], arg[current], current, m) /\ m # l
    PROVE  LockDiscipline'
<1>1. ASSUME NEW m \in Locks, NEW t \in Tasks  PROVE lock'[m] = t <=> Holds(t, m)'
  <2>1. lock[m] = t <=> Has(pc[t], arg[t], t, m)
    BY FamilyTypes, HoldsHas DEF LockDiscipline
  <2>2. Holds(t, m)' <=> Has(pc'[t], arg'[t], t, m)
    BY HoldsHas DEF Holds, Has
  <2>3. lock[l] = current
    BY FamilyTypes DEF LockDiscipline
  <2> QED  BY <2>1, <2>2, <2>3, FamilyTypes
<1> QED  BY <1>1 DEF LockDiscipline

\* A step that takes and frees nothing.
LEMMA LockKept ==
    ASSUME FInv, lock' = lock,
           \A t \in Tasks \ {current} : pc'[t] = pc[t] /\ arg'[t] = arg[t],
           Keeps(pc[current], arg[current], pc'[current], arg'[current], current)
    PROVE  LockDiscipline'
<1>1. ASSUME NEW m \in Locks, NEW t \in Tasks  PROVE lock'[m] = t <=> Holds(t, m)'
  <2>1. lock[m] = t <=> Has(pc[t], arg[t], t, m)
    BY FamilyTypes, HoldsHas DEF LockDiscipline
  <2>2. Holds(t, m)' <=> Has(pc'[t], arg'[t], t, m)
    BY HoldsHas DEF Holds, Has
  <2> QED  BY <2>1, <2>2, FamilyTypes DEF Keeps
<1> QED  BY <1>1 DEF LockDiscipline

-----------------------------------------------------------------------------
(* The family tree.                                                         *)

\* A neutral move of the running thread keeps the family tree.
LEMMA NeutralStep ==
    ASSUME FInv, NEW to, Neutral(pc[current], to), pc' = [pc EXCEPT ![current] = to],
           \A u \in Tasks \ {current} : arg'[u] = arg[u],
           to \in NewChildPoints \cup ParentPoints \cup TakenPoints => arg'[current] = arg[current],
           UNCHANGED family
    PROVE  Family'
<1> USE FamilyTypes DEF Family
<1>1. pc'[current] = to /\ \A t \in Tasks \ {current} : pc'[t] = pc[t]
  OBVIOUS
<1>2. live' = live /\ parent' = parent /\ children' = children
  BY DEF family
<1>3. \A u \in Tasks : pc'[u] \in NewChildPoints <=> pc[u] \in NewChildPoints
  BY <1>1 DEF Neutral
<1>4. \A u \in Tasks : pc'[u] \in NewChildPoints => arg'[u] = arg[u]
  BY <1>1
<1>5. \A u \in Tasks : pc'[u] \in ParentPoints => pc[u] \in ParentPoints /\ arg'[u] = arg[u]
  BY <1>1 DEF Neutral
<1>6. \A u \in Tasks : (pc'[u] \in Gone <=> pc[u] \in Gone)
                    /\ (pc'[u] \in Gone \ {"exit_lock"} => pc[u] \in Gone \ {"exit_lock"})
                    /\ (pc'[u] \in Gone \ {"exit_lock", "exit_reparent"}
                          => pc[u] \in Gone \ {"exit_lock", "exit_reparent"})
  BY <1>1 DEF Neutral
<1>7. ChildrenExact'
  <2>1. ASSUME NEW p \in Tasks, NEW t \in Tasks, t \in children'[p]
        PROVE  /\ {p, t} \subseteq live' /\ parent'[t] = p /\ pc'[t] \notin Gone
               /\ pc'[p] \notin Gone \ {"exit_lock", "exit_reparent"}
    BY <1>2, <1>6, <2>1 DEF ChildrenExact
  <2>2. ASSUME NEW t \in live' \ {Idle}
        PROVE  (\E p \in live' : t \in children'[p]) \/ pc'[t] \in Gone
               \/ \E u \in live' : arg'[u] = t /\ pc'[u] \in {"fork_lock", "fork_adopt"}
    BY <1>2, <1>3, <1>4, <1>6 DEF ChildrenExact, NewChildPoints
  <2> QED  BY <2>1, <2>2 DEF ChildrenExact
<1>8. FreshAlone'
  BY <1>2, <1>3, <1>4, <1>5 DEF FreshAlone
<1>9. ParentHeld'
  <2> SUFFICES ASSUME NEW v \in Tasks, pc'[v] \in ParentPoints
               PROVE  /\ arg'[v] \in live' /\ arg'[v] = parent'[v]
                      /\ pc'[arg'[v]] \notin Gone \ {"exit_lock"}
                      /\ pc'[v] \notin {"exit_unlink", "exit_lock"} => arg'[v] # v
    BY DEF ParentHeld
  <2>1. pc[v] \in ParentPoints /\ arg'[v] = arg[v]
    BY <1>5
  <2>2. pc'[v] \notin {"exit_unlink", "exit_lock"} => pc[v] \notin {"exit_unlink", "exit_lock"}
    BY <1>1 DEF Neutral
  <2> QED  BY <1>2, <1>6, <2>1, <2>2 DEF ParentHeld
<1>10. DeadIsDone'
  <2>1. \A u \in Tasks : pc[u] \in DonePoints => pc'[u] \in DonePoints
    BY <1>1 DEF Neutral
  <2>2. \A u \in Tasks : pc'[u] \in TakenPoints => pc[u] \in TakenPoints /\ arg'[u] = arg[u]
    BY <1>1 DEF Neutral
  <2>3. \A u \in Tasks : pc[u] \in TakenPoints => arg[u] \in Tasks
    BY DEF FInv, IInv, GInv, ReaperFits, TakenPoints
  <2> QED  BY <1>2, <2>1, <2>2, <2>3 DEF DeadIsDone
<1>11. IdleRoot'
  BY <1>2 DEF IdleRoot
<1> QED  BY <1>7, <1>8, <1>9, <1>10, <1>11

-----------------------------------------------------------------------------
(* One lemma per kind of step.  Kin is what FInv adds to IInv.              *)

Kin == LockDiscipline /\ Family /\ WakeDone

WakeTestPoints == {"exit_unlock", "exit_unlockp"}

\* The neutral moves of the running thread.
LEMMA NeutralMoves ==
    /\ Neutral("fork_lock", "fork_adopt") /\ Neutral("fork_rr", "fork_enqueue")
    /\ Neutral("fork_enqueue", "fork_sched") /\ Neutral("fork_sched", "fork_ret")
    /\ Neutral("fork_ret", "run")
    /\ Neutral("run", "sleep_rr") /\ Neutral("sleep_rr", "sleep_dequeue")
    /\ Neutral("sleep_dequeue", "sleep_mark") /\ Neutral("sleep_mark", "sleep_tq")
    /\ Neutral("sleep_tq", "sleep_add") /\ Neutral("sleep_add", "sleep_half")
    /\ Neutral("sleep_half", "sleep_unlock") /\ Neutral("sleep_unlock", "sleep_sched")
    /\ Neutral("sleep_sched", "run")
    /\ Neutral("run", "wait_rr") /\ Neutral("wait_rr", "wait_dequeue")
    /\ Neutral("wait_dequeue", "wait_mark") /\ Neutral("wait_mark", "wait_sched")
    /\ Neutral("wait_sched", "run")
    /\ Neutral("run", "yield_sched") /\ Neutral("yield_sched", "run")
    /\ Neutral("run", "prio_lock") /\ Neutral("prio_lock", "prio_rr") /\ Neutral("prio_lock", "prio_set")
    /\ Neutral("prio_rr", "prio_dequeue") /\ Neutral("prio_dequeue", "prio_set")
    /\ Neutral("prio_set", "prio_rr2") /\ Neutral("prio_set", "prio_unlock")
    /\ Neutral("prio_rr2", "prio_enqueue")
    /\ Neutral("prio_enqueue", "prio_unlock") /\ Neutral("prio_unlock", "prio_sched")
    /\ Neutral("prio_sched", "run")
    /\ Neutral("run", "exit_rr") /\ Neutral("exit_rr", "exit_dequeue")
    /\ Neutral("exit_dequeue", "exit_lockp")
    /\ Neutral("exit_check", "exit_wake") /\ Neutral("exit_check", "exit_unlock")
    /\ Neutral("exit_wake", "exit_enqueue") /\ Neutral("exit_enqueue", "exit_unlock")
    /\ Neutral("exit_unlock", "exit_unlockp") /\ Neutral("exit_unlockp", "exit_mark")
    /\ Neutral("exit_mark", "exit_tq") /\ Neutral("exit_tq", "exit_link")
    /\ Neutral("exit_link", "exit_tqunlock") /\ Neutral("exit_tqunlock", "exit_sched")
    /\ Neutral("exit_sched", "dead")
    /\ Neutral("reap_tq", "reap_pick") /\ Neutral("reap_pick", "reap_sched")
    /\ Neutral("reap_pick", "reap_tq2") /\ Neutral("reap_sched", "reap_tq")
    /\ Neutral("reap_tq2", "reap_unlink") /\ Neutral("reap_unlock", "reap_kill")
BY DEF Neutral, NewChildPoints, ParentPoints, Gone, DonePoints, TakenPoints

\* A step on which WakeDone has nothing to say.
LEMMA WakeElsewhere ==
    ASSUME current' = current, pc'[current] \notin WakeTestPoints
    PROVE  WakeDone'
BY DEF WakeDone, WakeTestPoints

\* spin_lock (spinlock.h:23).
LEMMA AcquireKin ==
    ASSUME FInv, NEW l \in Locks, NEW from, NEW to, Acquire(l, from, to),
           Takes(from, to, arg[current], current, l), Neutral(from, to), to \notin WakeTestPoints
    PROVE  Kin'
<1>1. /\ pc' = [pc EXCEPT ![current] = to] /\ pc[current] = from
      /\ lock[l] = NULL /\ lock' = [lock EXCEPT ![l] = current]
      /\ UNCHANGED <<arg, family, current>>
  BY DEF Acquire, At, Goto
<1>2. pc'[current] = to /\ \A t \in Tasks \ {current} : pc'[t] = pc[t] /\ arg'[t] = arg[t]
  BY <1>1, FamilyTypes
<1>3. LockDiscipline'
  BY <1>1, <1>2, LockTaken DEF Takes
<1>4. Family'
  BY <1>1, <1>2, NeutralStep
<1> QED  BY <1>1, <1>2, <1>3, <1>4, WakeElsewhere DEF Kin

\* spin_unlock (spinlock.h:35), but for the moment between the two unlocks
\* of task_exit.
LEMMA UnlockKin ==
    ASSUME FInv, NEW l \in Locks, NEW from, NEW to, Unlock(l, from, to),
           Frees(from, to, arg[current], current, l), Neutral(from, to), to \notin WakeTestPoints
    PROVE  Kin'
<1>1. /\ pc' = [pc EXCEPT ![current] = to] /\ pc[current] = from
      /\ lock' = [lock EXCEPT ![l] = NULL]
      /\ UNCHANGED <<arg, family, current>>
  BY DEF Unlock, Release, At, Goto
<1>2. pc'[current] = to /\ \A t \in Tasks \ {current} : pc'[t] = pc[t] /\ arg'[t] = arg[t]
  BY <1>1, FamilyTypes
<1>3. LockDiscipline'
  BY <1>1, <1>2, LockFreed, HoldsHas DEF Frees
<1>4. Family'
  BY <1>1, <1>2, NeutralStep
<1> QED  BY <1>1, <1>2, <1>3, <1>4, WakeElsewhere DEF Kin

\* A step that takes no lock and leaves the family tree alone.
LEMMA MoveKin ==
    ASSUME FInv, NEW from, NEW to, pc[current] = from, Goto(to),
           Keeps(from, arg[current], to, arg[current], current), Neutral(from, to),
           to \notin WakeTestPoints, UNCHANGED <<lock, current, arg, family>>
    PROVE  Kin'
<1>1. pc' = [pc EXCEPT ![current] = to]
  BY DEF Goto
<1>2. pc'[current] = to /\ \A t \in Tasks \ {current} : pc'[t] = pc[t] /\ arg'[t] = arg[t]
  BY <1>1, FamilyTypes
<1>3. LockDiscipline'
  BY <1>2, LockKept
<1>4. Family'
  BY <1>1, <1>2, NeutralStep
<1> QED  BY <1>2, <1>3, <1>4, WakeElsewhere DEF Kin

\* A critical section on rr that ends with its unlock.
LEMMA SectionKin ==
    ASSUME FInv, NEW from, NEW to, pc[current] = from, Goto(to), Release(RR),
           Frees(from, to, arg[current], current, RR), Neutral(from, to),
           to \notin WakeTestPoints, UNCHANGED <<current, arg, family>>
    PROVE  Kin'
<1>1. pc' = [pc EXCEPT ![current] = to] /\ lock' = [lock EXCEPT ![RR] = NULL]
  BY DEF Goto, Release
<1>2. pc'[current] = to /\ \A t \in Tasks \ {current} : pc'[t] = pc[t] /\ arg'[t] = arg[t]
  BY <1>1, FamilyTypes
<1>3. LockDiscipline'
  BY <1>1, <1>2, LockFreed, HoldsHas, LocksDiffer DEF Frees
<1>4. Family'
  BY <1>1, <1>2, NeutralStep
<1> QED  BY <1>2, <1>3, <1>4, WakeElsewhere DEF Kin

\* The thread that schedule() gives the processor to is inside no window.
LEMMA SwitchedOutside ==
    ASSUME FInv, IInv', current' = PickHead, rr_pick_next
    PROVE  WakeDone'
<1>1. PICK h \in Heads : PickHead \in On(h)
  BY ListFacts, Constants, PickFinds, HeadsDiffer DEF FInv, IInv, GInv
<1>2. On(h)' = On(h)
  BY ListFacts, Constants, RrPickNext DEF FInv, IInv, GInv
<1>3. current' \in live' /\ Linked(current)'
  BY <1>1, <1>2 DEF IInv, GInv, Running, Linked
<1>4. pc'[current'] \notin Unlinked
  BY <1>3 DEF IInv, GInv, WindowsUnlinked, Windows
<1> QED  BY <1>4 DEF WakeDone, Unlinked

\* schedule() (sched.c:84), called with no lock held.
LEMMA ScheduleKin ==
    ASSUME FInv, IInv', NEW from, NEW to, Schedule(from, to),
           \A b : Keeps(from, arg[current], to, b, current), Neutral(from, to),
           to \notin NewChildPoints \cup ParentPoints \cup TakenPoints
    PROVE  Kin'
<1>1. /\ pc[current] = from /\ pc' = [pc EXCEPT ![current] = to]
      /\ arg' = [arg EXCEPT ![current] = IF to = "fork_ret" THEN @ ELSE NULL]
      /\ current' = PickHead /\ rr_pick_next
      /\ UNCHANGED <<lock, family>>
  BY DEF Schedule, At, Goto
<1>2. /\ pc'[current] = to
      /\ \A t \in Tasks \ {current} : pc'[t] = pc[t] /\ arg'[t] = arg[t]
  BY <1>1, FamilyTypes
<1>3. LockDiscipline'
  BY <1>1, <1>2, LockKept
<1>4. Family'
  BY <1>1, <1>2, NeutralStep
<1> QED  BY <1>1, <1>3, <1>4, SwitchedOutside DEF Kin

-----------------------------------------------------------------------------
(* The steps of task_exit and kernel_thread that mean something to the      *)
(* family tree.                                                             *)

\* The exiting thread's parent is live, has not given its children away, and
\* is another thread than the one that holds its own lock.
LEMMA ParentIsLive ==
    ASSUME FInv, pc[current] = "exit_lockp", lock[TaskLock(parent[current])] = NULL
    PROVE  /\ parent[current] \in live /\ pc[parent[current]] \notin Gone \ {"exit_lock"}
           /\ ~\E u \in Tasks : pc[u] \in NewChildPoints /\ arg[u] = parent[current]
<1> USE FamilyTypes DEF Family
<1>1. current # Idle
  BY DEF FInv, IInv, GInv, IdleFits, ForkPoints
<1>2. ASSUME NEW u \in Tasks, pc[u] \in NewChildPoints, arg[u] = current  PROVE FALSE
  <2>1. InHand(u, current)
    BY <1>2 DEF InHand, NewChildPoints, ForkPoints
  <2> QED  BY <2>1 DEF FInv, IInv, GInv, HandsOff
<1>3. pc[current] \notin Gone
  BY DEF Gone
<1>4. PICK p \in live : current \in children[p]
  BY <1>1, <1>2, <1>3 DEF ChildrenExact, NewChildPoints
<1>5. parent[current] = p /\ pc[p] \notin Gone \ {"exit_lock", "exit_reparent"}
  BY <1>4 DEF ChildrenExact
<1>6. pc[p] # "exit_reparent"
  <2> SUFFICES ASSUME pc[p] = "exit_reparent"  PROVE FALSE
    OBVIOUS
  <2>1. Holds(p, TaskLock(p))
    BY DEF Holds
  <2>2. lock[TaskLock(p)] = p
    BY <2>1, LocksDiffer DEF LockDiscipline
  <2> QED  BY <1>5, <2>2
<1>7. ASSUME NEW u \in Tasks, pc[u] \in NewChildPoints, arg[u] = p  PROVE FALSE
  BY <1>4, <1>7 DEF FreshAlone
<1> QED  BY <1>5, <1>6, <1>7

\* task_exit locks the parent (sched.c:51).
LEMMA LockParentKin ==
    ASSUME FInv, LockParent  PROVE Kin'
<1> USE FamilyTypes DEF Family
<1> DEFINE p == parent[current]
<1>1. /\ pc[current] = "exit_lockp" /\ pc' = [pc EXCEPT ![current] = "exit_unlink"]
      /\ arg' = [arg EXCEPT ![current] = p]
      /\ lock[TaskLock(p)] = NULL /\ lock' = [lock EXCEPT ![TaskLock(p)] = current]
      /\ UNCHANGED <<family, current>>
  BY DEF LockParent, At, Goto
<1>2. p \in live /\ p \in Tasks /\ pc[p] \notin Gone \ {"exit_lock"}
      /\ ~\E u \in Tasks : pc[u] \in NewChildPoints /\ arg[u] = p
  BY <1>1, ParentIsLive
<1> HIDE DEF p
<1>3. /\ pc'[current] = "exit_unlink" /\ arg'[current] = p
      /\ \A t \in Tasks \ {current} : pc'[t] = pc[t] /\ arg'[t] = arg[t]
  BY <1>1
<1>4. \A m \in Locks : Has("exit_unlink", p, current, m)
                         <=> Has("exit_lockp", arg[current], current, m) \/ m = TaskLock(p)
  BY DEF Has
<1>5. LockDiscipline'
  <2>1. \A m \in Locks : Has(pc'[current], arg'[current], current, m)
                            <=> Has(pc[current], arg[current], current, m) \/ m = TaskLock(p)
    BY <1>1, <1>3, <1>4
  <2>2. TaskLock(p) \in Locks /\ lock[TaskLock(p)] = NULL
        /\ lock' = [lock EXCEPT ![TaskLock(p)] = current]
    BY <1>1, <1>2, LocksDiffer
  <2> QED  BY <1>3, <2>1, <2>2, LockTaken
<1>6. live' = live /\ parent' = parent /\ children' = children
  BY <1>1 DEF family
<1>7. \A u \in Tasks : (pc'[u] \in Gone <=> pc[u] \in Gone)
        /\ (pc'[u] \in Gone \ {"exit_lock"} <=> pc[u] \in Gone \ {"exit_lock"})
        /\ (pc'[u] \in Gone \ {"exit_lock", "exit_reparent"}
              <=> pc[u] \in Gone \ {"exit_lock", "exit_reparent"})
        /\ (pc'[u] \in NewChildPoints <=> pc[u] \in NewChildPoints)
        /\ (pc'[u] \in NewChildPoints => arg'[u] = arg[u])
        /\ (pc'[u] \in DonePoints <=> pc[u] \in DonePoints)
        /\ (pc'[u] \in TakenPoints <=> pc[u] \in TakenPoints)
        /\ (pc'[u] \in TakenPoints => arg'[u] = arg[u])
  BY <1>1, <1>3 DEF Gone, NewChildPoints, DonePoints, TakenPoints
<1>8. ChildrenExact'
  <2>1. ASSUME NEW q \in Tasks, NEW t \in Tasks, t \in children'[q]
        PROVE  /\ {q, t} \subseteq live' /\ parent'[t] = q /\ pc'[t] \notin Gone
               /\ pc'[q] \notin Gone \ {"exit_lock", "exit_reparent"}
    BY <1>6, <1>7, <2>1 DEF ChildrenExact
  <2>2. ASSUME NEW t \in live' \ {Idle}
        PROVE  (\E q \in live' : t \in children'[q]) \/ pc'[t] \in Gone
               \/ \E u \in live' : arg'[u] = t /\ pc'[u] \in {"fork_lock", "fork_adopt"}
    BY <1>6, <1>7 DEF ChildrenExact, NewChildPoints
  <2> QED  BY <2>1, <2>2 DEF ChildrenExact
<1>9. FreshAlone'
  <2> SUFFICES ASSUME NEW u \in Tasks, NEW t \in Tasks, pc'[u] \in NewChildPoints, arg'[u] = t
               PROVE  /\ children'[t] = {} /\ \A q \in Tasks : t \notin children'[q]
                      /\ \A v \in Tasks : pc'[v] \in ParentPoints => arg'[v] # t
    BY DEF FreshAlone
  <2>1. pc[u] \in NewChildPoints /\ arg[u] = t
    BY <1>7
  <2> QED  BY <1>2, <1>3, <1>6, <2>1 DEF FreshAlone
<1>10. ParentHeld'
  <2> SUFFICES ASSUME NEW v \in Tasks, pc'[v] \in ParentPoints
               PROVE  /\ arg'[v] \in live' /\ arg'[v] = parent'[v]
                      /\ pc'[arg'[v]] \notin Gone \ {"exit_lock"}
                      /\ pc'[v] \notin {"exit_unlink", "exit_lock"} => arg'[v] # v
    BY DEF ParentHeld
  <2>1. CASE v = current
    BY <1>2, <1>3, <1>6, <1>7, <2>1 DEF p
  <2>2. CASE v # current
    BY <1>3, <1>6, <1>7, <2>2 DEF ParentHeld
  <2> QED  BY <2>1, <2>2
<1>11. DeadIsDone'
  <2>1. \A u \in Tasks : pc[u] \in TakenPoints => arg[u] \in Tasks
    BY DEF FInv, IInv, GInv, ReaperFits, TakenPoints
  <2> QED  BY <1>6, <1>7, <2>1 DEF DeadIsDone
<1>12. IdleRoot'
  BY <1>6 DEF IdleRoot
<1>13. WakeDone'
  BY <1>1, <1>3, WakeElsewhere DEF WakeTestPoints
<1> QED  BY <1>5, <1>8, <1>9, <1>10, <1>11, <1>12, <1>13 DEF Kin

\* list_del of the sibling node: the thread has left its parent's list.
LEMMA UnlinkSiblingKin ==
    ASSUME FInv, UnlinkSibling  PROVE Kin'
<1> USE FamilyTypes DEF Family
<1>1. /\ pc[current] = "exit_unlink" /\ pc' = [pc EXCEPT ![current] = "exit_lock"]
      /\ children' = [children EXCEPT ![arg[current]] = @ \ {current}]
      /\ UNCHANGED <<lock, live, parent, arg, current>>
  BY DEF UnlinkSibling, At, Goto
<1>2. arg[current] \in Tasks /\ arg[current] = parent[current]
  BY <1>1 DEF ParentHeld, ParentPoints
<1>3. pc'[current] = "exit_lock" /\ \A t \in Tasks \ {current} : pc'[t] = pc[t] /\ arg'[t] = arg[t]
  BY <1>1
<1>4. Keeps("exit_unlink", arg[current], "exit_lock", arg[current], current)
  BY DEF Keeps, Has
<1>5. LockDiscipline'
  BY <1>1, <1>3, <1>4, LockKept
<1>6. \A p, t \in Tasks : t \in children'[p] <=> t \in children[p] /\ t # current
  <2>1. \A p \in Tasks : current \in children[p] => p = arg[current]
    BY <1>2 DEF ChildrenExact
  <2> QED  BY <1>1, <1>2, <2>1
<1>7. \A u \in Tasks \ {current} : (pc'[u] \in Gone <=> pc[u] \in Gone)
  BY <1>3
<1>8. \A u \in Tasks :
        /\ (pc'[u] \in Gone \ {"exit_lock"} <=> pc[u] \in Gone \ {"exit_lock"})
        /\ (pc'[u] \in Gone \ {"exit_lock", "exit_reparent"}
              <=> pc[u] \in Gone \ {"exit_lock", "exit_reparent"})
        /\ (pc'[u] \in NewChildPoints <=> pc[u] \in NewChildPoints)
        /\ (pc'[u] \in DonePoints <=> pc[u] \in DonePoints)
        /\ (pc'[u] \in TakenPoints <=> pc[u] \in TakenPoints)
        /\ (pc'[u] \in ParentPoints <=> pc[u] \in ParentPoints)
        /\ (pc'[u] \in {"exit_unlink", "exit_lock"} <=> pc[u] \in {"exit_unlink", "exit_lock"})
  BY <1>1, <1>3 DEF Gone, NewChildPoints, DonePoints, TakenPoints, ParentPoints
<1>9. ChildrenExact'
  <2>1. ASSUME NEW p \in Tasks, NEW t \in Tasks, t \in children'[p]
        PROVE  /\ {p, t} \subseteq live' /\ parent'[t] = p /\ pc'[t] \notin Gone
               /\ pc'[p] \notin Gone \ {"exit_lock", "exit_reparent"}
    BY <1>1, <1>6, <1>7, <1>8, <2>1 DEF ChildrenExact
  <2>2. ASSUME NEW t \in live' \ {Idle}
        PROVE  (\E p \in live' : t \in children'[p]) \/ pc'[t] \in Gone
               \/ \E u \in live' : arg'[u] = t /\ pc'[u] \in {"fork_lock", "fork_adopt"}
    <3>1. CASE t = current
      BY <1>3, <3>1 DEF Gone
    <3>2. CASE t # current
      BY <1>1, <1>6, <1>7, <1>8, <3>2 DEF ChildrenExact, NewChildPoints
    <3> QED  BY <3>1, <3>2
  <2> QED  BY <2>1, <2>2 DEF ChildrenExact
<1>10. FreshAlone'
  <2> SUFFICES ASSUME NEW u \in Tasks, NEW t \in Tasks, pc'[u] \in NewChildPoints, arg'[u] = t
               PROVE  /\ children'[t] = {} /\ \A q \in Tasks : t \notin children'[q]
                      /\ \A v \in Tasks : pc'[v] \in ParentPoints => arg'[v] # t
    BY DEF FreshAlone
  <2>1. /\ children[t] = {} /\ \A q \in Tasks : t \notin children[q]
        /\ \A v \in Tasks : pc[v] \in ParentPoints => arg[v] # t
    BY <1>1, <1>8 DEF FreshAlone
  <2>2. children'[t] = {}
    BY <1>1, <1>2, <2>1
  <2> QED  BY <1>1, <1>6, <1>8, <2>1, <2>2
<1>11. ParentHeld' /\ DeadIsDone' /\ IdleRoot'
  <2>1. \A u \in Tasks : pc[u] \in TakenPoints => arg[u] \in Tasks
    BY DEF FInv, IInv, GInv, ReaperFits, TakenPoints
  <2> QED  BY <1>1, <1>8, <2>1 DEF ParentHeld, DeadIsDone, IdleRoot
<1>12. WakeDone'
  BY <1>1, <1>3, WakeElsewhere DEF WakeTestPoints
<1> QED  BY <1>5, <1>9, <1>10, <1>11, <1>12 DEF Kin

\* The exiting thread takes its own lock (sched.c:54): nobody holds it, so no
\* child of its is on its way out, and its parent is another thread.
LEMMA LockOwnKin ==
    ASSUME FInv, Acquire(TaskLock(current), "exit_lock", "exit_reparent")
    PROVE  Kin'
<1> USE FamilyTypes DEF Family
<1>1. /\ pc[current] = "exit_lock" /\ pc' = [pc EXCEPT ![current] = "exit_reparent"]
      /\ lock[TaskLock(current)] = NULL /\ lock' = [lock EXCEPT ![TaskLock(current)] = current]
      /\ UNCHANGED <<arg, family, current>>
  BY DEF Acquire, At, Goto
<1>2. pc'[current] = "exit_reparent" /\ \A t \in Tasks \ {current} : pc'[t] = pc[t] /\ arg'[t] = arg[t]
  BY <1>1
<1>3. LockDiscipline'
  <2>1. Takes("exit_lock", "exit_reparent", arg[current], current, TaskLock(current))
    BY DEF Takes, Has
  <2>2. TaskLock(current) \in Locks
    BY LocksDiffer
  <2>3. \A m \in Locks : Has(pc'[current], arg'[current], current, m)
                            <=> Has(pc[current], arg[current], current, m) \/ m = TaskLock(current)
    BY <1>1, <1>2, <2>1 DEF Takes
  <2> QED  BY <1>1, <1>2, <2>2, <2>3, LockTaken
<1>4. live' = live /\ parent' = parent /\ children' = children
  BY <1>1 DEF family
<1>5. \A u \in Tasks :
        /\ (pc'[u] \in Gone <=> pc[u] \in Gone)
        /\ (pc'[u] \in Gone \ {"exit_lock", "exit_reparent"}
              <=> pc[u] \in Gone \ {"exit_lock", "exit_reparent"})
        /\ (pc'[u] \in NewChildPoints <=> pc[u] \in NewChildPoints)
        /\ (pc'[u] \in DonePoints <=> pc[u] \in DonePoints)
        /\ (pc'[u] \in TakenPoints <=> pc[u] \in TakenPoints)
        /\ (pc'[u] \in ParentPoints <=> pc[u] \in ParentPoints)
  BY <1>1, <1>2 DEF Gone, NewChildPoints, DonePoints, TakenPoints, ParentPoints
<1>6. ChildrenExact'
  <2>1. ASSUME NEW p \in Tasks, NEW t \in Tasks, t \in children'[p]
        PROVE  /\ {p, t} \subseteq live' /\ parent'[t] = p /\ pc'[t] \notin Gone
               /\ pc'[p] \notin Gone \ {"exit_lock", "exit_reparent"}
    BY <1>4, <1>5, <2>1 DEF ChildrenExact
  <2>2. ASSUME NEW t \in live' \ {Idle}
        PROVE  (\E p \in live' : t \in children'[p]) \/ pc'[t] \in Gone
               \/ \E u \in live' : arg'[u] = t /\ pc'[u] \in {"fork_lock", "fork_adopt"}
    BY <1>1, <1>4, <1>5 DEF ChildrenExact, NewChildPoints
  <2> QED  BY <2>1, <2>2 DEF ChildrenExact
<1>7. FreshAlone'
  BY <1>1, <1>4, <1>5 DEF FreshAlone
<1>8. ASSUME NEW v \in Tasks, pc[v] \in ParentPoints  PROVE arg[v] \in Tasks /\ arg[v] # current
  <2>1. Holds(v, TaskLock(arg[v])) /\ arg[v] \in Tasks
    BY <1>8 DEF Holds, ParentPoints, ParentHeld
  <2>2. lock[TaskLock(arg[v])] = v
    BY <2>1, LocksDiffer DEF LockDiscipline
  <2> QED  BY <1>1, <2>1, <2>2
<1>9. ParentHeld'
  BY <1>1, <1>2, <1>4, <1>5, <1>8 DEF ParentHeld
<1>10. DeadIsDone' /\ IdleRoot'
  <2>1. \A u \in Tasks : pc[u] \in TakenPoints => arg[u] \in Tasks
    BY DEF FInv, IInv, GInv, ReaperFits, TakenPoints
  <2> QED  BY <1>1, <1>4, <1>5, <2>1 DEF DeadIsDone, IdleRoot
<1>11. WakeDone'
  BY <1>1, <1>2, WakeElsewhere DEF WakeTestPoints
<1> QED  BY <1>3, <1>6, <1>7, <1>9, <1>10, <1>11 DEF Kin

\* The children of the exiting thread get its parent (sched.c:55-61).
LEMMA ReparentKin ==
    ASSUME FInv, Reparent  PROVE Kin'
<1> USE FamilyTypes DEF Family
<1> DEFINE p == arg[current]
<1>1. /\ pc[current] = "exit_reparent" /\ pc' = [pc EXCEPT ![current] = "exit_check"]
      /\ parent' = [t \in Tasks |-> IF t \in children[current] THEN p ELSE parent[t]]
      /\ children' = [children EXCEPT ![p] = @ \cup children[current], ![current] = {}]
      /\ UNCHANGED <<lock, live, arg, current>>
  BY DEF Reparent, At, Goto
<1>2. p \in live /\ p \in Tasks /\ p # current /\ pc[p] \notin Gone \ {"exit_lock"}
  BY <1>1 DEF ParentHeld, ParentPoints
<1> HIDE DEF p
<1>3. pc'[current] = "exit_check" /\ \A t \in Tasks \ {current} : pc'[t] = pc[t]
  BY <1>1
<1>4. LockDiscipline'
  <2>1. Keeps("exit_reparent", arg[current], "exit_check", arg[current], current)
    BY DEF Keeps, Has
  <2> QED  BY <1>1, <1>3, <2>1, LockKept
<1>5. \A u \in Tasks :
        /\ (pc'[u] \in Gone <=> pc[u] \in Gone)
        /\ (pc'[u] \in Gone \ {"exit_lock"} <=> pc[u] \in Gone \ {"exit_lock"})
        /\ (pc'[u] \in NewChildPoints <=> pc[u] \in NewChildPoints)
        /\ (pc'[u] \in DonePoints <=> pc[u] \in DonePoints)
        /\ (pc'[u] \in TakenPoints <=> pc[u] \in TakenPoints)
        /\ (pc'[u] \in ParentPoints <=> pc[u] \in ParentPoints)
        /\ (pc'[u] \in {"exit_unlink", "exit_lock"} <=> pc[u] \in {"exit_unlink", "exit_lock"})
  BY <1>1, <1>3 DEF Gone, NewChildPoints, DonePoints, TakenPoints, ParentPoints
<1>6. /\ children'[current] = {} /\ children'[p] = children[p] \cup children[current]
      /\ \A q \in Tasks \ {p, current} : children'[q] = children[q]
  BY <1>1, <1>2
<1>7. \A t \in Tasks : parent'[t] = IF t \in children[current] THEN p ELSE parent[t]
  BY <1>1
<1>8. ChildrenExact'
  <2>1. ASSUME NEW q \in Tasks, NEW t \in Tasks, t \in children'[q]
        PROVE  /\ {q, t} \subseteq live' /\ parent'[t] = q /\ pc'[t] \notin Gone
               /\ pc'[q] \notin Gone \ {"exit_lock", "exit_reparent"}
    <3>1. CASE q = p
      BY <1>1, <1>2, <1>3, <1>5, <1>6, <1>7, <2>1, <3>1 DEF ChildrenExact
    <3>2. CASE q # p
      <4>1. q # current /\ t \in children[q]
        BY <1>6, <2>1, <3>2
      <4> QED  BY <1>1, <1>3, <1>5, <1>7, <4>1 DEF ChildrenExact
    <3> QED  BY <3>1, <3>2
  <2>2. ASSUME NEW t \in live' \ {Idle}
        PROVE  (\E q \in live' : t \in children'[q]) \/ pc'[t] \in Gone
               \/ \E u \in live' : arg'[u] = t /\ pc'[u] \in {"fork_lock", "fork_adopt"}
    <3>1. CASE \E q \in live : t \in children[q]
      BY <1>1, <1>2, <1>6, <3>1
    <3>2. CASE ~\E q \in live : t \in children[q]
      BY <1>1, <1>5, <3>2 DEF ChildrenExact, NewChildPoints
    <3> QED  BY <3>1, <3>2
  <2> QED  BY <2>1, <2>2 DEF ChildrenExact
<1>9. FreshAlone'
  <2> SUFFICES ASSUME NEW u \in Tasks, NEW t \in Tasks, pc'[u] \in NewChildPoints, arg'[u] = t
               PROVE  /\ children'[t] = {} /\ \A q \in Tasks : t \notin children'[q]
                      /\ \A v \in Tasks : pc'[v] \in ParentPoints => arg'[v] # t
    BY DEF FreshAlone
  <2>1. /\ children[t] = {} /\ \A q \in Tasks : t \notin children[q]
        /\ \A v \in Tasks : pc[v] \in ParentPoints => arg[v] # t
    BY <1>1, <1>5 DEF FreshAlone
  <2>2. t # p
    BY <1>1, <2>1 DEF ParentPoints, p
  <2> QED  BY <1>1, <1>5, <1>6, <2>1, <2>2
<1>10. ParentHeld'
  <2> SUFFICES ASSUME NEW v \in Tasks, pc'[v] \in ParentPoints
               PROVE  /\ arg'[v] \in live' /\ arg'[v] = parent'[v]
                      /\ pc'[arg'[v]] \notin Gone \ {"exit_lock"}
                      /\ pc'[v] \notin {"exit_unlink", "exit_lock"} => arg'[v] # v
    BY DEF ParentHeld
  <2>1. pc[v] \in ParentPoints
    BY <1>5
  <2>2. v \notin children[current]
    <3> SUFFICES ASSUME v \in children[current]  PROVE FALSE
      OBVIOUS
    <3>1. parent[v] = current /\ pc[v] \notin Gone
      BY DEF ChildrenExact
    <3>2. arg[v] = current /\ v # current /\ Holds(v, TaskLock(current))
      BY <1>1, <2>1, <3>1 DEF ParentHeld, Holds, ParentPoints, Gone
    <3>3. Holds(current, TaskLock(current))
      BY <1>1 DEF Holds
    <3> QED  BY <3>2, <3>3, LocksDiffer DEF LockDiscipline
  <2> QED  BY <1>1, <1>5, <1>7, <2>1, <2>2 DEF ParentHeld
<1>11. DeadIsDone' /\ IdleRoot'
  <2>1. \A u \in Tasks : pc[u] \in TakenPoints => arg[u] \in Tasks
    BY DEF FInv, IInv, GInv, ReaperFits, TakenPoints
  <2>2. Idle \notin children[current]
    BY DEF ChildrenExact, IdleRoot
  <2> QED  BY <1>1, <1>5, <1>7, <2>1, <2>2 DEF DeadIsDone, IdleRoot
<1>12. WakeDone'
  BY <1>1, <1>3, WakeElsewhere DEF WakeTestPoints
<1> QED  BY <1>4, <1>8, <1>9, <1>10, <1>11, <1>12 DEF Kin

\* The test for a waiting parent: WakeDone holds where it finds none.
LEMMA CheckParentKin ==
    ASSUME FInv, CheckParent  PROVE Kin'
<1> USE FamilyTypes
<1>1. /\ pc[current] = "exit_check" /\ UNCHANGED <<lock, current, arg, family, wait_for>>
      /\ \/ Goto("exit_wake")
         \/ ~MustWake(arg[current]) /\ Goto("exit_unlock") /\ stat' = stat
  BY DEF CheckParent, At
<1>2. CASE Goto("exit_wake")
  <2>1. Keeps("exit_check", arg[current], "exit_wake", arg[current], current)
    BY DEF Keeps, Has
  <2>2. Neutral("exit_check", "exit_wake") /\ "exit_wake" \notin WakeTestPoints
    BY NeutralMoves DEF WakeTestPoints
  <2> QED  BY <1>1, <1>2, <2>1, <2>2, MoveKin
<1>3. CASE ~MustWake(arg[current]) /\ Goto("exit_unlock") /\ stat' = stat
  <2>1. Keeps("exit_check", arg[current], "exit_unlock", arg[current], current)
    BY DEF Keeps, Has
  <2>2. pc' = [pc EXCEPT ![current] = "exit_unlock"]
    BY <1>3 DEF Goto
  <2>3. pc'[current] = "exit_unlock"
        /\ \A t \in Tasks \ {current} : pc'[t] = pc[t] /\ arg'[t] = arg[t]
    BY <1>1, <2>2
  <2>4. LockDiscipline'
    BY <1>1, <2>1, <2>3, LockKept
  <2>5. Family'
    BY ZenonT(40), <1>1, <2>2, NeutralMoves, NeutralStep
  <2>6. WakeDone'
    BY <1>1, <1>3 DEF WakeDone, MustWake, family
  <2> QED  BY <2>4, <2>5, <2>6 DEF Kin
<1> QED  BY <1>1, <1>2, <1>3

\* The woken parent is ready when its child gives up the lock on rr.
LEMMA WakeParentKin ==
    ASSUME FInv, Enqueue(arg[current], "exit_enqueue", "exit_unlock")
    PROVE  Kin'
<1> USE FamilyTypes
<1>1. /\ pc[current] = "exit_enqueue" /\ pc' = [pc EXCEPT ![current] = "exit_unlock"]
      /\ lock' = [lock EXCEPT ![RR] = NULL]
      /\ UNCHANGED <<current, arg, family, stat>>
  BY DEF Enqueue, At, Goto, Release, fields
<1>2. pc'[current] = "exit_unlock"
      /\ \A t \in Tasks \ {current} : pc'[t] = pc[t] /\ arg'[t] = arg[t]
  BY <1>1
<1>3. LockDiscipline'
  <2>1. Frees("exit_enqueue", "exit_unlock", arg[current], current, RR)
    BY LocksDiffer DEF Frees, Has, TaskLock, RR
  <2>2. \A m \in Locks : Has(pc'[current], arg'[current], current, m)
                           <=> Has(pc[current], arg[current], current, m) /\ m # RR
    BY <1>1, <1>2, <2>1 DEF Frees
  <2>3. Holds(current, RR) /\ RR \in Locks
    BY <1>1, LocksDiffer DEF Holds
  <2> QED  BY <1>1, <1>2, <2>2, <2>3, LockFreed
<1>4. Family'
  <2>1. Neutral(pc[current], "exit_unlock")
    BY <1>1, NeutralMoves
  <2>2. "exit_unlock" \in NewChildPoints \cup ParentPoints \cup TakenPoints => arg'[current] = arg[current]
    BY <1>1
  <2> QED  BY <1>1, <1>2, <2>1, <2>2, NeutralStep
<1>5. WakeDone'
  <2>1. InHand(current, arg[current]) /\ arg[current] \in Tasks
    BY <1>1 DEF InHand, WakePoints, ParentPoints, FInv, IInv, GInv, PointersSet
  <2>2. stat[arg[current]] = "READY"
    BY <2>1, SchedHands DEF FInv
  <2> QED  BY <1>1, <2>2 DEF WakeDone, MustWake
<1> QED  BY <1>3, <1>4, <1>5 DEF Kin

\* The exiting thread gives up its own lock, still holding its parent's.
LEMMA UnlockOwnKin ==
    ASSUME FInv, Unlock(TaskLock(current), "exit_unlock", "exit_unlockp")
    PROVE  Kin'
<1> USE FamilyTypes DEF Family
<1>1. /\ pc[current] = "exit_unlock" /\ pc' = [pc EXCEPT ![current] = "exit_unlockp"]
      /\ lock' = [lock EXCEPT ![TaskLock(current)] = NULL]
      /\ UNCHANGED <<current, arg, family, stat, wait_for>>
  BY DEF Unlock, At, Goto, Release, fields
<1>2. pc'[current] = "exit_unlockp"
      /\ \A t \in Tasks \ {current} : pc'[t] = pc[t] /\ arg'[t] = arg[t]
  BY <1>1
<1>3. LockDiscipline'
  <2>1. arg[current] # current
    BY <1>1 DEF ParentHeld, ParentPoints
  <2>2. Frees("exit_unlock", "exit_unlockp", arg[current], current, TaskLock(current))
    BY <2>1, LocksDiffer DEF Frees, Has
  <2>3. \A m \in Locks : Has(pc'[current], arg'[current], current, m)
                           <=> Has(pc[current], arg[current], current, m) /\ m # TaskLock(current)
    BY <1>1, <1>2, <2>2 DEF Frees
  <2>4. Holds(current, TaskLock(current)) /\ TaskLock(current) \in Locks
    BY <1>1, LocksDiffer DEF Holds
  <2> QED  BY <1>1, <1>2, <2>3, <2>4, LockFreed
<1>4. Family'
  <2>1. Neutral(pc[current], "exit_unlockp")
    BY <1>1, NeutralMoves
  <2>2. "exit_unlockp" \in NewChildPoints \cup ParentPoints \cup TakenPoints => arg'[current] = arg[current]
    BY <1>1
  <2> QED  BY <1>1, <1>2, <2>1, <2>2, NeutralStep
<1>5. WakeDone'
  BY <1>1 DEF FInv, WakeDone, MustWake, family
<1> QED  BY <1>3, <1>4, <1>5 DEF Kin

\* kernel_thread makes the new child one of its children (task.c).
LEMMA AdoptKin ==
    ASSUME FInv, Adopt  PROVE Kin'
<1> USE FamilyTypes DEF Family
<1> DEFINE c == arg[current]
<1>1. /\ pc[current] = "fork_adopt" /\ pc' = [pc EXCEPT ![current] = "fork_rr"]
      /\ parent' = [parent EXCEPT ![c] = current]
      /\ children' = [children EXCEPT ![c] = {}, ![current] = @ \cup {c}]
      /\ lock' = [lock EXCEPT ![TaskLock(current)] = NULL]
      /\ UNCHANGED <<live, arg, current>>
  BY DEF Adopt, At, Goto, Release
<1>2. /\ c \in Tasks /\ c \in live /\ c # current
      /\ pc[c] \in {"run", "reap_tq", "wait_sched"}
      /\ \A v \in Tasks : InHand(v, c) => v = current
  <2>1. c \in Tasks /\ InHand(current, c)
    BY <1>1 DEF FInv, IInv, GInv, PointersSet, InHand, ForkPoints
  <2> QED  BY <2>1, SchedHands DEF FInv
<1>3. /\ children[c] = {} /\ \A q \in Tasks : c \notin children[q]
      /\ \A v \in Tasks : pc[v] \in ParentPoints => arg[v] # c
  BY <1>1, <1>2 DEF FreshAlone, NewChildPoints
<1>4. c # Idle
  <2>1. InHand(current, c)
    BY <1>1 DEF InHand, ForkPoints
  <2>2. ~Linked(c)
    BY <1>2, <2>1 DEF FInv, IInv, GInv, HandsOff
  <2> QED  BY <2>2, Constants DEF FInv, IInv, GInv, IdleFits, Linked
<1> HIDE DEF c
<1>5. pc'[current] = "fork_rr" /\ \A t \in Tasks \ {current} : pc'[t] = pc[t]
  BY <1>1
<1>6. LockDiscipline'
  <2>1. Frees("fork_adopt", "fork_rr", arg[current], current, TaskLock(current))
    BY DEF Frees, Has
  <2>2. \A m \in Locks : Has(pc'[current], arg'[current], current, m)
                           <=> Has(pc[current], arg[current], current, m) /\ m # TaskLock(current)
    BY <1>1, <1>5, <2>1 DEF Frees
  <2>3. Holds(current, TaskLock(current)) /\ TaskLock(current) \in Locks
    BY <1>1, LocksDiffer DEF Holds
  <2> QED  BY <1>1, <1>5, <2>2, <2>3, LockFreed
<1>7. \A u \in Tasks :
        /\ (pc'[u] \in Gone <=> pc[u] \in Gone)
        /\ (pc'[u] \in Gone \ {"exit_lock"} <=> pc[u] \in Gone \ {"exit_lock"})
        /\ (pc'[u] \in NewChildPoints <=> pc[u] \in NewChildPoints /\ u # current)
        /\ (pc'[u] \in DonePoints <=> pc[u] \in DonePoints)
        /\ (pc'[u] \in TakenPoints <=> pc[u] \in TakenPoints)
        /\ (pc'[u] \in ParentPoints <=> pc[u] \in ParentPoints)
        /\ (pc'[u] \in {"exit_unlink", "exit_lock"} <=> pc[u] \in {"exit_unlink", "exit_lock"})
  BY <1>1, <1>5 DEF Gone, NewChildPoints, DonePoints, TakenPoints, ParentPoints
<1>8. /\ \A t \in Tasks : t \in children'[current] <=> t \in children[current] \/ t = c
      /\ \A q \in Tasks \ {current} : children'[q] = children[q]
      /\ parent'[c] = current /\ \A t \in Tasks \ {c} : parent'[t] = parent[t]
  BY <1>1, <1>2, <1>3
<1>9. ChildrenExact'
  <2>1. ASSUME NEW q \in Tasks, NEW t \in Tasks, t \in children'[q]
        PROVE  /\ {q, t} \subseteq live' /\ parent'[t] = q /\ pc'[t] \notin Gone
               /\ pc'[q] \notin Gone \ {"exit_lock", "exit_reparent"}
    <3>1. CASE t = c
      <4>1. q = current
        BY <1>3, <1>8, <2>1, <3>1
      <4>2. pc'[c] \notin Gone /\ pc'[q] \notin Gone
        BY <1>2, <1>5, <4>1 DEF Gone
      <4> QED  BY <1>1, <1>2, <1>8, <3>1, <4>1, <4>2
    <3>2. CASE t # c
      <4>1. t \in children[q]
        BY <1>8, <2>1, <3>2
      <4>2. pc[q] \notin Gone \ {"exit_lock", "exit_reparent"}
            /\ {q, t} \subseteq live /\ parent[t] = q /\ pc[t] \notin Gone
        BY <4>1 DEF ChildrenExact
      <4>3. pc'[q] \notin Gone \ {"exit_lock", "exit_reparent"}
        BY <1>5, <4>2 DEF Gone
      <4> QED  BY <1>1, <1>7, <1>8, <3>2, <4>2, <4>3
    <3> QED  BY <3>1, <3>2
  <2>2. ASSUME NEW t \in live' \ {Idle}
        PROVE  (\E q \in live' : t \in children'[q]) \/ pc'[t] \in Gone
               \/ \E u \in live' : arg'[u] = t /\ pc'[u] \in {"fork_lock", "fork_adopt"}
    <3>1. CASE t = c
      BY <1>1, <1>2, <1>8, <3>1
    <3>2. CASE t # c
      <4>1. CASE \E q \in live : t \in children[q]
        <5>1. PICK q \in live : t \in children[q]
          BY <4>1
        <5>2. q \in Tasks /\ t \in Tasks
          BY <1>1
        <5>3. t \in children'[q]
          BY <1>8, <5>1, <5>2
        <5> QED  BY <1>1, <5>3
      <4>2. CASE pc[t] \in Gone
        BY <1>1, <1>7, <4>2
      <4>3. CASE \E u \in live : arg[u] = t /\ pc[u] \in NewChildPoints
        BY <1>1, <1>7, <3>2, <4>3 DEF NewChildPoints, c
      <4> QED  BY <1>1, <4>1, <4>2, <4>3 DEF ChildrenExact, NewChildPoints
    <3> QED  BY <3>1, <3>2
  <2> QED  BY <2>1, <2>2 DEF ChildrenExact
<1>10. FreshAlone'
  <2> SUFFICES ASSUME NEW u \in Tasks, NEW t \in Tasks, pc'[u] \in NewChildPoints, arg'[u] = t
               PROVE  /\ children'[t] = {} /\ \A q \in Tasks : t \notin children'[q]
                      /\ \A v \in Tasks : pc'[v] \in ParentPoints => arg'[v] # t
    BY DEF FreshAlone
  <2>1. /\ children[t] = {} /\ \A q \in Tasks : t \notin children[q]
        /\ \A v \in Tasks : pc[v] \in ParentPoints => arg[v] # t
    BY <1>1, <1>7 DEF FreshAlone
  <2>2. u # current /\ InHand(u, t)
    BY <1>1, <1>7 DEF InHand, NewChildPoints, ForkPoints
  <2>3. t # current /\ t # c
    BY <1>2, <2>2 DEF FInv, IInv, GInv, HandsOff
  <2> QED  BY <1>1, <1>7, <1>8, <2>1, <2>3
<1>11. ParentHeld'
  <2> SUFFICES ASSUME NEW v \in Tasks, pc'[v] \in ParentPoints
               PROVE  /\ arg'[v] \in live' /\ arg'[v] = parent'[v]
                      /\ pc'[arg'[v]] \notin Gone \ {"exit_lock"}
                      /\ pc'[v] \notin {"exit_unlink", "exit_lock"} => arg'[v] # v
    BY DEF ParentHeld
  <2>1. v # c
    BY <1>2, <1>7 DEF ParentPoints
  <2> QED  BY <1>1, <1>7, <1>8, <2>1 DEF ParentHeld
<1>12. DeadIsDone' /\ IdleRoot'
  <2>1. \A u \in Tasks : pc[u] \in TakenPoints => arg[u] \in Tasks
    BY DEF FInv, IInv, GInv, ReaperFits, TakenPoints
  <2> QED  BY <1>1, <1>4, <1>7, <1>8, <2>1 DEF DeadIsDone, IdleRoot
<1>13. WakeDone'
  BY <1>1, <1>5, WakeElsewhere DEF WakeTestPoints
<1> QED  BY <1>6, <1>9, <1>10, <1>11, <1>12, <1>13 DEF Kin

-----------------------------------------------------------------------------
(* Creating, picking and freeing a task_t.                                  *)

\* task_init on an unused task_t: whatever thread it was before, nobody holds
\* or waits for its lock.
LEMMA CreateKin ==
    ASSUME FInv, NEW c \in Tasks, NEW p, NEW from, Create(c, p, from), from \in {"boot", "run"}
    PROVE  Kin'
<1> USE FamilyTypes DEF Family
<1> DEFINE start == IF c = Reaper THEN "reap_tq" ELSE "run"
<1>1. /\ pc[current] = from /\ c \notin live /\ live' = live \cup {c}
      /\ pc' = [pc EXCEPT ![current] = "fork_lock", ![c] = start]
      /\ arg' = [arg EXCEPT ![current] = c]
      /\ lock' = [lock EXCEPT ![TaskLock(c)] = NULL]
      /\ UNCHANGED <<parent, children, current>>
  BY DEF Create, At
<1>2. c # current /\ c # Idle
  BY <1>1, Constants DEF FInv, IInv, GInv, IdleFits, ListsExact, Running
<1>3. /\ pc'[current] = "fork_lock" /\ pc'[c] = start /\ arg'[current] = c
      /\ \A t \in Tasks \ {current} : arg'[t] = arg[t]
      /\ \A t \in Tasks \ {current, c} : pc'[t] = pc[t]
  BY <1>1, <1>2
<1>4. start \in {"reap_tq", "run"}
  OBVIOUS
<1> HIDE DEF start
<1>5. pc[c] \in DonePoints
  BY <1>1 DEF DeadIsDone
<1>6. LockDiscipline'
  <2>1. ASSUME NEW m \in Locks, NEW t \in Tasks  PROVE Holds(t, m)' <=> Holds(t, m)
    <3>1. CASE t = current
      BY <1>1, <1>3, <3>1 DEF Holds
    <3>2. CASE t = c
      BY <1>3, <1>4, <1>5, <3>2 DEF Holds, DonePoints
    <3>3. CASE t \notin {c, current}
      BY <1>3, <3>3 DEF Holds
    <3> QED  BY <3>1, <3>2, <3>3
  <2>2. ASSUME NEW t \in Tasks  PROVE ~Holds(t, TaskLock(c))
    <3>1. pc[t] \in ParentPoints => arg[t] # c
      BY <1>1 DEF ParentHeld
    <3>2. TaskLock(c) # TaskLock(arg[t]) \/ pc[t] \notin ParentPoints
      BY <3>1, LocksDiffer
    <3>3. TaskLock(c) = TaskLock(t) => t = c
      BY LocksDiffer
    <3> QED  BY <1>5, <3>2, <3>3, LocksDiffer DEF Holds, ParentPoints, DonePoints
  <2>3. TaskLock(c) \in Locks
    BY LocksDiffer
  <2>4. lock[TaskLock(c)] = NULL
    BY <2>2, <2>3 DEF LockDiscipline
  <2>5. lock' = lock
    BY <1>1, <2>3, <2>4
  <2> QED  BY <2>1, <2>5 DEF LockDiscipline
<1>7. children[c] = {} /\ \A q \in Tasks : c \notin children[q]
  BY <1>1 DEF ChildrenExact
<1>8. \A v \in Tasks : pc[v] \in ParentPoints => arg[v] # c /\ v \notin {c, current}
  BY <1>1, <1>5 DEF ParentHeld, ParentPoints, DonePoints
<1>9. \A u \in Tasks \ {c} :
        /\ (pc'[u] \in Gone <=> pc[u] \in Gone)
        /\ (pc'[u] \in Gone \ {"exit_lock"} <=> pc[u] \in Gone \ {"exit_lock"})
        /\ (pc'[u] \in Gone \ {"exit_lock", "exit_reparent"}
              <=> pc[u] \in Gone \ {"exit_lock", "exit_reparent"})
        /\ (pc'[u] \in NewChildPoints <=> pc[u] \in NewChildPoints \/ u = current)
        /\ (pc'[u] \in DonePoints <=> pc[u] \in DonePoints)
        /\ (pc'[u] \in TakenPoints <=> pc[u] \in TakenPoints)
        /\ (pc'[u] \in ParentPoints <=> pc[u] \in ParentPoints)
        /\ (pc'[u] \in {"exit_unlink", "exit_lock"} <=> pc[u] \in {"exit_unlink", "exit_lock"})
  BY <1>1, <1>3 DEF Gone, NewChildPoints, DonePoints, TakenPoints, ParentPoints
<1>10. pc'[c] \notin Gone \cup NewChildPoints \cup DonePoints \cup TakenPoints \cup ParentPoints
  BY <1>3, <1>4 DEF Gone, NewChildPoints, DonePoints, TakenPoints, ParentPoints
<1>11. pc[current] \notin Gone \cup NewChildPoints \cup TakenPoints \cup ParentPoints
  BY <1>1 DEF Gone, NewChildPoints, TakenPoints, ParentPoints
<1>12. ChildrenExact'
  <2>1. ASSUME NEW q \in Tasks, NEW t \in Tasks, t \in children'[q]
        PROVE  /\ {q, t} \subseteq live' /\ parent'[t] = q /\ pc'[t] \notin Gone
               /\ pc'[q] \notin Gone \ {"exit_lock", "exit_reparent"}
    BY <1>1, <1>7, <1>9, <2>1 DEF ChildrenExact
  <2>2. ASSUME NEW t \in live' \ {Idle}
        PROVE  (\E q \in live' : t \in children'[q]) \/ pc'[t] \in Gone
               \/ \E u \in live' : arg'[u] = t /\ pc'[u] \in {"fork_lock", "fork_adopt"}
    <3>1. CASE t = c
      BY <1>1, <1>3, <3>1
    <3>2. CASE t # c
      <4>1. CASE \E q \in live : t \in children[q]
        BY <1>1, <4>1
      <4>2. CASE pc[t] \in Gone
        BY <1>1, <1>9, <3>2, <4>2
      <4>3. CASE \E u \in live : arg[u] = t /\ pc[u] \in NewChildPoints
        BY <1>1, <1>3, <1>9, <1>11, <4>3 DEF NewChildPoints
      <4> QED  BY <1>1, <3>2, <4>1, <4>2, <4>3 DEF ChildrenExact, NewChildPoints
    <3> QED  BY <3>1, <3>2
  <2> QED  BY <2>1, <2>2 DEF ChildrenExact
<1>13. FreshAlone'
  <2> SUFFICES ASSUME NEW u \in Tasks, NEW t \in Tasks, pc'[u] \in NewChildPoints, arg'[u] = t
               PROVE  /\ children'[t] = {} /\ \A q \in Tasks : t \notin children'[q]
                      /\ \A v \in Tasks : pc'[v] \in ParentPoints => arg'[v] # t
    BY DEF FreshAlone
  <2>1. u # c
    BY <1>10
  <2>2. \A v \in Tasks : pc'[v] \in ParentPoints => pc[v] \in ParentPoints /\ v # current /\ v # c
    BY <1>8, <1>9, <1>10
  <2>3. CASE u = current
    BY <1>1, <1>3, <1>7, <1>8, <2>2, <2>3
  <2>4. CASE u # current
    <3>1. pc[u] \in NewChildPoints /\ arg[u] = t
      BY <1>3, <1>9, <2>1, <2>4
    <3> QED  BY <1>1, <1>3, <2>2, <3>1 DEF FreshAlone
  <2> QED  BY <2>3, <2>4
<1>14. ParentHeld'
  <2> SUFFICES ASSUME NEW v \in Tasks, pc'[v] \in ParentPoints
               PROVE  /\ arg'[v] \in live' /\ arg'[v] = parent'[v]
                      /\ pc'[arg'[v]] \notin Gone \ {"exit_lock"}
                      /\ pc'[v] \notin {"exit_unlink", "exit_lock"} => arg'[v] # v
    BY DEF ParentHeld
  <2>1. v # c /\ v # current /\ pc[v] \in ParentPoints /\ arg[v] # c
    BY <1>8, <1>9, <1>10
  <2>2. arg'[v] = arg[v] /\ pc'[v] = pc[v]
    BY <1>3, <2>1
  <2>3. arg[v] \in live /\ arg[v] = parent[v] /\ pc[arg[v]] \notin Gone \ {"exit_lock"}
        /\ (pc[v] \notin {"exit_unlink", "exit_lock"} => arg[v] # v)
    BY <2>1 DEF ParentHeld
  <2>4. pc'[arg[v]] \notin Gone \ {"exit_lock"}
    BY <1>9, <2>1, <2>3
  <2> QED  BY <1>1, <2>2, <2>3, <2>4
<1>15. DeadIsDone'
  <2>1. \A t \in Tasks \ live' : pc'[t] \in DonePoints
    BY <1>1, <1>2, <1>3 DEF DeadIsDone
  <2>2. ASSUME NEW u \in Tasks, pc'[u] \in TakenPoints  PROVE pc'[arg'[u]] \in DonePoints
    <3>1. u # c /\ u # current /\ pc[u] \in TakenPoints
      BY <1>9, <1>10, <1>11, <2>2
    <3>2. arg[u] \in live
      BY <3>1 DEF FInv, IInv, GInv, ReaperFits, TakenPoints
    <3>3. arg[u] # c /\ arg'[u] = arg[u] /\ arg[u] \in Tasks
      BY <1>1, <1>3, <3>1, <3>2
    <3> QED  BY <1>9, <3>1, <3>3 DEF DeadIsDone
  <2> QED  BY <2>1, <2>2 DEF DeadIsDone
<1>16. IdleRoot'
  BY <1>1 DEF IdleRoot
<1>17. WakeDone'
  BY <1>1, <1>3, WakeElsewhere DEF WakeTestPoints
<1> QED  BY <1>6, <1>12, <1>13, <1>14, <1>15, <1>16, <1>17 DEF Kin

\* kkill_zombie looks at the queue and gives its lock back.
LEMMA PickZombieKin ==
    ASSUME FInv, PickZombie  PROVE Kin'
<1> USE FamilyTypes DEF Family
<1> DEFINE z == tq_pick_next(Zombie)
           to == IF z \in {current, NULL} THEN "reap_sched" ELSE "reap_tq2"
<1>1. /\ pc[current] = "reap_pick" /\ pc' = [pc EXCEPT ![current] = to]
      /\ arg' = [arg EXCEPT ![current] = z]
      /\ lock' = [lock EXCEPT ![Zombie] = NULL]
      /\ UNCHANGED <<family, current>>
  BY DEF PickZombie, At, Goto, Release
<1>2. to \in {"reap_sched", "reap_tq2"}
  OBVIOUS
<1> HIDE DEF to, z
<1>3. pc'[current] = to /\ \A t \in Tasks \ {current} : pc'[t] = pc[t] /\ arg'[t] = arg[t]
  BY <1>1
<1>4. \A m \in Locks : Has(pc'[current], arg'[current], current, m)
                         <=> Has(pc[current], arg[current], current, m) /\ m # Zombie
  <2>1. \A m \in Locks : ~Has(to, arg'[current], current, m)
    BY <1>2 DEF Has
  <2>2. \A m \in Locks : Has("reap_pick", arg[current], current, m) <=> m = Zombie
    BY DEF Has
  <2> QED  BY <1>1, <1>3, <2>1, <2>2
<1>5. LockDiscipline'
  <2>1. Holds(current, Zombie) /\ Zombie \in Locks
    BY <1>1, LocksDiffer DEF Holds
  <2> QED  BY <1>1, <1>3, <1>4, <2>1, LockFreed
<1>6. Family'
  <2>1. Neutral(pc[current], to)
    BY <1>1, <1>2, NeutralMoves
  <2>2. to \notin NewChildPoints \cup ParentPoints \cup TakenPoints
    BY <1>2 DEF NewChildPoints, ParentPoints, TakenPoints
  <2> QED  BY <1>1, <1>3, <2>1, <2>2, NeutralStep
<1>7. WakeDone'
  BY <1>1, <1>2, <1>3, WakeElsewhere DEF WakeTestPoints
<1> QED  BY <1>5, <1>6, <1>7 DEF Kin

\* kkill_zombie takes a zombie off the queue: its lock is the zombie queue's,
\* so the zombie itself has left task_exit's critical section on that queue.
LEMMA UnlinkZombieKin ==
    ASSUME FInv, UnlinkZombie  PROVE Kin'
<1> USE FamilyTypes DEF Family
<1>1. /\ pc[current] = "reap_unlink" /\ pc' = [pc EXCEPT ![current] = "reap_unlock"]
      /\ UNCHANGED <<lock, arg, family, current>>
  BY DEF UnlinkZombie, At, Goto
<1>2. pc'[current] = "reap_unlock" /\ \A t \in Tasks \ {current} : pc'[t] = pc[t] /\ arg'[t] = arg[t]
  BY <1>1
<1>3. LockDiscipline'
  <2>1. Keeps("reap_unlink", arg[current], "reap_unlock", arg[current], current)
    BY DEF Keeps, Has
  <2> QED  BY <1>1, <1>2, <2>1, LockKept
<1>4. live' = live /\ parent' = parent /\ children' = children
  BY <1>1 DEF family
<1>5. \A u \in Tasks :
        /\ (pc'[u] \in Gone <=> pc[u] \in Gone)
        /\ (pc'[u] \in Gone \ {"exit_lock"} <=> pc[u] \in Gone \ {"exit_lock"})
        /\ (pc'[u] \in Gone \ {"exit_lock", "exit_reparent"}
              <=> pc[u] \in Gone \ {"exit_lock", "exit_reparent"})
        /\ (pc'[u] \in NewChildPoints <=> pc[u] \in NewChildPoints)
        /\ (pc'[u] \in DonePoints <=> pc[u] \in DonePoints)
        /\ (pc'[u] \in TakenPoints <=> pc[u] \in TakenPoints \/ u = current)
        /\ (pc'[u] \in ParentPoints <=> pc[u] \in ParentPoints)
        /\ (pc'[u] \in {"exit_unlink", "exit_lock"} <=> pc[u] \in {"exit_unlink", "exit_lock"})
  BY <1>1, <1>2 DEF Gone, NewChildPoints, DonePoints, TakenPoints, ParentPoints
<1>6. ChildrenExact'
  <2>1. ASSUME NEW p \in Tasks, NEW t \in Tasks, t \in children'[p]
        PROVE  /\ {p, t} \subseteq live' /\ parent'[t] = p /\ pc'[t] \notin Gone
               /\ pc'[p] \notin Gone \ {"exit_lock", "exit_reparent"}
    BY <1>4, <1>5, <2>1 DEF ChildrenExact
  <2>2. ASSUME NEW t \in live' \ {Idle}
        PROVE  (\E p \in live' : t \in children'[p]) \/ pc'[t] \in Gone
               \/ \E u \in live' : arg'[u] = t /\ pc'[u] \in {"fork_lock", "fork_adopt"}
    BY <1>1, <1>4, <1>5 DEF ChildrenExact, NewChildPoints
  <2> QED  BY <2>1, <2>2 DEF ChildrenExact
<1>7. FreshAlone' /\ IdleRoot'
  BY <1>1, <1>4, <1>5 DEF FreshAlone, IdleRoot
<1>8. ParentHeld'
  BY <1>1, <1>4, <1>5 DEF ParentHeld
<1>9. DeadIsDone'
  <2>1. arg[current] \in On(Zombie) /\ arg[current] \in Tasks
    BY <1>1, ListFacts, HeadsDiffer DEF FInv, IInv, GInv, ReaperFits
  <2>2. stat[arg[current]] = "ZOMBIE"
    BY <2>1, HeadsDiffer DEF FInv, IInv, GInv, ListsExact
  <2>3. pc[arg[current]] \in {"exit_tq", "exit_link"} \cup DeadPoints
    BY <2>1, <2>2 DEF FInv, IInv, GInv, StatPoints, StatFits
  <2>4. pc[arg[current]] \notin Unlinked
    BY <2>1, ListFacts, HeadsDiffer DEF FInv, IInv, GInv, WindowsUnlinked, Windows, Linked
  <2>5. pc[arg[current]] # "exit_tqunlock"
    <3> SUFFICES ASSUME pc[arg[current]] = "exit_tqunlock"  PROVE FALSE
      OBVIOUS
    <3>1. Holds(arg[current], Zombie) /\ Holds(current, Zombie)
      BY <1>1 DEF Holds
    <3>2. arg[current] = current
      BY <2>1, <3>1, LocksDiffer DEF LockDiscipline
    <3> QED  BY <1>1, <3>2
  <2>6. pc[arg[current]] \in DonePoints
    BY <2>3, <2>4, <2>5 DEF DeadPoints, DonePoints, Unlinked
  <2>7. \A u \in Tasks : pc[u] \in TakenPoints => arg[u] \in Tasks
    BY DEF FInv, IInv, GInv, ReaperFits, TakenPoints
  <2> QED  BY <1>1, <1>4, <1>5, <2>1, <2>6, <2>7 DEF DeadIsDone
<1>10. WakeDone'
  BY <1>1, <1>2, WakeElsewhere DEF WakeTestPoints
<1> QED  BY <1>3, <1>6, <1>7, <1>8, <1>9, <1>10 DEF Kin

\* task_kill: what is freed is nobody's child, parent or lock holder.
LEMMA KillKin ==
    ASSUME FInv, Kill  PROVE Kin'
<1> USE FamilyTypes DEF Family
<1> DEFINE z == arg[current]
<1>1. /\ pc[current] = "reap_kill" /\ pc' = [pc EXCEPT ![current] = "reap_tq"]
      /\ live' = live \ {z} /\ arg' = [arg EXCEPT ![current] = NULL]
      /\ UNCHANGED <<lock, parent, children, current>>
  BY DEF Kill, At, Goto
<1>2. z \in live /\ z \in Tasks /\ pc[z] \in DonePoints
  BY <1>1 DEF FInv, IInv, GInv, ReaperFits, DeadIsDone, TakenPoints
<1>3. pc[z] \in Gone \ {"exit_lock", "exit_reparent"} /\ z # current /\ z # Idle
      /\ pc[z] \notin NewChildPoints \cup ParentPoints
  BY <1>1, <1>2 DEF Gone, DonePoints, NewChildPoints, ParentPoints, FInv, IInv, GInv, IdleFits,
     ForkPoints
<1> HIDE DEF z
<1>4. /\ pc'[current] = "reap_tq" /\ arg'[current] = NULL
      /\ \A t \in Tasks \ {current} : pc'[t] = pc[t] /\ arg'[t] = arg[t]
  BY <1>1
<1>5. LockDiscipline'
  <2>1. Keeps("reap_kill", arg[current], "reap_tq", NULL, current)
    BY DEF Keeps, Has
  <2> QED  BY <1>1, <1>4, <2>1, LockKept
<1>6. \A u \in Tasks :
        /\ (pc'[u] \in Gone <=> pc[u] \in Gone)
        /\ (pc'[u] \in Gone \ {"exit_lock"} <=> pc[u] \in Gone \ {"exit_lock"})
        /\ (pc'[u] \in Gone \ {"exit_lock", "exit_reparent"}
              <=> pc[u] \in Gone \ {"exit_lock", "exit_reparent"})
        /\ (pc'[u] \in NewChildPoints <=> pc[u] \in NewChildPoints)
        /\ (pc'[u] \in NewChildPoints => arg'[u] = arg[u])
        /\ (pc'[u] \in DonePoints <=> pc[u] \in DonePoints)
        /\ (pc'[u] \in TakenPoints => pc[u] \in TakenPoints /\ arg'[u] = arg[u])
        /\ (pc'[u] \in ParentPoints <=> pc[u] \in ParentPoints)
        /\ (pc'[u] \in ParentPoints => arg'[u] = arg[u])
        /\ (pc'[u] \in {"exit_unlink", "exit_lock"} <=> pc[u] \in {"exit_unlink", "exit_lock"})
  BY <1>1, <1>4 DEF Gone, NewChildPoints, DonePoints, TakenPoints, ParentPoints
<1>7. ChildrenExact'
  <2>1. ASSUME NEW p \in Tasks, NEW t \in Tasks, t \in children'[p]
        PROVE  /\ {p, t} \subseteq live' /\ parent'[t] = p /\ pc'[t] \notin Gone
               /\ pc'[p] \notin Gone \ {"exit_lock", "exit_reparent"}
    BY <1>1, <1>3, <1>6, <2>1 DEF ChildrenExact
  <2>2. ASSUME NEW t \in live' \ {Idle}
        PROVE  (\E p \in live' : t \in children'[p]) \/ pc'[t] \in Gone
               \/ \E u \in live' : arg'[u] = t /\ pc'[u] \in {"fork_lock", "fork_adopt"}
    <3>1. CASE \E p \in live : t \in children[p]
      <4>1. PICK p \in live : t \in children[p]
        BY <3>1
      <4>2. p # z
        BY <1>1, <1>3, <4>1 DEF ChildrenExact
      <4> QED  BY <1>1, <4>1, <4>2
    <3>2. CASE pc[t] \in Gone
      BY <1>1, <1>6, <3>2
    <3>3. CASE \E u \in live : arg[u] = t /\ pc[u] \in NewChildPoints
      BY <1>1, <1>3, <1>6, <3>3 DEF NewChildPoints
    <3> QED  BY <1>1, <3>1, <3>2, <3>3 DEF ChildrenExact, NewChildPoints
  <2> QED  BY <2>1, <2>2 DEF ChildrenExact
<1>8. FreshAlone' /\ IdleRoot'
  BY <1>1, <1>6 DEF FreshAlone, IdleRoot
<1>9. ParentHeld'
  <2> SUFFICES ASSUME NEW v \in Tasks, pc'[v] \in ParentPoints
               PROVE  /\ arg'[v] \in live' /\ arg'[v] = parent'[v]
                      /\ pc'[arg'[v]] \notin Gone \ {"exit_lock"}
                      /\ pc'[v] \notin {"exit_unlink", "exit_lock"} => arg'[v] # v
    BY DEF ParentHeld
  <2>1. pc[v] \in ParentPoints /\ arg'[v] = arg[v] /\ arg[v] \in live
    BY <1>6 DEF ParentHeld
  <2>2. arg[v] # z
    BY <1>3, <2>1 DEF ParentHeld
  <2> QED  BY <1>1, <1>6, <2>1, <2>2 DEF ParentHeld
<1>10. DeadIsDone'
  <2>1. \A u \in Tasks : pc[u] \in TakenPoints => arg[u] \in Tasks
    BY DEF FInv, IInv, GInv, ReaperFits, TakenPoints
  <2> QED  BY <1>1, <1>2, <1>6, <2>1 DEF DeadIsDone
<1>11. WakeDone'
  BY <1>1, <1>4, WakeElsewhere DEF WakeTestPoints
<1> QED  BY <1>5, <1>7, <1>8, <1>9, <1>10, <1>11 DEF Kin

-----------------------------------------------------------------------------
(* The interrupt, and all steps together.                                   *)

\* A step that touches neither a lock nor a thread's place nor the family.
LEMMA StillKin ==
    ASSUME FInv, UNCHANGED <<lock, pc, arg, family>>
    PROVE  LockDiscipline' /\ Family'
<1>1. LockDiscipline'
  BY FamilyTypes DEF LockDiscipline, Holds
<1>2. Family'
  BY FamilyTypes DEF Family, ChildrenExact, FreshAlone, ParentHeld, DeadIsDone, IdleRoot, family
<1> QED  BY <1>1, <1>2

\* The handler's steps, and those that change nothing.
LEMMA TickKin ==
    ASSUME FInv, IInv', Tick \/ SchedTick \/ UNCHANGED vars
    PROVE  Kin'
<1>1. LockDiscipline' /\ Family'
  BY StillKin DEF Tick, SchedTick, TickScan, TickUnlink, TickEnqueue, TickReturn, TickSwitch, vars
<1>2. WakeDone'
  <2>1. CASE TickSwitch
    BY <2>1, SwitchedOutside DEF TickSwitch
  <2>2. CASE TickUnlink
    <3>1. UNCHANGED <<current, pc, arg, wait_for, children>>
          /\ stat' = [stat EXCEPT ![cursor] = "READY"]
      BY <2>2 DEF TickUnlink, family
    <3>2. \A t : stat'[t] = "WAITING" /\ t \in Tasks => stat[t] = "WAITING"
      BY <3>1, FamilyTypes
    <3>3. pc[current] \in WakeTestPoints => arg[current] \in Tasks
      BY FamilyTypes DEF Family, ParentHeld, WakeTestPoints, ParentPoints
    <3> QED  BY <3>1, <3>2, <3>3 DEF FInv, WakeDone, MustWake, WakeTestPoints
  <2>3. CASE Tick \/ TickScan \/ TickEnqueue \/ TickReturn \/ UNCHANGED vars
    BY <2>3 DEF FInv, WakeDone, MustWake, Tick, TickScan, TickEnqueue, TickReturn, vars, fields,
       family
  <2> QED  BY <2>1, <2>2, <2>3 DEF SchedTick
<1> QED  BY <1>1, <1>2 DEF Kin

\* The locks the services take and free, at each of their statements.
LEMMA TakeMoves ==
    ASSUME NEW a, NEW t
    PROVE  /\ Takes("fork_lock", "fork_adopt", a, t, TaskLock(t))
           /\ Takes("fork_rr", "fork_enqueue", a, t, RR)
           /\ Takes("sleep_rr", "sleep_dequeue", a, t, RR)
           /\ Takes("sleep_tq", "sleep_add", a, t, Sleep)
           /\ Takes("wait_rr", "wait_dequeue", a, t, RR)
           /\ Takes("prio_rr", "prio_dequeue", a, t, RR)
           /\ Takes("prio_rr2", "prio_enqueue", a, t, RR)
           /\ Takes("exit_rr", "exit_dequeue", a, t, RR)
           /\ Takes("exit_wake", "exit_enqueue", a, t, RR)
           /\ Takes("exit_tq", "exit_link", a, t, Zombie)
           /\ Takes("reap_tq", "reap_pick", a, t, Zombie)
           /\ Takes("reap_tq2", "reap_unlink", a, t, Zombie)
BY DEF Takes, Has

\* The moves that release a lock.
LEMMA FreeMoves ==
    ASSUME NEW a, NEW t
    PROVE  /\ Frees("fork_enqueue", "fork_sched", a, t, RR)
           /\ Frees("sleep_dequeue", "sleep_mark", a, t, RR)
           /\ Frees("sleep_unlock", "sleep_sched", a, t, Sleep)
           /\ Frees("wait_dequeue", "wait_mark", a, t, RR)
           /\ Frees("prio_dequeue", "prio_set", a, t, RR)
           /\ Frees("prio_enqueue", "prio_unlock", a, t, RR)
           /\ Frees("prio_unlock", "prio_sched", a, t, TaskLock(t))
           /\ Frees("exit_dequeue", "exit_lockp", a, t, RR)
           /\ Frees("exit_unlockp", "exit_mark", a, t, TaskLock(a))
           /\ Frees("exit_tqunlock", "exit_sched", a, t, Zombie)
           /\ Frees("reap_unlock", "reap_kill", a, t, Zombie)
BY LocksDiffer DEF Frees, Has

\* The moves that keep every lock.
LEMMA KeepMoves ==
    ASSUME NEW a, NEW b, NEW t
    PROVE  /\ Keeps("fork_sched", a, "fork_ret", b, t) /\ Keeps("fork_ret", a, "run", b, t)
           /\ Keeps("sleep_sched", a, "run", b, t)
           /\ Keeps("wait_sched", a, "run", b, t) /\ Keeps("yield_sched", a, "run", b, t)
           /\ Keeps("prio_sched", a, "run", b, t) /\ Keeps("exit_sched", a, "dead", b, t)
           /\ Keeps("reap_sched", a, "reap_tq", b, t)
           /\ Keeps("run", a, "sleep_rr", a, t) /\ Keeps("run", a, "wait_rr", a, t)
           /\ Keeps("run", a, "yield_sched", a, t) /\ Keeps("run", a, "prio_lock", a, t)
           /\ Keeps("run", a, "exit_rr", a, t)
           /\ Keeps("sleep_mark", a, "sleep_tq", a, t) /\ Keeps("sleep_add", a, "sleep_half", a, t)
           /\ Keeps("sleep_half", a, "sleep_unlock", a, t)
           /\ Keeps("wait_mark", a, "wait_sched", a, t)
           /\ Keeps("prio_set", a, "prio_rr2", a, t) /\ Keeps("prio_set", a, "prio_unlock", a, t)
           /\ Keeps("exit_mark", a, "exit_tq", a, t) /\ Keeps("exit_link", a, "exit_tqunlock", a, t)
BY DEF Keeps, Has

\* The targets of ScheduleKin, and of every step that WakeDone is not about.
LEMMA PlainTargets ==
    /\ {"run", "dead", "reap_tq", "fork_ret"} \cap (NewChildPoints \cup ParentPoints \cup TakenPoints) = {}
    /\ WakeTestPoints = {"exit_unlock", "exit_unlockp"}
BY DEF NewChildPoints, ParentPoints, TakenPoints, WakeTestPoints

\* The return from kernel_thread: the creator lets go of its child.
LEMMA ReturnPidKin ==
    ASSUME FInv, ReturnPid  PROVE Kin'
<1>1. /\ pc[current] = "fork_ret" /\ pc' = [pc EXCEPT ![current] = "run"]
      /\ arg' = [arg EXCEPT ![current] = NULL]
      /\ UNCHANGED <<lock, current, family>>
  BY DEF ReturnPid, At, Goto
<1>2. /\ pc'[current] = "run"
      /\ \A t \in Tasks \ {current} : pc'[t] = pc[t] /\ arg'[t] = arg[t]
  BY <1>1, FamilyTypes
<1>3. Keeps("fork_ret", arg[current], "run", arg'[current], current) /\ Neutral("fork_ret", "run")
  BY KeepMoves, NeutralMoves
<1>4. LockDiscipline'
  BY <1>1, <1>2, <1>3, LockKept
<1>5. "run" \notin NewChildPoints \cup ParentPoints \cup TakenPoints \cup WakeTestPoints
  BY DEF NewChildPoints, ParentPoints, TakenPoints, WakeTestPoints
<1>6. Family'
  BY <1>1, <1>2, <1>3, <1>5, NeutralStep
<1> QED  BY <1>1, <1>2, <1>4, <1>5, <1>6, WakeElsewhere DEF Kin

\* kernel_thread.
LEMMA KernelThreadKin ==
    ASSUME FInv, IInv', KernelThread  PROVE Kin'
<1> USE NeutralMoves, PlainTargets
<1>1. CASE \E c \in Workers : Create(c, InitPrio, "boot")
  BY <1>1, Constants, CreateKin
<1>2. CASE \E c \in Workers, p \in Levels : Create(c, p, "run")
  BY <1>2, Constants, CreateKin
<1>3. CASE Create(Reaper, DaemonPrio, "run")
  BY <1>3, Constants, CreateKin
<1>4. CASE Acquire(TaskLock(current), "fork_lock", "fork_adopt")
  BY <1>4, FamilyTypes, LocksDiffer, TakeMoves, AcquireKin
<1>5. CASE Adopt
  BY <1>5, AdoptKin
<1>6. CASE Acquire(RR, "fork_rr", "fork_enqueue")
  BY <1>6, LocksDiffer, TakeMoves, AcquireKin
<1>7. CASE Enqueue(arg[current], "fork_enqueue", "fork_sched")
  BY <1>7, FreeMoves, SectionKin DEF Enqueue, At
<1>8. CASE Schedule("fork_sched", "fork_ret")
  BY <1>8, KeepMoves, ScheduleKin
<1>9. CASE ReturnPid
  BY <1>9, ReturnPidKin
<1> QED  BY <1>1, <1>2, <1>3, <1>4, <1>5, <1>6, <1>7, <1>8, <1>9 DEF KernelThread

\* sleep, wait and the bare schedule().
LEMMA SleepWaitKin ==
    ASSUME FInv, IInv', SleepCall \/ WaitCall \/ YieldCall  PROVE Kin'
<1> USE NeutralMoves, PlainTargets
<1>1. CASE \/ Call("sleep", "sleep_rr") \/ Call("wait", "wait_rr") \/ Call("yield", "yield_sched")
  BY <1>1, KeepMoves, MoveKin DEF Call, At
<1>2. CASE Acquire(RR, "sleep_rr", "sleep_dequeue") \/ Acquire(RR, "wait_rr", "wait_dequeue")
  BY <1>2, LocksDiffer, TakeMoves, AcquireKin
<1>3. CASE Acquire(Sleep, "sleep_tq", "sleep_add")
  BY <1>3, LocksDiffer, TakeMoves, AcquireKin
<1>4. CASE Dequeue("sleep_dequeue", "sleep_mark") \/ Dequeue("wait_dequeue", "wait_mark")
  BY <1>4, FreeMoves, SectionKin DEF Dequeue, At
<1>5. CASE SetSleep
  BY <1>5, KeepMoves, MoveKin DEF SetSleep, At
<1>6. CASE Link(Sleep, "sleep_add", "sleep_half")
  BY <1>6, KeepMoves, MoveKin DEF Link, At
<1>7. CASE FinishLink
  BY <1>7, KeepMoves, MoveKin DEF FinishLink, At
<1>8. CASE Unlock(Sleep, "sleep_unlock", "sleep_sched")
  BY <1>8, LocksDiffer, FreeMoves, UnlockKin
<1>9. CASE SetStat(current, "WAITING", "wait_mark", "wait_sched")
  BY <1>9, KeepMoves, MoveKin DEF SetStat, At
<1>10. CASE Schedule("sleep_sched", "run") \/ Schedule("wait_sched", "run") \/ Schedule("yield_sched", "run")
  BY <1>10, KeepMoves, ScheduleKin
<1> QED
  BY <1>1, <1>2, <1>3, <1>4, <1>5, <1>6, <1>7, <1>8, <1>9, <1>10
     DEF SleepCall, WaitCall, YieldCall

\* task_reset_prio.
LEMMA ResetPrioKin ==
    ASSUME FInv, IInv', ResetPrio  PROVE Kin'
<1> USE NeutralMoves, PlainTargets
<1>1. CASE Call("prio", "prio_lock")
  BY <1>1, KeepMoves, MoveKin DEF Call, At
<1>2. CASE LockSelf
  <2>1. stat[current] = "READY"
    BY <1>2, FamilyTypes
       DEF LockSelf, At, FInv, IInv, GInv, StatPoints, Stats, StatFits, SleepPoints, DeadPoints
  <2>2. /\ pc[current] = "prio_lock" /\ pc' = [pc EXCEPT ![current] = "prio_rr"]
        /\ lock[TaskLock(current)] = NULL /\ lock' = [lock EXCEPT ![TaskLock(current)] = current]
        /\ UNCHANGED <<current, arg, family>>
    BY <1>2, <2>1 DEF LockSelf, At, Goto
  <2>3. pc'[current] = "prio_rr" /\ \A t \in Tasks \ {current} : pc'[t] = pc[t] /\ arg'[t] = arg[t]
    BY <2>2, FamilyTypes
  <2>4. \A m \in Locks : Has(pc'[current], arg'[current], current, m)
                           <=> Has(pc[current], arg[current], current, m) \/ m = TaskLock(current)
    BY <2>2, <2>3 DEF Has
  <2>5. LockDiscipline'
    BY <2>2, <2>3, <2>4, FamilyTypes, LocksDiffer, LockTaken
  <2>6. Family'
    BY <2>2, <2>3, NeutralStep
  <2> QED  BY <2>2, <2>3, <2>5, <2>6, WakeElsewhere DEF Kin
<1>3. CASE Acquire(RR, "prio_rr", "prio_dequeue") \/ Acquire(RR, "prio_rr2", "prio_enqueue")
  BY <1>3, LocksDiffer, TakeMoves, AcquireKin
<1>4. CASE Dequeue("prio_dequeue", "prio_set")
  BY <1>4, FreeMoves, SectionKin DEF Dequeue, At
<1>5. CASE SetPrio
  BY <1>5, KeepMoves, MoveKin DEF SetPrio, At
<1>6. CASE Enqueue(current, "prio_enqueue", "prio_unlock")
  BY <1>6, FreeMoves, SectionKin DEF Enqueue, At
<1>7. CASE Unlock(TaskLock(current), "prio_unlock", "prio_sched")
  BY <1>7, FamilyTypes, LocksDiffer, FreeMoves, UnlockKin
<1>8. CASE Schedule("prio_sched", "run")
  BY <1>8, KeepMoves, ScheduleKin
<1> QED  BY <1>1, <1>2, <1>3, <1>4, <1>5, <1>6, <1>7, <1>8 DEF ResetPrio

\* kthread_exit and task_exit.
LEMMA ExitKin ==
    ASSUME FInv, IInv', Exit  PROVE Kin'
<1> USE NeutralMoves, PlainTargets
<1>1. CASE Call("exit", "exit_rr")
  BY <1>1, KeepMoves, MoveKin DEF Call, At
<1>2. CASE Acquire(RR, "exit_rr", "exit_dequeue") \/ Acquire(RR, "exit_wake", "exit_enqueue")
  BY <1>2, LocksDiffer, TakeMoves, AcquireKin
<1>3. CASE Dequeue("exit_dequeue", "exit_lockp")
  BY <1>3, FreeMoves, SectionKin DEF Dequeue, At
<1>4. CASE LockParent \/ UnlinkSibling \/ Acquire(TaskLock(current), "exit_lock", "exit_reparent")
           \/ Reparent \/ CheckParent
  BY <1>4, LockParentKin, UnlinkSiblingKin, LockOwnKin, ReparentKin, CheckParentKin
<1>5. CASE Enqueue(arg[current], "exit_enqueue", "exit_unlock")
           \/ Unlock(TaskLock(current), "exit_unlock", "exit_unlockp")
  BY <1>5, WakeParentKin, UnlockOwnKin
<1>6. CASE Unlock(TaskLock(arg[current]), "exit_unlockp", "exit_mark")
  <2>1. TaskLock(arg[current]) \in Locks
    BY <1>6, FamilyTypes, LocksDiffer DEF Unlock, At, Family, ParentHeld, ParentPoints
  <2> QED  BY <1>6, <2>1, FreeMoves, UnlockKin
<1>7. CASE SetStat(current, "ZOMBIE", "exit_mark", "exit_tq")
  BY <1>7, KeepMoves, MoveKin DEF SetStat, At
<1>8. CASE Acquire(Zombie, "exit_tq", "exit_link")
  BY <1>8, LocksDiffer, TakeMoves, AcquireKin
<1>9. CASE Link(Zombie, "exit_link", "exit_tqunlock")
  BY <1>9, KeepMoves, MoveKin DEF Link, At
<1>10. CASE Unlock(Zombie, "exit_tqunlock", "exit_sched")
  BY <1>10, LocksDiffer, FreeMoves, UnlockKin
<1>11. CASE Schedule("exit_sched", "dead")
  BY <1>11, KeepMoves, ScheduleKin
<1> QED
  BY <1>1, <1>2, <1>3, <1>4, <1>5, <1>6, <1>7, <1>8, <1>9, <1>10, <1>11 DEF Exit

\* kkill_zombie.
LEMMA KillZombiesKin ==
    ASSUME FInv, IInv', KillZombies  PROVE Kin'
<1> USE NeutralMoves, PlainTargets
<1>1. CASE Acquire(Zombie, "reap_tq", "reap_pick") \/ Acquire(Zombie, "reap_tq2", "reap_unlink")
  BY <1>1, LocksDiffer, TakeMoves, AcquireKin
<1>2. CASE PickZombie \/ UnlinkZombie \/ Kill
  BY <1>2, PickZombieKin, UnlinkZombieKin, KillKin
<1>3. CASE Schedule("reap_sched", "reap_tq")
  BY <1>3, KeepMoves, ScheduleKin
<1>4. CASE Unlock(Zombie, "reap_unlock", "reap_kill")
  BY <1>4, LocksDiffer, FreeMoves, UnlockKin
<1> QED  BY <1>1, <1>2, <1>3, <1>4 DEF KillZombies

\* Every step keeps FInv.
LEMMA NextFamily ==
    ASSUME FInv, [Next]_vars  PROVE FInv'
<1>1. IInv'
  BY NextUnused DEF FInv
<1>2. Kin'
  <2>1. CASE Service
    BY <1>1, <2>1, KernelThreadKin, SleepWaitKin, ResetPrioKin, ExitKin, KillZombiesKin
       DEF Service
  <2>2. CASE Tick \/ SchedTick \/ Spin \/ UNCHANGED vars
    BY <1>1, <2>2, TickKin DEF Spin
  <2> QED  BY <2>1, <2>2 DEF Next
<1> QED  BY <1>1, <1>2 DEF FInv, Kin, Family

\* The invariant holds at first.
LEMMA InitFamily ==
    ASSUME Init  PROVE FInv
<1>1. IInv
  BY InitUnused
<1>2. /\ \A t \in Tasks : pc[t] \in {"boot", "dead"} /\ children[t] = {} /\ parent[t] = NULL
      /\ \A l \in Locks : lock[l] = NULL
      /\ live = {Idle} /\ \A t \in Tasks \ {Idle} : pc[t] = "dead"
      /\ current \in Tasks
  BY Constants DEF Init
<1>3. LockDiscipline
  BY <1>2, Constants DEF LockDiscipline, Holds
<1>4. ChildrenExact
  BY <1>2, Constants DEF ChildrenExact, Gone
<1>5. FreshAlone /\ ParentHeld /\ DeadIsDone /\ IdleRoot /\ WakeDone
  BY <1>2, Constants DEF FreshAlone, ParentHeld, DeadIsDone, IdleRoot, WakeDone, NewChildPoints,
     ParentPoints, DonePoints, TakenPoints
<1> QED  BY <1>1, <1>3, <1>4, <1>5 DEF FInv

\* The locks and the family tree, with what makes them inductive.
THEOREM FamilyInvariant == Spec => []FInv
<1>1. Init => FInv
  BY InitFamily
<1>2. FInv /\ [Next]_vars => FInv'
  BY NextFamily
<1> QED  BY <1>1, <1>2, PTL DEF Spec

\* Every spin lock is held by the thread inside its critical section and by
\* no other, through exits, reuse of a freed task_t and every interrupt.
THEOREM Locked == Spec => []LockDiscipline
<1>1. FInv => LockDiscipline
  BY DEF FInv
<1> QED  BY <1>1, FamilyInvariant, PTL

\* The lists of children and the parent pointers (sched.c:51-61) agree, and
\* no child is ever left with a parent that is gone.
THEOREM FamilyTree == Spec => []ChildrenExact
<1>1. FInv => ChildrenExact
  BY DEF FInv
<1> QED  BY <1>1, FamilyInvariant, PTL

-----------------------------------------------------------------------------
(* No wake-up is missed.                                                    *)

\* A service moves the running thread, and besides it only a task_t that is
\* not in use.
LEMMA OthersStay ==
    ASSUME FInv, Service, NEW t \in Tasks, t # current
    PROVE  arg'[t] = arg[t] /\ (t \in live => pc'[t] = pc[t])
<1> USE FamilyTypes DEF At, Goto, Acquire, Unlock, Enqueue, Dequeue, Schedule, Call
<1>1. CASE KernelThread
  BY <1>1 DEF KernelThread, Create, Adopt, ReturnPid
<1>2. CASE SleepCall
  BY <1>2 DEF SleepCall, SetSleep, Link, FinishLink
<1>3. CASE WaitCall
  BY <1>3 DEF WaitCall, SetStat
<1>4. CASE YieldCall
  BY <1>4 DEF YieldCall
<1>5. CASE ResetPrio
  BY <1>5 DEF ResetPrio, LockSelf, SetPrio
<1>6. CASE Exit
  BY <1>6 DEF Exit, LockParent, UnlinkSibling, Reparent, CheckParent, SetStat, Link
<1>7. CASE KillZombies
  BY <1>7 DEF KillZombies, PickZombie, UnlinkZombie, Kill
<1> QED  BY <1>1, <1>2, <1>3, <1>4, <1>5, <1>6, <1>7 DEF Service

\* An exiting thread that holds its parent's lock keeps it until exit_unlockp.
LEMMA HoldsParent ==
    ASSUME FInv, Service, pc[current] \in ParentPoints
    PROVE  \/ pc'[current] \in ParentPoints /\ arg'[current] = arg[current]
           \/ pc[current] = "exit_unlockp" /\ UNCHANGED <<stat, children>>
<1> USE FamilyTypes DEF ParentPoints, At, Goto, Acquire, Unlock, Enqueue, Dequeue, Schedule, Call
<1>1. CASE KernelThread
  BY <1>1 DEF KernelThread, Create, Adopt, ReturnPid
<1>2. CASE SleepCall
  BY <1>2 DEF SleepCall, SetSleep, Link, FinishLink
<1>3. CASE WaitCall
  BY <1>3 DEF WaitCall, SetStat
<1>4. CASE YieldCall
  BY <1>4 DEF YieldCall
<1>5. CASE ResetPrio
  BY <1>5 DEF ResetPrio, LockSelf, SetPrio
<1>6. CASE Exit
  BY <1>6 DEF Exit, LockParent, UnlinkSibling, Reparent, CheckParent, SetStat, Link, fields,
     family
<1>7. CASE KillZombies
  BY <1>7 DEF KillZombies, PickZombie, UnlinkZombie, Kill
<1> QED  BY <1>1, <1>2, <1>3, <1>4, <1>5, <1>6, <1>7 DEF Service

\* An exiting thread never releases its parent's lock leaving the parent in
\* wait() with no child left to wake it (sched.c:51-73).
THEOREM ParentWoken == Spec => NoMissedWake
<1> DEFINE Woken == \A p \in Tasks :
             (lock[TaskLock(p)] \notin {p, NULL} /\ lock'[TaskLock(p)] = NULL)
               => ~(stat'[p] = "WAITING" /\ wait_for[p] = NULL /\ children'[p] = {})
<1>1. FInv /\ FInv' /\ [Next]_vars => [Woken]_vars
  <2> SUFFICES ASSUME FInv, FInv', Next, NEW p \in Tasks,
                      lock[TaskLock(p)] \notin {p, NULL}, lock'[TaskLock(p)] = NULL
               PROVE  ~(stat'[p] = "WAITING" /\ wait_for[p] = NULL /\ children'[p] = {})
    OBVIOUS
  <2>1. Service
    BY DEF Next, Tick, SchedTick, TickScan, TickUnlink, TickEnqueue, TickReturn, TickSwitch,
       Spin, vars
  <2>2. TaskLock(p) \in Locks
    BY LocksDiffer
  <2>3. PICK u \in Tasks : u = lock[TaskLock(p)]
    BY <2>2, FamilyTypes
  <2>4. Holds(u, TaskLock(p)) /\ u # p
    BY <2>2, <2>3 DEF FInv, LockDiscipline
  <2>5. pc[u] \in ParentPoints /\ arg[u] = p
    BY <2>4, LocksDiffer DEF Holds, ParentPoints
  <2>6. ~(pc'[u] \in ParentPoints /\ arg'[u] = p)
    <3> SUFFICES ASSUME pc'[u] \in ParentPoints, arg'[u] = p  PROVE FALSE
      OBVIOUS
    <3>1. Holds(u, TaskLock(p))'
      BY DEF Holds, ParentPoints
    <3>2. lock'[TaskLock(p)] = u
      BY <2>2, <3>1 DEF FInv, LockDiscipline
    <3> QED  BY <3>2, FamilyTypes
  <2>7. u \in live
    BY <2>5 DEF FInv, DeadIsDone, DonePoints, ParentPoints
  <2>8. u = current
    BY <2>1, <2>5, <2>6, <2>7, OthersStay
  <2>9. pc[current] = "exit_unlockp" /\ UNCHANGED <<stat, children>>
    BY <2>1, <2>5, <2>6, <2>8, HoldsParent
  <2> QED  BY <2>5, <2>8, <2>9 DEF FInv, WakeDone, MustWake
<1> QED  BY <1>1, FamilyInvariant, PTL DEF Spec, NoMissedWake
=============================================================================
