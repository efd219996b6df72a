--------------------------- MODULE SchedQueueProofs ---------------------------
(* No thread is forgotten: every live thread is on a list or in the hands   *)
(* of somebody who will put it on one, and the counters of the queues agree *)
(* with the lists.  The reaper frees only what is done and on no list, and   *)
(* every sleeper wakes on time.  All for every choice of the constants.     *)
EXTENDS SchedFamilyProofs, FiniteSetTheorems

\* The threads on the run queues.
Runnable == UNION {On(Run(p)) : p \in Prios}

-----------------------------------------------------------------------------
(* What each list operation does to the counters.                           *)

\* A list holds finitely many threads.
LEMMA OnFinite ==
    ASSUME QueuesType, NEW h \in Heads
    PROVE  IsFiniteSet(On(h))
<1>1. list[h] \in Seq(Tasks)
  BY DEF QueuesType
<1>2. Len(list[h]) \in Nat /\ DOMAIN list[h] = 1 .. Len(list[h])
  BY <1>1
<1>3. IsFiniteSet(1 .. Len(list[h]))
  BY <1>2, FS_Interval
<1>4. [i \in 1 .. Len(list[h]) |-> list[h][i]] \in Surjection(1 .. Len(list[h]), On(h))
  BY <1>2 DEF Surjection, On, ToSet
<1> QED  BY <1>3, <1>4, FS_Surjection

\* The run queues hold finitely many threads.
LEMMA RunnableFinite ==
    ASSUME QueuesType
    PROVE  IsFiniteSet(Runnable)
<1>1. \A p \in Prios : IsFiniteSet(On(Run(p)))
  BY OnFinite, HeadsDiffer
<1>2. IsFiniteSet(Prios)
  BY ListAssumption, FS_Interval DEF Prios
<1>3. IsFiniteSet({On(Run(p)) : p \in Prios})
  <2>1. [p \in Prios |-> On(Run(p))] \in Surjection(Prios, {On(Run(p)) : p \in Prios})
    BY DEF Surjection
  <2> QED  BY <1>2, <2>1, FS_Surjection
<1> QED  BY <1>1, <1>3, FS_UNION DEF Runnable

\* Steps that leave every list as long as it was.
LEMMA SameCounts ==
    ASSUME QueuesType, QueueCounts, n_tasks' = n_tasks,
           \A h \in Heads : On(h)' = On(h),
           \A q \in TaskQueues : Len(list'[q]) = Len(list[q])
    PROVE  QueueCounts'
<1>1. Runnable' = Runnable
  BY HeadsDiffer DEF Runnable
<1> QED  BY <1>1 DEF QueueCounts, Runnable

\* rr_enqueue counts a thread that was on no run queue.
LEMMA RrEnqueueCounts ==
    ASSUME QueuesType, QueuesType', QueueCounts, NEW t \in Tasks, NEW p \in Prios,
           t \notin Runnable, rr_enqueue(t, p),
           On(Run(p))' = On(Run(p)) \cup {t},
           \A h \in Heads \ {Run(p)} : list'[h] = list[h] /\ On(h)' = On(h)
    PROVE  QueueCounts'
<1>1. Runnable' = Runnable \cup {t}
  BY HeadsDiffer DEF Runnable
<1>2. Cardinality(Runnable \cup {t}) = Cardinality(Runnable) + 1
  BY RunnableFinite, FS_AddElement
<1>3. /\ n_tasks'[RR] = n_tasks[RR] + 1
      /\ \A q \in TaskQueues : n_tasks'[q] = n_tasks[q]
  BY DEF rr_enqueue, QueuesType, Queues, TaskQueues, RR, Sleep, Zombie, SemQ
<1>4. \A q \in TaskQueues : list'[q] = list[q]
  BY HeadsDiffer
<1> QED  BY <1>1, <1>2, <1>3, <1>4 DEF QueueCounts, Runnable

\* rr_dequeue counts a thread that was on a run queue, and on no other list.
LEMMA RrDequeueCounts ==
    ASSUME QueuesType, QueuesType', QueueCounts, NEW t \in Tasks, NEW p \in Prios,
           t \in Runnable, \A q \in TaskQueues : t \notin On(q),
           rr_dequeue(t, p),
           \A h \in Heads : On(h)' = On(h) \ {t}
    PROVE  QueueCounts'
<1>1. Runnable' = Runnable \ {t}
  BY HeadsDiffer DEF Runnable
<1>2. Cardinality(Runnable \ {t}) = Cardinality(Runnable) - 1
  BY RunnableFinite, FS_RemoveElement
<1>3. /\ n_tasks'[RR] = n_tasks[RR] - 1
      /\ \A q \in TaskQueues : n_tasks'[q] = n_tasks[q]
  BY DEF rr_dequeue, QueuesType, Queues, TaskQueues, RR, Sleep, Zombie, SemQ
<1>4. \A q \in TaskQueues : Len(list'[q]) = Len(list[q])
  BY HeadsDiffer, DropLength DEF rr_dequeue, list_del, QueuesType, On
<1> QED  BY <1>1, <1>2, <1>3, <1>4 DEF QueueCounts, Runnable

\* tq_enqueue counts what it appends.
LEMMA TqEnqueueCounts ==
    ASSUME QueuesType, QueueCounts, NEW t \in Tasks, NEW q \in TaskQueues, tq_enqueue(q, t),
           \A h \in Heads \ {q} : list'[h] = list[h] /\ On(h)' = On(h)
    PROVE  QueueCounts'
<1>1. Runnable' = Runnable
  BY HeadsDiffer DEF Runnable
<1>2. /\ n_tasks'[q] = n_tasks[q] + 1 /\ q \in Heads
      /\ \A g \in Queues \ {q} : n_tasks'[g] = n_tasks[g]
      /\ RR \in Queues /\ RR # q
  BY HeadsDiffer DEF tq_enqueue, QueuesType, Queues, TaskQueues, RR, Sleep, Zombie, SemQ
<1>3. Len(list'[q]) = Len(list[q]) + 1
  BY <1>2, AppendProperties DEF tq_enqueue, list_add_tail, QueuesType
<1> QED  BY <1>1, <1>2, <1>3, HeadsDiffer DEF QueueCounts, Runnable

\* tq_dequeue counts a thread that was on that queue, and on no other list.
LEMMA TqDequeueCounts ==
    ASSUME QueuesType, QueueCounts, NEW t \in Tasks, NEW q \in TaskQueues, tq_dequeue(q, t),
           t \in On(q), \A h \in Heads \ {q} : t \notin On(h),
           \A h \in Heads : On(h)' = On(h) \ {t}
    PROVE  QueueCounts'
<1>1. Runnable' = Runnable
  BY HeadsDiffer DEF Runnable
<1>2. /\ n_tasks'[q] = n_tasks[q] - 1 /\ q \in Heads
      /\ \A g \in Queues \ {q} : n_tasks'[g] = n_tasks[g]
      /\ RR \in Queues /\ RR # q
  BY HeadsDiffer DEF tq_dequeue, QueuesType, Queues, TaskQueues, RR, Sleep, Zombie, SemQ
<1>3. \A g \in TaskQueues : Len(list'[g]) = IF g = q THEN Len(list[g]) - 1 ELSE Len(list[g])
  BY <1>2, HeadsDiffer, DropLength DEF tq_dequeue, list_del, QueuesType, On
<1> QED  BY <1>1, <1>2, <1>3, HeadsDiffer DEF QueueCounts, Runnable

-----------------------------------------------------------------------------
(* No thread is forgotten.                                                  *)

\* The exiting thread has found its parent waiting.
WokenPoints == {"exit_wake", "exit_enqueue"}

\* Whoever has a thread in its hands, by the statement it is at.
Keeper(u, t) ==
    /\ arg[u] = t
    /\ \/ pc[u] \in ForkPoints
       \/ pc[u] \in WokenPoints /\ stat[t] = "READY"
       \/ pc[u] \in TakenPoints /\ stat[t] = "ZOMBIE"

Accounted(t) ==
    \/ Linked(t)
    \/ pc[t] \in Unlinked
    \/ pc[t] \in {"wait_sched", "run"} /\ stat[t] = "WAITING"
    \/ irq = "enqueue" /\ cursor = t
    \/ \E u \in live : Keeper(u, t)

\* AccountedFor, thread by thread.
LEMMA AccountedEach == AccountedFor <=> \A t \in live : Accounted(t)
BY DEF AccountedFor, Accounted, Keeper, ForkPoints, WokenPoints, TakenPoints

\* A step of the running thread keeps every other thread accounted for if it
\* takes no other thread off its list and lets go only of what it has linked.
LEMMA CarryOthers ==
    ASSUME FInv, AccountedFor, irq = "none", NEW t \in live, t # current,
           \A u \in live \ live' : pc[u] \in DonePoints,
           \A u \in live \ {current} : pc'[u] = pc[u] /\ arg'[u] = arg[u],
           stat'[t] = stat[t],
           Linked(t) => Linked(t)',
           pc[current] \in ForkPoints \cup WokenPoints \cup TakenPoints /\ arg[current] = t =>
             \/ Linked(t)'
             \/ /\ arg'[current] = t
                /\ pc[current] \in ForkPoints => pc'[current] \in ForkPoints
                /\ pc[current] \in WokenPoints => pc'[current] \in WokenPoints
                /\ pc[current] \in TakenPoints => pc'[current] \in TakenPoints
    PROVE  Accounted(t)'
<1>1. Accounted(t) /\ pc'[t] = pc[t] /\ current \in live
  BY AccountedEach, FamilyTypes
<1>2. CASE Linked(t) \/ pc[t] \in Unlinked \/ (pc[t] \in {"wait_sched", "run"} /\ stat[t] = "WAITING")
  BY <1>1, <1>2 DEF Accounted
<1>3. CASE \E u \in live : Keeper(u, t)
  <2>1. PICK u \in live : Keeper(u, t)
    BY <1>3
  <2>4. u \in live'
    BY <2>1 DEF Keeper, ForkPoints, WokenPoints, TakenPoints, DonePoints
  <2>2. CASE u # current
    BY <2>1, <2>2, <2>4 DEF Accounted, Keeper
  <2>3. CASE u = current
    <3>1. Linked(t)' \/ (Keeper(u, t)' /\ u \in live')
      BY <2>1, <2>3, <2>4 DEF Keeper
    <3> QED  BY <2>3, <3>1, <1>1 DEF Accounted
  <2> QED  BY <2>2, <2>3
<1> QED  BY <1>1, <1>2, <1>3 DEF Accounted

\* The running thread stays accounted for if it leaves its list only for a
\* window, and a window only for a list or for wait().
LEMMA CarrySelf ==
    ASSUME FInv, AccountedFor, irq = "none", NEW t \in live, t = current,
           \A u \in live \ live' : pc[u] \in DonePoints,
           \A u \in live \ {current} : pc'[u] = pc[u] /\ arg'[u] = arg[u],
           Linked(t) => Linked(t)' \/ pc'[t] \in Unlinked,
           pc[t] \in Unlinked =>
             \/ Linked(t)' \/ pc'[t] \in Unlinked
             \/ pc'[t] = "wait_sched" /\ stat'[t] = "WAITING",
           pc[t] = "wait_sched" => pc'[t] = "run" /\ stat'[t] = stat[t],
           pc[t] \in DonePoints => stat'[t] = stat[t]
    PROVE  Accounted(t)'
<1>1. Accounted(t) /\ pc[t] = "run" => stat[t] = "READY"
  BY AccountedEach, FamilyTypes DEF FInv, IInv, GInv, Running
<1>2. CASE Linked(t) \/ pc[t] \in Unlinked \/ (pc[t] \in {"wait_sched", "run"} /\ stat[t] = "WAITING")
  BY <1>1, <1>2 DEF Accounted
<1>3. CASE \E u \in live : Keeper(u, t)
  <2>1. PICK u \in live : Keeper(u, t)
    BY <1>3
  <2>2. ~InHand(u, t)
    BY <2>1, FamilyTypes, SchedHands DEF FInv, IInv, GInv
  <2>3. pc[u] \in TakenPoints /\ stat[t] = "ZOMBIE" /\ pc[t] \in DonePoints
    BY <2>1, <2>2, FamilyTypes DEF Keeper, InHand, WakePoints, WokenPoints, Family, DeadIsDone
  <2>4. u # current /\ u \in live'
    BY <2>3 DEF TakenPoints, DonePoints
  <2> QED  BY <2>1, <2>3, <2>4 DEF Accounted, Keeper
<1> QED  BY <1>1, <1>2, <1>3, AccountedEach DEF Accounted

-----------------------------------------------------------------------------
(* What each step that touches a list does to who is linked and to the      *)
(* counters.                                                                *)

Counted == FInv /\ AccountedFor /\ QueueCounts

SelfDequeues == {<<"sleep_dequeue", "sleep_mark">>, <<"wait_dequeue", "wait_mark">>,
                 <<"prio_dequeue", "prio_set">>, <<"exit_dequeue", "exit_lockp">>}
SchedEnqueues == {<<"fork_enqueue", "fork_sched">>, <<"exit_enqueue", "exit_unlock">>}

\* Steps that touch no list.
LEMMA StillLists ==
    ASSUME Counted, UNCHANGED queues
    PROVE  (\A t : Linked(t)' <=> Linked(t)) /\ QueueCounts'
BY DEF Counted, queues, QueueCounts, Linked, On

\* schedule() moves the picked thread to the tail of the queue it is on.
LEMMA RotateLists ==
    ASSUME Counted, rr_pick_next, UNCHANGED <<live, stat, prio>>
    PROVE  (\A t : Linked(t)' <=> Linked(t)) /\ QueueCounts'
<1>1. /\ QueuesType /\ PickPrio \in Prios
      /\ \A h \in Heads : On(h)' = On(h)
  BY ListFacts, Constants, PickFinds, PickedIsReady DEF Counted, FInv, IInv, GInv
<1>2. n_tasks' = n_tasks /\ \A q \in TaskQueues : list'[q] = list[q]
  BY <1>1, HeadsDiffer DEF rr_pick_next, QueuesType
<1>3. QueueCounts'
  BY <1>1, <1>2, SameCounts DEF Counted
<1> QED  BY <1>1, <1>3 DEF Linked

\* The running thread at one of these statements is on a run queue: it is
\* ready, in no window, and in nobody's hands.
LEMMA RunningIsLinked ==
    ASSUME Counted, irq = "none",
           pc[current] \in {"sleep_dequeue", "wait_dequeue", "prio_dequeue", "exit_dequeue"}
    PROVE  current \in Runnable /\ \A q \in TaskQueues : current \notin On(q)
<1>1. stat[current] = "READY" /\ pc[current] \notin Unlinked \cup DeadPoints
  BY FamilyTypes DEF Counted, FInv, IInv, GInv, StatPoints, Stats, StatFits, SleepPoints,
     DeadPoints, Unlinked
<1>2. Accounted(current) /\ ~\E u \in live : Keeper(u, current)
  <2>1. \A u \in Tasks : ~InHand(u, current)
    BY FamilyTypes, SchedHands DEF Counted, FInv, IInv, GInv
  <2> QED  BY <1>1, <2>1, FamilyTypes, AccountedEach DEF Counted, Keeper, InHand, WakePoints,
              WokenPoints
<1>3. Linked(current)
  BY <1>1, <1>2 DEF Accounted
<1>4. \A q \in TaskQueues : current \notin On(q)
  BY <1>1, HeadsDiffer DEF Counted, FInv, IInv, GInv, ListsExact, SemsUnused, TaskQueues
<1> QED  BY <1>3, <1>4 DEF Linked, Heads, Runnable

\* A dequeue takes the running thread off its list, and counts it off.
LEMMA DequeueLists ==
    ASSUME Counted, NEW from, NEW to, <<from, to>> \in SelfDequeues, Dequeue(from, to)
    PROVE  (\A t : Linked(t)' <=> Linked(t) /\ t # current) /\ QueueCounts'
<1>1. irq = "none" /\ pc[current] \in {"sleep_dequeue", "wait_dequeue", "prio_dequeue", "exit_dequeue"}
      /\ rr_dequeue(current, prio[current])
  BY DEF Dequeue, At, SelfDequeues
<1>2. current \in Runnable /\ (\A q \in TaskQueues : current \notin On(q))
  BY <1>1, RunningIsLinked
<1>3. QueuesType /\ NoRepeats /\ BitmapsExact /\ current \in Tasks /\ prio[current] \in Prios
  BY ListFacts, FamilyTypes DEF Counted, FInv, IInv, TypeOK
<1>4. \A q \in Prios \ {prio[current]} : current \notin On(Run(q))
  <2>1. ASSUME NEW q \in Prios, current \in On(Run(q))
        PROVE  Run(q) = Run(prio[current])
    <3>1. Run(q) \in Heads /\ ListsExact
      BY HeadsDiffer DEF Counted, FInv, IInv, GInv
    <3> QED  BY <2>1, <3>1 DEF ListsExact
  <2> QED  BY <1>3, <2>1, HeadsDiffer
<1>5. QueuesType' /\ \A h \in Heads : On(h)' = On(h) \ {current}
  BY <1>1, <1>3, <1>4, RrDequeue
<1>6. QueueCounts'
  BY <1>1, <1>2, <1>3, <1>5, RrDequeueCounts DEF Counted
<1> QED  BY <1>5, <1>6 DEF Linked

\* Some thread in nobody's list goes to the run queue of its priority.
LEMMA EnqueueLists ==
    ASSUME Counted, NEW c \in Tasks, ~Linked(c), rr_enqueue(c, prio[c])
    PROVE  (\A t : Linked(t)' <=> Linked(t) \/ t = c) /\ QueueCounts'
<1>1. QueuesType /\ NoRepeats /\ BitmapsExact
  BY ListFacts DEF Counted, FInv, IInv, GInv
<1>2. PICK p \in Prios : p = prio[c]
  BY DEF Counted, FInv, IInv, TypeOK
<1>3. c \notin Runnable /\ c \notin On(Run(p))
  BY HeadsDiffer DEF Linked, Runnable
<1>4. /\ QueuesType' /\ On(Run(p))' = On(Run(p)) \cup {c} /\ Run(p) \in Heads
      /\ \A h \in Heads \ {Run(p)} : list'[h] = list[h] /\ On(h)' = On(h)
  BY <1>1, <1>2, <1>3, RrEnqueue, HeadsDiffer
<1>5. QueueCounts'
  BY <1>1, <1>2, <1>3, <1>4, RrEnqueueCounts DEF Counted
<1> QED  BY <1>4, <1>5 DEF Linked

\* A link puts the running thread on a list, and counts it.
LEMMA LinkLists ==
    ASSUME Counted, NEW q \in TaskQueues, ~Linked(current), tq_enqueue(q, current)
    PROVE  (\A t : Linked(t)' <=> Linked(t) \/ t = current) /\ QueueCounts'
<1>1. QueuesType /\ NoRepeats /\ BitmapsExact /\ current \in Tasks
  BY ListFacts, FamilyTypes DEF Counted, FInv, IInv, GInv
<1>2. current \notin On(q) /\ q \in Heads
  BY HeadsDiffer DEF Linked
<1>3. /\ On(q)' = On(q) \cup {current}
      /\ \A h \in Heads \ {q} : list'[h] = list[h] /\ On(h)' = On(h)
  BY <1>1, <1>2, TqEnqueue
<1>4. QueueCounts'
  BY <1>1, <1>3, TqEnqueueCounts DEF Counted
<1> QED  BY <1>2, <1>3, <1>4 DEF Linked

\* The reaper and the interrupt take a thread off the queue they found it on.
LEMMA UnlinkLists ==
    ASSUME Counted, NEW q \in TaskQueues, NEW c \in On(q), tq_dequeue(q, c)
    PROVE  (\A t : Linked(t)' <=> Linked(t) /\ t # c) /\ QueueCounts'
<1>1. QueuesType /\ NoRepeats /\ BitmapsExact
  BY ListFacts DEF Counted, FInv, IInv, GInv
<1>2. c \in Tasks /\ q \in Heads /\ \A h \in Heads \ {q} : c \notin On(h)
  BY FamilyTypes, HeadsDiffer DEF Counted, FInv, IInv, GInv, ListsExact
<1>3. \A h \in Heads : On(h)' = On(h) \ {c}
  <2>1. \A p \in Prios : c \notin On(Run(p))
    BY <1>2, HeadsDiffer
  <2> QED  BY <1>1, <1>2, <2>1, TqDequeue
<1>4. QueueCounts'
  BY <1>1, <1>2, <1>3, TqDequeueCounts DEF Counted
<1> QED  BY <1>3, <1>4 DEF Linked

-----------------------------------------------------------------------------
(* The services.                                                            *)

\* What CarryOthers and CarrySelf ask of a step that creates and frees nobody.
LEMMA CarryAll ==
    ASSUME Counted, irq = "none", live' = live,
           \A u \in live \ {current} : pc'[u] = pc[u] /\ arg'[u] = arg[u] /\ stat'[u] = stat[u],
           \A t \in live \ {current} : Linked(t) => Linked(t)',
           NEW a, a = arg[current],
           pc[current] \in ForkPoints \cup WokenPoints \cup TakenPoints =>
             \/ Linked(a)'
             \/ /\ arg'[current] = arg[current]
                /\ pc[current] \in ForkPoints => pc'[current] \in ForkPoints
                /\ pc[current] \in WokenPoints => pc'[current] \in WokenPoints
                /\ pc[current] \in TakenPoints => pc'[current] \in TakenPoints,
           NEW c, c = current, Linked(c) => Linked(c)' \/ pc'[c] \in Unlinked,
           pc[c] \in Unlinked =>
             \/ Linked(c)' \/ pc'[c] \in Unlinked
             \/ pc'[c] = "wait_sched" /\ stat'[c] = "WAITING",
           pc[c] = "wait_sched" => pc'[c] = "run" /\ stat'[c] = stat[c],
           pc[c] \in DonePoints => stat'[c] = stat[c]
    PROVE  AccountedFor'
<1>1. ASSUME NEW t \in live, t # current  PROVE Accounted(t)'
  BY <1>1, CarryOthers DEF Counted
<1>2. ASSUME NEW t \in live, t = current  PROVE Accounted(t)'
  <2>1. t = c /\ FInv /\ AccountedFor
    BY <1>2 DEF Counted
  <2> QED  BY <1>2, <2>1, CarrySelf
<1> QED  BY <1>1, <1>2, AccountedEach DEF AccountedFor, Accounted, Keeper, ForkPoints,
            WokenPoints, TakenPoints

\* A move between two statements that lets go of nothing.
Carries(from, to) ==
    /\ from \in Unlinked => to \in Unlinked
    /\ from # "wait_sched"
    /\ from \in ForkPoints => to \in ForkPoints
    /\ from \in WokenPoints => to \in WokenPoints
    /\ from \in TakenPoints => to \in TakenPoints

\* The moves between program points that concern no list.
LEMMA CarryMoves ==
    /\ Carries("fork_lock", "fork_adopt") /\ Carries("fork_adopt", "fork_rr")
    /\ Carries("fork_rr", "fork_enqueue") /\ Carries("fork_ret", "run")
    /\ Carries("run", "sleep_rr") /\ Carries("sleep_rr", "sleep_dequeue")
    /\ Carries("sleep_mark", "sleep_tq") /\ Carries("sleep_tq", "sleep_add")
    /\ Carries("sleep_half", "sleep_unlock") /\ Carries("sleep_unlock", "sleep_sched")
    /\ Carries("run", "wait_rr") /\ Carries("wait_rr", "wait_dequeue")
    /\ Carries("run", "yield_sched")
    /\ Carries("run", "prio_lock") /\ Carries("prio_lock", "prio_rr") /\ Carries("prio_lock", "prio_set")
    /\ Carries("prio_rr", "prio_dequeue") /\ Carries("prio_set", "prio_rr2")
    /\ Carries("prio_rr2", "prio_enqueue") /\ Carries("prio_unlock", "prio_sched")
    /\ Carries("run", "exit_rr") /\ Carries("exit_rr", "exit_dequeue")
    /\ Carries("exit_lockp", "exit_unlink") /\ Carries("exit_unlink", "exit_lock")
    /\ Carries("exit_lock", "exit_reparent") /\ Carries("exit_reparent", "exit_check")
    /\ Carries("exit_check", "exit_unlock") /\ Carries("exit_wake", "exit_enqueue")
    /\ Carries("exit_unlock", "exit_unlockp") /\ Carries("exit_unlockp", "exit_mark")
    /\ Carries("exit_mark", "exit_tq") /\ Carries("exit_tq", "exit_link")
    /\ Carries("exit_tqunlock", "exit_sched")
    /\ Carries("reap_tq", "reap_pick") /\ Carries("reap_pick", "reap_sched")
    /\ Carries("reap_pick", "reap_tq2") /\ Carries("reap_tq2", "reap_unlink")
    /\ Carries("reap_unlock", "reap_kill")
BY DEF Carries, Unlinked, ForkPoints, WokenPoints, TakenPoints

\* Such a move, with no list touched.
LEMMA StillCarry ==
    ASSUME Counted, irq = "none", NEW from, NEW to, pc[current] = from, Carries(from, to), Goto(to),
           UNCHANGED <<queues, live>>,
           \A u \in Tasks \ {current} : arg'[u] = arg[u] /\ stat'[u] = stat[u],
           from \in ForkPoints \cup WokenPoints \cup TakenPoints => arg'[current] = arg[current],
           from \in DonePoints => stat'[current] = stat[current]
    PROVE  AccountedFor' /\ QueueCounts'
<1>1. (\A t : Linked(t)' <=> Linked(t)) /\ QueueCounts'
  BY StillLists
<1>2. /\ live \subseteq Tasks /\ current \in live /\ live' = live
      /\ pc'[current] = to /\ \A u \in live \ {current} : pc'[u] = pc[u]
  BY FamilyTypes DEF Counted, Goto
<1>3. AccountedFor'
  <2>1. PICK c \in live : c = current
    BY <1>2
  <2>2. PICK a : a = arg[current]
    OBVIOUS
  <2> QED  BY <1>1, <1>2, <2>1, <2>2, CarryAll DEF Carries
<1> QED  BY <1>1, <1>3

\* Taking a lock.
LEMMA AcquireCarry ==
    ASSUME Counted, NEW l, NEW from, NEW to, Acquire(l, from, to), Carries(from, to)
    PROVE  AccountedFor' /\ QueueCounts'
BY StillCarry DEF Acquire, At, family, fields

\* Releasing a lock.
LEMMA UnlockCarry ==
    ASSUME Counted, NEW l, NEW from, NEW to, Unlock(l, from, to), Carries(from, to)
    PROVE  AccountedFor' /\ QueueCounts'
BY StillCarry DEF Unlock, At, family, fields

\* Entering a function.
LEMMA CallCarry ==
    ASSUME Counted, NEW name, NEW to, Call(name, to), Carries("run", to)
    PROVE  AccountedFor' /\ QueueCounts'
BY StillCarry DEF Call, At, family, fields

\* Giving up the processor.
LEMMA ScheduleCarry ==
    ASSUME Counted, NEW from, NEW to, <<from, to>> \in ScheduleMoves, Schedule(from, to)
    PROVE  AccountedFor' /\ QueueCounts'
<1>1. /\ irq = "none" /\ pc[current] = from /\ pc' = [pc EXCEPT ![current] = to]
      /\ arg' = [arg EXCEPT ![current] = IF to = "fork_ret" THEN @ ELSE NULL] /\ rr_pick_next
      /\ UNCHANGED <<live, stat, prio>>
  BY DEF Schedule, At, Goto, family, fields
<1>2. (\A t : Linked(t)' <=> Linked(t)) /\ QueueCounts'
  BY <1>1, RotateLists
<1>3. /\ live \subseteq Tasks /\ current \in live /\ live' = live
      /\ pc'[current] = to /\ \A u \in live \ {current} : pc'[u] = pc[u] /\ arg'[u] = arg[u]
  BY <1>1, FamilyTypes DEF Counted
<1>4. /\ from \notin Unlinked \cup ForkPoints \cup WokenPoints \cup TakenPoints
      /\ from = "wait_sched" => to = "run"
  BY DEF ScheduleMoves, Unlinked, ForkPoints, WokenPoints, TakenPoints
<1>5. AccountedFor'
  <2>1. PICK c \in live : c = current
    BY <1>3
  <2>2. PICK a : a = arg[current]
    OBVIOUS
  <2> QED  BY <1>1, <1>2, <1>3, <1>4, <2>1, <2>2, CarryAll
<1> QED  BY <1>2, <1>5

\* Leaving the run queue.
LEMMA DequeueCarry ==
    ASSUME Counted, NEW from, NEW to, <<from, to>> \in SelfDequeues, Dequeue(from, to)
    PROVE  AccountedFor' /\ QueueCounts'
<1>1. (\A t : Linked(t)' <=> Linked(t) /\ t # current) /\ QueueCounts'
  BY DequeueLists
<1>2. /\ irq = "none" /\ pc[current] = from /\ pc' = [pc EXCEPT ![current] = to]
      /\ UNCHANGED <<live, stat, arg>>
  BY DEF Dequeue, At, Goto, family, fields
<1>3. /\ live \subseteq Tasks /\ current \in live /\ live' = live
      /\ pc'[current] = to /\ \A u \in live \ {current} : pc'[u] = pc[u] /\ arg'[u] = arg[u]
  BY <1>2, FamilyTypes DEF Counted
<1>4. /\ from \notin ForkPoints \cup WokenPoints \cup TakenPoints
      /\ to \in Unlinked /\ from # "wait_sched"
  BY DEF SelfDequeues, Unlinked, ForkPoints, WokenPoints, TakenPoints
<1>5. AccountedFor'
  <2>1. PICK c \in live : c = current
    BY <1>3
  <2>2. PICK a : a = arg[current]
    OBVIOUS
  <2> QED  BY <1>1, <1>2, <1>3, <1>4, <2>1, <2>2, CarryAll
<1> QED  BY <1>1, <1>5

\* rr_enqueue of the new child, of the woken parent, or of the thread itself.
LEMMA EnqueueCarry ==
    ASSUME Counted, NEW c \in Tasks, NEW from, NEW to, Enqueue(c, from, to),
           \/ <<from, to>> \in SchedEnqueues /\ c = arg[current]
           \/ <<from, to>> = <<"prio_enqueue", "prio_unlock">> /\ c = current
    PROVE  AccountedFor' /\ QueueCounts'
<1>1. /\ irq = "none" /\ pc[current] = from /\ pc' = [pc EXCEPT ![current] = to]
      /\ rr_enqueue(c, prio[c]) /\ UNCHANGED <<live, stat, arg>>
  BY DEF Enqueue, At, Goto, family, fields
<1>2. /\ live \subseteq Tasks /\ current \in live /\ current \in Tasks /\ live' = live
      /\ pc'[current] = to /\ \A u \in live \ {current} : pc'[u] = pc[u] /\ arg'[u] = arg[u]
  BY <1>1, FamilyTypes DEF Counted
<1>3. /\ from \in Unlinked => to \in Unlinked \/ c = current
      /\ from # "wait_sched" /\ from \notin TakenPoints \cup DonePoints
      /\ from \in ForkPoints \cup WokenPoints <=> <<from, to>> \in SchedEnqueues
  BY DEF SchedEnqueues, Unlinked, TakenPoints, DonePoints, ForkPoints, WokenPoints
<1>4. ~Linked(c)
  <2>1. CASE c = current /\ from = "prio_enqueue"
    BY <1>1, <1>2, <2>1 DEF Counted, FInv, IInv, GInv, WindowsUnlinked, Windows, Unlinked
  <2>2. CASE c = arg[current] /\ <<from, to>> \in SchedEnqueues
    BY <1>1, <1>2, <1>3, <2>2, SchedHands DEF Counted, FInv, IInv, GInv, InHand, WakePoints,
       WokenPoints
  <2> QED  BY <2>1, <2>2
<1>5. (\A t : Linked(t)' <=> Linked(t) \/ t = c) /\ QueueCounts'
  BY <1>1, <1>4, EnqueueLists
<1>6. AccountedFor'
  <2>1. PICK d \in live : d = current
    BY <1>2
  <2>2. PICK a : a = arg[current]
    OBVIOUS
  <2>3. from \in ForkPoints \cup WokenPoints \cup TakenPoints => a = c
    BY <1>3, <2>2 DEF ForkPoints, WokenPoints, SchedEnqueues
  <2> QED  BY <1>1, <1>2, <1>3, <1>5, <2>1, <2>2, <2>3, CarryAll
<1> QED  BY <1>5, <1>6

\* Joining the sleepers or the zombies.
LEMMA LinkCarry ==
    ASSUME Counted, NEW q, NEW from, NEW to,
           <<q, from, to>> \in {<<Sleep, "sleep_add", "sleep_half">>,
                              <<Zombie, "exit_link", "exit_tqunlock">>},
           Link(q, from, to)
    PROVE  AccountedFor' /\ QueueCounts'
<1>1. /\ irq = "none" /\ pc[current] = from /\ pc' = [pc EXCEPT ![current] = to]
      /\ tq_enqueue(q, current) /\ UNCHANGED <<live, stat, arg>>
  BY DEF Link, At, Goto, family, fields
<1>2. /\ live \subseteq Tasks /\ current \in live /\ live' = live
      /\ pc'[current] = to /\ \A u \in live \ {current} : pc'[u] = pc[u] /\ arg'[u] = arg[u]
  BY <1>1, FamilyTypes DEF Counted
<1>3. /\ from \in Unlinked /\ from # "wait_sched" /\ q \in TaskQueues
      /\ from \notin ForkPoints \cup WokenPoints \cup TakenPoints
  BY HeadsDiffer DEF Unlinked, ForkPoints, WokenPoints, TakenPoints
<1>4. ~Linked(current)
  BY <1>1, <1>2, <1>3 DEF Counted, FInv, IInv, GInv, WindowsUnlinked, Windows
<1>5. (\A t : Linked(t)' <=> Linked(t) \/ t = current) /\ QueueCounts'
  BY <1>1, <1>3, <1>4, LinkLists
<1>6. AccountedFor'
  <2>1. PICK c \in live : c = current
    BY <1>2
  <2>2. PICK a : a = arg[current]
    OBVIOUS
  <2> QED  BY <1>1, <1>2, <1>3, <1>5, <2>1, <2>2, CarryAll
<1> QED  BY <1>5, <1>6

\* Looking at the parent in do_exit.
LEMMA CheckParentCarry ==
    ASSUME Counted, CheckParent  PROVE AccountedFor' /\ QueueCounts'
<1> DEFINE p == arg[current]
<1>1. irq = "none" /\ pc[current] = "exit_check" /\ UNCHANGED <<queues, live, arg>>
  BY DEF CheckParent, At, family
<1>2. CASE ~MustWake(p)
  <2>1. Goto("exit_unlock") /\ UNCHANGED stat
    BY <1>2 DEF CheckParent
  <2> QED  BY <1>1, <2>1, CarryMoves, StillCarry
<1>3. CASE MustWake(p)
  <2>1. pc' = [pc EXCEPT ![current] = "exit_wake"] /\ stat' = [stat EXCEPT ![p] = "READY"]
    BY <1>3 DEF CheckParent, Goto
  <2>2. (\A t : Linked(t)' <=> Linked(t)) /\ QueueCounts'
    BY <1>1, StillLists
  <2>3. /\ live \subseteq Tasks /\ current \in live /\ stat \in [Tasks -> Stats]
        /\ pc'[current] = "exit_wake" /\ \A u \in live \ {current} : pc'[u] = pc[u]
    BY <2>1, FamilyTypes DEF Counted
  <2>4. p \in live /\ p # current
    BY <1>1, <2>3, FamilyTypes DEF Counted, FInv, ParentHeld, ParentPoints
  <2>5. ASSUME NEW t \in live, t = p  PROVE Accounted(t)'
    BY <1>1, <2>1, <2>3, <2>4, <2>5 DEF Accounted, Keeper, WokenPoints
  <2>6. ASSUME NEW t \in live \ {p, current}  PROVE Accounted(t)'
    <3>1. stat'[t] = stat[t] /\ pc[current] \notin ForkPoints \cup WokenPoints \cup TakenPoints
      BY <1>1, <2>1 DEF ForkPoints, WokenPoints, TakenPoints
    <3> QED  BY <1>1, <2>2, <2>3, <3>1, CarryOthers DEF Counted
  <2>7. ASSUME NEW t \in live, t = current  PROVE Accounted(t)'
    BY <2>3, <2>7, <1>1 DEF Accounted, Unlinked
  <2> QED  BY <1>1, <2>2, <2>5, <2>6, <2>7, AccountedEach DEF AccountedFor, Accounted, Keeper,
              ForkPoints, WokenPoints, TakenPoints
<1> QED  BY <1>2, <1>3

\* Making a thread.
LEMMA CreateCarry ==
    ASSUME Counted, NEW c \in Tasks, NEW p, NEW from, Create(c, p, from), from \in {"boot", "run"}
    PROVE  AccountedFor' /\ QueueCounts'
<1>1. /\ irq = "none" /\ pc[current] = from /\ c \notin live /\ live' = live \cup {c}
      /\ arg' = [arg EXCEPT ![current] = c]
      /\ stat' = [stat EXCEPT ![c] = "READY"] /\ UNCHANGED queues
  BY DEF Create, At
<1>2. /\ live \subseteq Tasks /\ current \in live /\ current # c
      /\ pc'[current] = "fork_lock" /\ arg'[current] = c
      /\ \A u \in live \ {current} : pc'[u] = pc[u] /\ arg'[u] = arg[u]
      /\ \A u \in live : stat'[u] = stat[u]
  BY <1>1, FamilyTypes DEF Counted, Create
<1>3. (\A t : Linked(t)' <=> Linked(t)) /\ QueueCounts'
  BY <1>1, StillLists
<1>4. pc[current] \notin ForkPoints \cup WokenPoints \cup TakenPoints \cup Unlinked \cup {"wait_sched"}
  BY <1>1 DEF ForkPoints, WokenPoints, TakenPoints, Unlinked
<1>5. ASSUME NEW t \in live, t # current  PROVE Accounted(t)'
  BY <1>1, <1>2, <1>3, <1>4, <1>5, CarryOthers DEF Counted
<1>6. ASSUME NEW t \in live, t = current  PROVE Accounted(t)'
  BY <1>1, <1>2, <1>3, <1>4, <1>6, CarrySelf DEF Counted
<1>7. Accounted(c)'
  BY <1>1, <1>2 DEF Accounted, Keeper, ForkPoints
<1> QED  BY <1>1, <1>3, <1>5, <1>6, <1>7, AccountedEach DEF AccountedFor, Accounted, Keeper,
            ForkPoints, WokenPoints, TakenPoints

\* The reaper has the thread it takes off the queue in its hands.
LEMMA UnlinkZombieCarry ==
    ASSUME Counted, UnlinkZombie  PROVE AccountedFor' /\ QueueCounts'
<1>1. /\ irq = "none" /\ pc[current] = "reap_unlink"
      /\ pc' = [pc EXCEPT ![current] = "reap_unlock"]
      /\ tq_dequeue(Zombie, arg[current]) /\ UNCHANGED <<arg, live, stat>>
  BY DEF UnlinkZombie, At, Goto, family, fields
<1>2. /\ live \subseteq Tasks /\ current \in live
      /\ pc'[current] = "reap_unlock" /\ \A u \in live \ {current} : pc'[u] = pc[u]
  BY <1>1, FamilyTypes DEF Counted
<1>3. arg[current] \in On(Zombie)
  BY <1>1, <1>2 DEF Counted, FInv, IInv, GInv, ReaperFits
<1>4. PICK z \in On(Zombie) : z = arg[current]
  BY <1>3
<1>5. (\A t : Linked(t)' <=> Linked(t) /\ t # z) /\ QueueCounts' /\ stat[z] = "ZOMBIE"
  BY <1>1, <1>4, UnlinkLists, HeadsDiffer DEF Counted, FInv, IInv, GInv, ListsExact
<1>6. ASSUME NEW t \in live, t = z  PROVE Accounted(t)'
  BY <1>1, <1>2, <1>4, <1>5, <1>6 DEF Accounted, Keeper, TakenPoints
<1>7. pc[current] \notin ForkPoints \cup WokenPoints \cup TakenPoints \cup Unlinked \cup {"wait_sched"}
  BY <1>1 DEF ForkPoints, WokenPoints, TakenPoints, Unlinked
<1>8. ASSUME NEW t \in live, t # z, t # current  PROVE Accounted(t)'
  BY <1>1, <1>2, <1>5, <1>7, <1>8, CarryOthers DEF Counted
<1>9. ASSUME NEW t \in live, t # z, t = current  PROVE Accounted(t)'
  BY <1>1, <1>2, <1>5, <1>7, <1>9, CarrySelf DEF Counted
<1> QED  BY <1>1, <1>5, <1>6, <1>8, <1>9, AccountedEach DEF AccountedFor, Accounted, Keeper,
            ForkPoints, WokenPoints, TakenPoints

\* Freeing a zombie.
LEMMA KillCarry ==
    ASSUME Counted, Kill  PROVE AccountedFor' /\ QueueCounts'
<1>1. /\ irq = "none" /\ pc[current] = "reap_kill" /\ live' = live \ {arg[current]}
      /\ arg' = [arg EXCEPT ![current] = NULL]
      /\ pc' = [pc EXCEPT ![current] = "reap_tq"] /\ UNCHANGED <<queues, stat>>
  BY DEF Kill, At, Goto, fields
<1>2. /\ live \subseteq Tasks /\ current \in live
      /\ pc'[current] = "reap_tq" /\ \A u \in live \ {current} : pc'[u] = pc[u] /\ arg'[u] = arg[u]
  BY <1>1, FamilyTypes DEF Counted
<1>3. (\A t : Linked(t)' <=> Linked(t)) /\ QueueCounts'
  BY <1>1, StillLists
<1>4. pc[arg[current]] \in DonePoints
  BY <1>1, <1>2 DEF Counted, FInv, DeadIsDone, TakenPoints
<1>5. pc[current] \notin ForkPoints \cup WokenPoints \cup Unlinked \cup {"wait_sched"}
  BY <1>1 DEF ForkPoints, WokenPoints, Unlinked
<1>6. ASSUME NEW t \in live', t # current  PROVE Accounted(t)'
  <2>1. t \in live /\ t # arg[current] /\ \A u \in live \ live' : pc[u] \in DonePoints
    BY <1>1, <1>4, <1>6
  <2> QED  BY <1>1, <1>2, <1>3, <1>5, <1>6, <2>1, CarryOthers DEF Counted
<1>7. ASSUME NEW t \in live', t = current  PROVE Accounted(t)'
  <2>1. t \in live /\ \A u \in live \ live' : pc[u] \in DonePoints
    BY <1>1, <1>4, <1>7
  <2> QED  BY <1>1, <1>2, <1>3, <1>5, <1>7, <2>1, CarrySelf DEF Counted
<1> QED  BY <1>3, <1>6, <1>7, AccountedEach DEF AccountedFor, Accounted, Keeper, ForkPoints,
            WokenPoints, TakenPoints

\* The interrupt: a thread taken off the sleep list is its cursor until it is
\* on its run queue.
LEMMA TickCarry ==
    ASSUME Counted, Tick \/ SchedTick \/ UNCHANGED vars
    PROVE  AccountedFor' /\ QueueCounts'
<1>1. /\ UNCHANGED <<pc, arg, live>> /\ AccountedFor
      /\ \A t \in live : Accounted(t)
  BY AccountedEach DEF Counted, Tick, SchedTick, TickScan, TickUnlink, TickEnqueue, TickReturn,
     TickSwitch, vars, family
<1>2. ASSUME \A t : Linked(t)' <=> Linked(t), irq # "enqueue", stat' = stat
      PROVE  AccountedFor'
  <2>1. ASSUME NEW t \in live  PROVE Accounted(t)'
    BY <1>1, <1>2 DEF Accounted, Keeper
  <2> QED  BY <1>1, <2>1 DEF AccountedFor, Accounted, Keeper, ForkPoints, WokenPoints, TakenPoints
<1>3. CASE Tick \/ TickScan \/ TickReturn
  BY <1>2, <1>3, StillLists DEF Tick, TickScan, TickReturn, fields
<1>4. CASE UNCHANGED vars
  BY <1>4, StillLists DEF Counted, AccountedFor, vars, fields, cpu, queues, Linked, On, family
<1>5. CASE TickSwitch
  <2>1. rr_pick_next /\ UNCHANGED <<live, stat, prio>> /\ irq # "enqueue"
    BY <1>5 DEF TickSwitch, family, fields
  <2> QED  BY <1>2, <2>1, RotateLists
<1>6. CASE TickUnlink
  <2>1. /\ cursor \in On(Sleep) /\ tq_dequeue(Sleep, cursor) /\ irq = "unlink"
        /\ irq' = "enqueue" /\ stat' = [stat EXCEPT ![cursor] = "READY"] /\ cursor' = cursor
    BY <1>6 DEF TickUnlink, Counted, FInv, IInv, GInv, TickFits
  <2>2. (\A t : Linked(t)' <=> Linked(t) /\ t # cursor) /\ QueueCounts'
    BY <2>1, UnlinkLists, HeadsDiffer
  <2>3. ASSUME NEW t \in live  PROVE Accounted(t)'
    <3>1. t # cursor => stat'[t] = stat[t]
      BY <2>1, FamilyTypes DEF Counted
    <3> QED  BY <1>1, <2>1, <2>2, <3>1 DEF Accounted, Keeper
  <2> QED  BY <1>1, <2>2, <2>3 DEF AccountedFor, Accounted, Keeper, ForkPoints, WokenPoints,
              TakenPoints
<1>7. CASE TickEnqueue
  <2>1. PICK c : c = cursor
    OBVIOUS
  <2>2. /\ c \in Tasks /\ ~Linked(c) /\ rr_enqueue(c, prio[c]) /\ irq = "enqueue" /\ stat' = stat
    BY <1>7, <2>1, FamilyTypes DEF TickEnqueue, Counted, FInv, IInv, GInv, TickFits, fields
  <2>3. (\A t : Linked(t)' <=> Linked(t) \/ t = c) /\ QueueCounts'
    BY <2>2, EnqueueLists
  <2>4. ASSUME NEW t \in live  PROVE Accounted(t)'
    BY <1>1, <2>1, <2>2, <2>3 DEF Accounted, Keeper
  <2> QED  BY <1>1, <2>3, <2>4 DEF AccountedFor, Accounted, Keeper, ForkPoints, WokenPoints,
              TakenPoints
<1> QED  BY <1>3, <1>4, <1>5, <1>6, <1>7 DEF SchedTick

\* wait() leaves its window by saying that it waits.
LEMMA WaitMarkCarry ==
    ASSUME Counted, SetStat(current, "WAITING", "wait_mark", "wait_sched")
    PROVE  AccountedFor' /\ QueueCounts'
<1>1. /\ irq = "none" /\ pc[current] = "wait_mark" /\ pc' = [pc EXCEPT ![current] = "wait_sched"]
      /\ stat' = [stat EXCEPT ![current] = "WAITING"] /\ UNCHANGED <<queues, live, arg>>
  BY DEF SetStat, At, Goto, family
<1>2. /\ live \subseteq Tasks /\ current \in live /\ live' = live
      /\ pc'[current] = "wait_sched" /\ stat'[current] = "WAITING"
      /\ \A u \in live \ {current} : pc'[u] = pc[u] /\ stat'[u] = stat[u]
  BY <1>1, FamilyTypes DEF Counted
<1>3. (\A t : Linked(t)' <=> Linked(t)) /\ QueueCounts'
  BY <1>1, StillLists
<1>4. pc[current] \notin ForkPoints \cup WokenPoints \cup TakenPoints \cup DonePoints
  BY <1>1 DEF ForkPoints, WokenPoints, TakenPoints, DonePoints
<1>5. AccountedFor'
  <2>1. PICK c \in live : c = current
    BY <1>2
  <2>2. PICK a : a = arg[current]
    OBVIOUS
  <2> QED  BY <1>1, <1>2, <1>3, <1>4, <2>1, <2>2, CarryAll
<1> QED  BY <1>3, <1>5

\* The steps of kernel_thread.
LEMMA KernelThreadCarry ==
    ASSUME Counted, KernelThread  PROVE AccountedFor' /\ QueueCounts'
<1>1. CASE \/ \E c \in Workers : Create(c, InitPrio, "boot")
           \/ \E c \in Workers, p \in Levels : Create(c, p, "run")
           \/ Create(Reaper, DaemonPrio, "run")
  BY <1>1, Constants, CreateCarry
<1>2. CASE Acquire(TaskLock(current), "fork_lock", "fork_adopt") \/ Acquire(RR, "fork_rr", "fork_enqueue")
  BY <1>2, CarryMoves, AcquireCarry
<1>3. CASE Adopt
  BY <1>3, CarryMoves, StillCarry DEF Adopt, At, fields
<1>4. CASE Enqueue(arg[current], "fork_enqueue", "fork_sched")
  <2>1. arg[current] \in Tasks
    BY <1>4, FamilyTypes DEF Counted, FInv, IInv, GInv, PointersSet, ForkPoints, Enqueue, At
  <2> QED  BY <1>4, <2>1, EnqueueCarry DEF SchedEnqueues
<1>5. CASE Schedule("fork_sched", "fork_ret")
  BY <1>5, ScheduleCarry DEF ScheduleMoves
<1>6. CASE ReturnPid
  <2>1. /\ irq = "none" /\ pc[current] = "fork_ret" /\ Goto("run") /\ UNCHANGED <<queues, live, stat>>
        /\ arg' = [arg EXCEPT ![current] = NULL]
    BY <1>6 DEF ReturnPid, At, family, fields
  <2>2. \A u \in Tasks \ {current} : arg'[u] = arg[u] /\ stat'[u] = stat[u]
    BY <2>1, FamilyTypes DEF Counted
  <2>3. "fork_ret" \notin ForkPoints \cup WokenPoints \cup TakenPoints \cup DonePoints
    BY DEF ForkPoints, WokenPoints, TakenPoints, DonePoints
  <2> QED  BY <2>1, <2>2, <2>3, CarryMoves, StillCarry
<1> QED  BY <1>1, <1>2, <1>3, <1>4, <1>5, <1>6 DEF KernelThread

\* The steps of sleep, wait and yield.
LEMMA SleepWaitCarry ==
    ASSUME Counted, SleepCall \/ WaitCall \/ YieldCall  PROVE AccountedFor' /\ QueueCounts'
<1>1. CASE \/ Call("sleep", "sleep_rr") \/ Call("wait", "wait_rr") \/ Call("yield", "yield_sched")
  BY <1>1, CarryMoves, CallCarry
<1>2. CASE \/ Acquire(RR, "sleep_rr", "sleep_dequeue") \/ Acquire(RR, "wait_rr", "wait_dequeue")
           \/ Acquire(Sleep, "sleep_tq", "sleep_add")
  BY <1>2, CarryMoves, AcquireCarry
<1>3. CASE Dequeue("sleep_dequeue", "sleep_mark") \/ Dequeue("wait_dequeue", "wait_mark")
  BY <1>3, DequeueCarry DEF SelfDequeues
<1>4. CASE SetSleep
  <2>1. \A u \in Tasks \ {current} : stat'[u] = stat[u]
    BY <1>4, FamilyTypes DEF SetSleep, Counted
  <2> QED  BY <1>4, <2>1, CarryMoves, StillCarry DEF SetSleep, At, family, DonePoints
<1>5. CASE Link(Sleep, "sleep_add", "sleep_half")
  BY <1>5, LinkCarry
<1>6. CASE FinishLink
  BY <1>6, CarryMoves, StillCarry DEF FinishLink, At, family, fields
<1>7. CASE Unlock(Sleep, "sleep_unlock", "sleep_sched")
  BY <1>7, CarryMoves, UnlockCarry
<1>8. CASE SetStat(current, "WAITING", "wait_mark", "wait_sched")
  BY <1>8, WaitMarkCarry
<1>9. CASE Schedule("sleep_sched", "run") \/ Schedule("wait_sched", "run") \/ Schedule("yield_sched", "run")
  BY <1>9, ScheduleCarry DEF ScheduleMoves
<1> QED
  BY <1>1, <1>2, <1>3, <1>4, <1>5, <1>6, <1>7, <1>8, <1>9 DEF SleepCall, WaitCall, YieldCall

\* The steps of reset_prio.
LEMMA ResetPrioCarry ==
    ASSUME Counted, ResetPrio  PROVE AccountedFor' /\ QueueCounts'
<1>1. CASE Call("prio", "prio_lock")
  BY <1>1, CarryMoves, CallCarry
<1>2. CASE LockSelf
  BY <1>2, CarryMoves, StillCarry DEF LockSelf, At, family, fields
<1>3. CASE Acquire(RR, "prio_rr", "prio_dequeue") \/ Acquire(RR, "prio_rr2", "prio_enqueue")
  BY <1>3, CarryMoves, AcquireCarry
<1>4. CASE Dequeue("prio_dequeue", "prio_set")
  BY <1>4, DequeueCarry DEF SelfDequeues
<1>5. CASE SetPrio
  <2>1. stat[current] = "READY"
    BY <1>5, FamilyTypes
       DEF SetPrio, At, Counted, FInv, IInv, GInv, StatPoints, Stats, StatFits, SleepPoints,
       DeadPoints
  <2> QED  BY <1>5, <2>1, CarryMoves, StillCarry DEF SetPrio, At, family
<1>6. CASE Enqueue(current, "prio_enqueue", "prio_unlock")
  BY <1>6, FamilyTypes, EnqueueCarry DEF Counted
<1>7. CASE Unlock(TaskLock(current), "prio_unlock", "prio_sched")
  BY <1>7, CarryMoves, UnlockCarry
<1>8. CASE Schedule("prio_sched", "run")
  BY <1>8, ScheduleCarry DEF ScheduleMoves
<1> QED  BY <1>1, <1>2, <1>3, <1>4, <1>5, <1>6, <1>7, <1>8 DEF ResetPrio

\* The steps of do_exit.
LEMMA ExitCarry ==
    ASSUME Counted, Exit  PROVE AccountedFor' /\ QueueCounts'
<1>1. CASE Call("exit", "exit_rr")
  BY <1>1, CarryMoves, CallCarry
<1>2. CASE \/ Acquire(RR, "exit_rr", "exit_dequeue") \/ Acquire(RR, "exit_wake", "exit_enqueue")
           \/ Acquire(TaskLock(current), "exit_lock", "exit_reparent")
           \/ Acquire(Zombie, "exit_tq", "exit_link")
  BY <1>2, CarryMoves, AcquireCarry
<1>3. CASE Dequeue("exit_dequeue", "exit_lockp")
  BY <1>3, DequeueCarry DEF SelfDequeues
<1>4. CASE LockParent
  BY <1>4, CarryMoves, StillCarry, FamilyTypes DEF Counted, LockParent, At, family, fields,
     ForkPoints, WokenPoints, TakenPoints
<1>5. CASE UnlinkSibling \/ Reparent
  BY <1>5, CarryMoves, StillCarry DEF UnlinkSibling, Reparent, At, fields
<1>6. CASE CheckParent
  BY <1>6, CheckParentCarry
<1>7. CASE Enqueue(arg[current], "exit_enqueue", "exit_unlock")
  <2>1. arg[current] \in Tasks
    BY <1>7, FamilyTypes DEF Counted, FInv, IInv, GInv, PointersSet, ParentPoints, Enqueue, At
  <2> QED  BY <1>7, <2>1, EnqueueCarry DEF SchedEnqueues
<1>8. CASE \/ Unlock(TaskLock(current), "exit_unlock", "exit_unlockp")
           \/ Unlock(TaskLock(arg[current]), "exit_unlockp", "exit_mark")
           \/ Unlock(Zombie, "exit_tqunlock", "exit_sched")
  BY <1>8, CarryMoves, UnlockCarry
<1>9. CASE SetStat(current, "ZOMBIE", "exit_mark", "exit_tq")
  <2>1. \A u \in Tasks \ {current} : stat'[u] = stat[u]
    BY <1>9, FamilyTypes DEF SetStat, Counted
  <2> QED  BY <1>9, <2>1, CarryMoves, StillCarry DEF SetStat, At, family, DonePoints
<1>10. CASE Link(Zombie, "exit_link", "exit_tqunlock")
  BY <1>10, LinkCarry
<1>11. CASE Schedule("exit_sched", "dead")
  BY <1>11, ScheduleCarry DEF ScheduleMoves
<1> QED
  BY <1>1, <1>2, <1>3, <1>4, <1>5, <1>6, <1>7, <1>8, <1>9, <1>10, <1>11 DEF Exit

\* The steps of the reaper.
LEMMA KillZombiesCarry ==
    ASSUME Counted, KillZombies  PROVE AccountedFor' /\ QueueCounts'
<1>1. CASE Acquire(Zombie, "reap_tq", "reap_pick") \/ Acquire(Zombie, "reap_tq2", "reap_unlink")
  BY <1>1, CarryMoves, AcquireCarry
<1>2. CASE PickZombie
  <2>1. PICK to \in {"reap_sched", "reap_tq2"} : Goto(to)
    BY <1>2 DEF PickZombie
  <2>2. \A u \in Tasks \ {current} : arg'[u] = arg[u]
    BY <1>2, FamilyTypes DEF PickZombie, Counted
  <2>3. pc[current] = "reap_pick" /\ irq = "none" /\ Carries("reap_pick", to)
    BY <1>2, <2>1, CarryMoves DEF PickZombie, At
  <2> QED  BY <1>2, <2>1, <2>2, <2>3, StillCarry
           DEF PickZombie, family, fields, ForkPoints, WokenPoints, TakenPoints
<1>3. CASE Schedule("reap_sched", "reap_tq")
  BY <1>3, ScheduleCarry DEF ScheduleMoves
<1>4. CASE UnlinkZombie \/ Kill
  BY <1>4, UnlinkZombieCarry, KillCarry
<1>5. CASE Unlock(Zombie, "reap_unlock", "reap_kill")
  BY <1>5, CarryMoves, UnlockCarry
<1> QED  BY <1>1, <1>2, <1>3, <1>4, <1>5 DEF KillZombies

\* Every step keeps the threads accounted for.
LEMMA NextCounted ==
    ASSUME Counted, [Next]_vars  PROVE Counted'
<1>1. FInv'
  BY NextFamily DEF Counted
<1>2. AccountedFor' /\ QueueCounts'
  <2>1. CASE Service
    BY <2>1, KernelThreadCarry, SleepWaitCarry, ResetPrioCarry, ExitCarry, KillZombiesCarry
       DEF Service
  <2>2. CASE Tick \/ SchedTick \/ Spin \/ UNCHANGED vars
    BY <2>2, TickCarry DEF Spin
  <2> QED  BY <2>1, <2>2 DEF Next
<1> QED  BY <1>1, <1>2 DEF Counted

\* At first idle is.
LEMMA InitCounted ==
    ASSUME Init  PROVE Counted
<1>1. FInv
  BY InitFamily
<1>2. /\ QueuesInit(Idle) /\ live = {Idle} /\ Idle \in Tasks /\ W * W - 1 \in Prios
      /\ On(Run(W * W - 1)) = {Idle}
      /\ \A h \in Heads \ {Run(W * W - 1)} : list[h] = <<>> /\ On(h) = {}
  BY Constants, InitQueues DEF Init
<1>3. AccountedFor
  BY <1>2, HeadsDiffer DEF AccountedFor, Linked
<1>4. QueueCounts
  <2>1. Runnable = {Idle}
    BY <1>2, HeadsDiffer DEF Runnable
  <2>2. Cardinality(Runnable) = 1
    BY <2>1, FS_Singleton
  <2>3. n_tasks[RR] = 1 /\ \A q \in TaskQueues : n_tasks[q] = 0 /\ list[q] = <<>>
    BY <1>2, HeadsDiffer DEF QueuesInit, Queues, TaskQueues, RR, Sleep, Zombie, SemQ
  <2> QED  BY <2>2, <2>3 DEF QueueCounts, Runnable
<1> QED  BY <1>1, <1>3, <1>4 DEF Counted

\* The two follow from each other: the counters count what is linked only if
\* a thread that takes itself off its run queue was on it.
THEOREM CountedInvariant == Spec => []Counted
<1>1. Init => Counted
  BY InitCounted
<1>2. Counted /\ [Next]_vars => Counted'
  BY NextCounted
<1> QED  BY <1>1, <1>2, PTL DEF Spec

\* No thread is forgotten: a live thread that is on no list is in one of the
\* windows between its dequeue and its next enqueue, waits for a child, or is
\* in the hands of its creator, its last child, the reaper or the interrupt.
THEOREM NobodyForgotten == Spec => []AccountedFor
<1>1. Counted => AccountedFor
  BY DEF Counted
<1> QED  BY <1>1, CountedInvariant, PTL

\* The n_tasks counters (sched_rr.c:56, task_queue.c:15) count the threads on
\* their lists, although list_del does not know the list it takes from.
THEOREM Counters == Spec => []QueueCounts
<1>1. Counted => QueueCounts
  BY DEF Counted
<1> QED  BY <1>1, CountedInvariant, PTL

-----------------------------------------------------------------------------
(* What still refers to a thread that the reaper frees.                     *)

\* A thread whose parent is p may be linked: p is live, and not in the
\* reaper's hands.
Placed(p) == p = NULL \/ (p \in live /\ \A u \in Tasks : pc[u] \in TakenPoints => arg[u] # p)

\* The parent of a thread that has not taken itself off its parent's list.
LEMMA ParentPlaced ==
    ASSUME FInv, NEW t \in live, pc[t] \notin Gone,
           ~\E u \in Tasks : pc[u] \in NewChildPoints /\ arg[u] = t
    PROVE  /\ Placed(parent[t])
           /\ parent[t] # NULL => pc[parent[t]] \notin Gone \ {"exit_lock", "exit_reparent"}
<1>1. CASE t = Idle
  BY <1>1 DEF FInv, IdleRoot, Placed
<1>2. CASE t # Idle
  <2>1. PICK p \in live : t \in children[p]
    BY <1>2, FamilyTypes DEF FInv, ChildrenExact, NewChildPoints
  <2>2. p \in Tasks /\ t \in Tasks
    BY FamilyTypes
  <2>3. parent[t] = p /\ pc[p] \notin Gone \ {"exit_lock", "exit_reparent"}
    BY <2>1, <2>2 DEF FInv, ChildrenExact
  <2>4. \A u \in Tasks : pc[u] \in TakenPoints => arg[u] # p
    BY <2>3 DEF FInv, DeadIsDone, DonePoints, Gone
  <2> QED  BY <2>1, <2>3, <2>4 DEF Placed
<1> QED  BY <1>1, <1>2

\* The threads on the zombie queue are done, and those that are done and on a
\* list are on that one.
LEMMA ZombiesDone ==
    ASSUME RInv, NEW t, Linked(t)
    PROVE  /\ t \in live /\ t \in Tasks
           /\ t \in On(Zombie) => pc[t] \in DeadPoints
           /\ pc[t] \in Gone => t \in On(Zombie)
<1>1. PICK h \in Heads : t \in On(h)
  BY DEF Linked
<1>2. t \in live /\ t \in Tasks /\ pc[t] \notin Unlinked /\ pc[t] \in Points /\ stat[t] \in Stats
  BY <1>1, FamilyTypes DEF RInv, FInv, IInv, GInv, ListsExact, WindowsUnlinked, Windows
<1>3. t \in On(Zombie) => stat[t] = "ZOMBIE"
  BY HeadsDiffer DEF RInv, FInv, IInv, GInv, ListsExact
<1>4. stat[t] = "ZOMBIE" => pc[t] \in DeadPoints
  BY <1>2 DEF RInv, FInv, IInv, GInv, StatPoints, StatFits, Unlinked
<1>5. pc[t] \in Gone => stat[t] = "ZOMBIE"
  BY <1>2 DEF RInv, DeadZombie, DeadPoints, Gone, Unlinked
<1>6. stat[t] = "ZOMBIE" => t \in On(Zombie)
  BY <1>1, HeadsDiffer DEF RInv, FInv, IInv, GInv, ListsExact, SemsUnused
<1> QED  BY <1>2, <1>3, <1>4, <1>5, <1>6

\* A step that frees and reparents nobody, leaves the zombie queue alone and
\* picks and takes no zombie keeps the order of the reaper's work, if what it
\* links has a parent that stays.
LEMMA OrderKept ==
    ASSUME RInv, UNCHANGED <<live, parent>>, list'[Zombie] = list[Zombie],
           \A u \in Tasks : pc'[u] \in TakenPoints => pc[u] \in TakenPoints /\ arg'[u] = arg[u],
           \A u \in Tasks : pc'[u] \in PickedPoints => pc[u] \in PickedPoints /\ arg'[u] = arg[u],
           \A t \in Tasks : Linked(t)' => Linked(t) \/ Placed(parent[t])
    PROVE  LinkedParents' /\ ChildrenFirst' /\ PickedIsHead'
<1>1. LinkedParents'
  BY DEF RInv, LinkedParents, Placed
<1>2. ChildrenFirst' /\ PickedIsHead'
  BY DEF RInv, ChildrenFirst, PickedIsHead
<1> QED  BY <1>1, <1>2

\* The steps of the services that touch a list.
LEMMA QueueSteps ==
    ASSUME Service
    PROVE  \/ UNCHANGED queues
           \/ rr_pick_next /\ UNCHANGED <<live, stat, prio>>
           \/ \E m \in SelfDequeues : Dequeue(m[1], m[2])
           \/ Enqueue(arg[current], "fork_enqueue", "fork_sched")
           \/ Enqueue(arg[current], "exit_enqueue", "exit_unlock")
           \/ Enqueue(current, "prio_enqueue", "prio_unlock")
           \/ Link(Sleep, "sleep_add", "sleep_half")
           \/ Link(Zombie, "exit_link", "exit_tqunlock")
           \/ UnlinkZombie
<1>1. CASE KernelThread
  BY <1>1 DEF KernelThread, Create, Adopt, ReturnPid, Acquire, Schedule, family, fields
<1>2. CASE SleepCall
  BY <1>2 DEF SleepCall, SetSleep, FinishLink, Call, Acquire, Unlock, Schedule, family, fields,
     SelfDequeues
<1>3. CASE WaitCall
  BY <1>3 DEF WaitCall, SetStat, Call, Acquire, Schedule, family, fields, SelfDequeues
<1>4. CASE YieldCall
  BY <1>4 DEF YieldCall, Call, Schedule, family, fields
<1>5. CASE ResetPrio
  BY <1>5 DEF ResetPrio, LockSelf, SetPrio, Call, Acquire, Unlock, Schedule, family, fields,
     SelfDequeues
<1>6. CASE Exit
  BY <1>6 DEF Exit, LockParent, UnlinkSibling, Reparent, CheckParent, SetStat, Call, Acquire,
     Unlock,
              Schedule, family, fields, SelfDequeues
<1>7. CASE KillZombies
  BY <1>7 DEF KillZombies, PickZombie, Kill, Acquire, Unlock, Schedule, family, fields
<1> QED  BY <1>1, <1>2, <1>3, <1>4, <1>5, <1>6, <1>7 DEF Service

Creates == \E c \in Tasks : \E p, from : from \in {"boot", "run"} /\ Create(c, p, from)

\* The steps that free or reparent somebody, or that the reaper's order is about.
Reorders ==
    Creates \/ Adopt \/ Reparent \/ Kill \/ PickZombie \/ UnlinkZombie
      \/ Link(Zombie, "exit_link", "exit_tqunlock")

\* No other step picks a zombie, takes one, or touches the family.
LEMMA OrdinaryStep ==
    ASSUME FInv, Service, ~Reorders
    PROVE  /\ UNCHANGED <<live, parent>>
           /\ \A u \in Tasks : pc'[u] \in TakenPoints => pc[u] \in TakenPoints /\ arg'[u] = arg[u]
           /\ \A u \in Tasks : pc'[u] \in PickedPoints => pc[u] \in PickedPoints /\ arg'[u] = arg[u]
<1> USE FamilyTypes DEF Reorders, At, Goto, Acquire, Unlock, Enqueue, Dequeue, Schedule, Call,
                        TakenPoints, PickedPoints, family
<1>1. CASE KernelThread
  <2>1. ~\E c \in Workers : Create(c, InitPrio, "boot")
    BY Constants DEF Creates
  <2>2. ~\E c \in Workers, p \in Levels : Create(c, p, "run")
    BY Constants DEF Creates
  <2>3. ~Create(Reaper, DaemonPrio, "run")
    BY Constants DEF Creates
  <2> QED  BY <1>1, <2>1, <2>2, <2>3 DEF KernelThread, ReturnPid
<1>2. CASE SleepCall
  BY <1>2 DEF SleepCall, SetSleep, Link, FinishLink
<1>3. CASE WaitCall
  BY <1>3 DEF WaitCall, SetStat
<1>4. CASE YieldCall
  BY <1>4 DEF YieldCall
<1>5. CASE ResetPrio
  BY <1>5 DEF ResetPrio, LockSelf, SetPrio
<1>6. CASE Exit
  BY <1>6 DEF Exit, LockParent, UnlinkSibling, CheckParent, SetStat
<1>7. CASE KillZombies
  BY <1>7 DEF KillZombies
<1> QED  BY <1>1, <1>2, <1>3, <1>4, <1>5, <1>6, <1>7 DEF Service

\* What a thread that is about to be linked on a run queue or on the sleep
\* list has for a parent.
LEMMA HandedPlaced ==
    ASSUME FInv, irq = "none",
           NEW c, c = arg[current], pc[current] \in {"fork_enqueue", "exit_enqueue"}
    PROVE  c \in Tasks /\ ~Linked(c) /\ Placed(parent[c])
<1>1. current \in Tasks /\ current \in live /\ c \in Tasks
  BY FamilyTypes DEF FInv, IInv, GInv, PointersSet, ForkPoints, ParentPoints
<1>2. /\ c \in live /\ ~Linked(c) /\ pc[c] \in {"run", "reap_tq", "wait_sched"}
      /\ \A v \in Tasks : InHand(v, c) => v = current
  BY <1>1, SchedHands DEF FInv, IInv, GInv, InHand, ForkPoints, WakePoints, WokenPoints
<1>3. ~\E u \in Tasks : pc[u] \in NewChildPoints /\ arg[u] = c
  BY <1>2 DEF InHand, NewChildPoints, ForkPoints
<1>4. pc[c] \notin Gone
  BY <1>2 DEF Gone
<1> QED  BY <1>1, <1>2, <1>3, <1>4, ParentPlaced

\* A thread that moves itself is on no list and has a place in the family.
LEMMA SelfPlaced ==
    ASSUME FInv, irq = "none", pc[current] \in {"prio_enqueue", "sleep_add"}
    PROVE  ~Linked(current) /\ Placed(parent[current])
<1>1. current \in Tasks /\ current \in live
  BY FamilyTypes
<1>2. \A u \in Tasks : ~InHand(u, current)
  BY <1>1, SchedHands DEF FInv, IInv, GInv
<1>3. ~\E u \in Tasks : pc[u] \in NewChildPoints /\ arg[u] = current
  BY <1>2 DEF InHand, NewChildPoints, ForkPoints
<1>4. pc[current] \notin Gone /\ pc[current] \in Unlinked
  BY DEF Gone, Unlinked
<1> QED  BY <1>1, <1>3, <1>4, ParentPlaced DEF FInv, IInv, GInv, WindowsUnlinked, Windows

\* The list of zombies is none of the others.
LEMMA ZombieApart ==
    /\ Zombie \in Heads /\ Zombie \in TaskQueues /\ Zombie # Sleep
    /\ \A p : Run(p) # Zombie
BY HeadsDiffer DEF Run, Zombie

\* The steps that do not concern the reaper keep the order of its work.
LEMMA OrdinaryOrder ==
    ASSUME RInv, Counted, Service, ~Reorders
    PROVE  LinkedParents' /\ ChildrenFirst' /\ PickedIsHead'
<1>1. FInv
  BY DEF RInv
<1>2. /\ UNCHANGED <<live, parent>>
      /\ \A u \in Tasks : pc'[u] \in TakenPoints => pc[u] \in TakenPoints /\ arg'[u] = arg[u]
      /\ \A u \in Tasks : pc'[u] \in PickedPoints => pc[u] \in PickedPoints /\ arg'[u] = arg[u]
  BY <1>1, OrdinaryStep
<1>3. list \in [Heads -> Seq(Tasks)] /\ current \in Tasks
  BY <1>1, FamilyTypes DEF FInv, IInv, TypeOK, QueuesType
<1>4. list'[Zombie] = list[Zombie] /\ \A t \in Tasks : Linked(t)' => Linked(t) \/ Placed(parent[t])
  <2>1. CASE UNCHANGED queues
    BY <2>1, StillLists DEF queues
  <2>2. CASE rr_pick_next /\ UNCHANGED <<live, stat, prio>>
    BY <1>3, <2>2, RotateLists, ZombieApart DEF rr_pick_next
  <2>3. CASE \E m \in SelfDequeues : Dequeue(m[1], m[2])
    <3>1. PICK m \in SelfDequeues : Dequeue(m[1], m[2])
      BY <2>3
    <3>2. m = <<m[1], m[2]>>
      BY DEF SelfDequeues
    <3>3. \A t : Linked(t)' <=> Linked(t) /\ t # current
      BY <3>1, <3>2, DequeueLists
    <3>4. irq = "none" /\ pc[current] \in {"sleep_dequeue", "wait_dequeue", "prio_dequeue", "exit_dequeue"}
      BY <3>1 DEF Dequeue, At, SelfDequeues
    <3>5. current \notin On(Zombie)
      BY <3>4, RunningIsLinked, ZombieApart
    <3>6. list'[Zombie] = list[Zombie]
      BY <3>1, <3>5, ZombieApart DEF Dequeue, rr_dequeue, list_del, Drop, On
    <3> QED  BY <3>3, <3>6
  <2>4. CASE Enqueue(arg[current], "fork_enqueue", "fork_sched")
             \/ Enqueue(arg[current], "exit_enqueue", "exit_unlock")
    <3>1. PICK c : c = arg[current]
      OBVIOUS
    <3>2. rr_enqueue(c, prio[c]) /\ irq = "none" /\ pc[current] \in {"fork_enqueue", "exit_enqueue"}
      BY <2>4, <3>1 DEF Enqueue, At
    <3>3. c \in Tasks /\ ~Linked(c) /\ Placed(parent[c])
      BY <1>1, <3>1, <3>2, HandedPlaced
    <3>4. \A t : Linked(t)' <=> Linked(t) \/ t = c
      BY <3>2, <3>3, EnqueueLists
    <3> QED  BY <1>3, <3>2, <3>3, <3>4, ZombieApart DEF rr_enqueue, list_add_tail
  <2>5. CASE Enqueue(current, "prio_enqueue", "prio_unlock")
    <3>1. rr_enqueue(current, prio[current]) /\ irq = "none" /\ pc[current] \in {"prio_enqueue", "sleep_add"}
      BY <2>5 DEF Enqueue, At
    <3>2. ~Linked(current) /\ Placed(parent[current])
      BY <1>1, <3>1, SelfPlaced
    <3>3. \A t : Linked(t)' <=> Linked(t) \/ t = current
      BY <1>3, <3>1, <3>2, EnqueueLists
    <3> QED  BY <1>3, <3>1, <3>2, <3>3, ZombieApart DEF rr_enqueue, list_add_tail
  <2>6. CASE Link(Sleep, "sleep_add", "sleep_half")
    <3>1. tq_enqueue(Sleep, current) /\ irq = "none" /\ pc[current] \in {"prio_enqueue", "sleep_add"}
      BY <2>6 DEF Link, At
    <3>2. ~Linked(current) /\ Placed(parent[current])
      BY <1>1, <3>1, SelfPlaced
    <3>3. \A t : Linked(t)' <=> Linked(t) \/ t = current
      BY <3>1, <3>2, LinkLists, HeadsDiffer
    <3> QED  BY <1>3, <3>1, <3>2, <3>3, ZombieApart DEF tq_enqueue, list_add_tail
  <2> QED  BY <2>1, <2>2, <2>3, <2>4, <2>5, <2>6, QueueSteps DEF Reorders
<1> QED  BY <1>2, <1>4, OrderKept

-----------------------------------------------------------------------------
(* The steps that do concern it.                                            *)

OrderInv == LinkedParents /\ ChildrenFirst /\ PickedIsHead

\* kernel_thread: nobody points to the new thread yet.
LEMMA CreateOrder ==
    ASSUME RInv, Creates  PROVE OrderInv'
<1>0. PICK c \in Tasks : \E p, from : Create(c, p, from) /\ from \in {"boot", "run"}
  BY DEF Creates
<1>1. PICK p, from : Create(c, p, from) /\ from \in {"boot", "run"}
  BY <1>0
<1>2. /\ c \notin live /\ live' = live \cup {c} /\ pc[current] \in {"boot", "run"}
      /\ UNCHANGED <<list, parent>>
  BY <1>1 DEF Create, At, queues
<1>3. \A u \in Tasks : pc'[u] \in TakenPoints \cup PickedPoints => pc'[u] = pc[u] /\ arg'[u] = arg[u]
  BY <1>1, FamilyTypes DEF RInv, Create, TakenPoints, PickedPoints
<1>4. \A t : Linked(t)' <=> Linked(t)
  BY <1>2 DEF Linked, On
<1> QED  BY <1>2, <1>3, <1>4 DEF RInv, OrderInv, LinkedParents, ChildrenFirst, PickedIsHead

\* Adopt: the child that gets its parent is on no list.
LEMMA AdoptOrder ==
    ASSUME RInv, Adopt  PROVE OrderInv'
<1>1. PICK c : c = arg[current]
  OBVIOUS
<1>2. /\ pc[current] = "fork_adopt" /\ pc' = [pc EXCEPT ![current] = "fork_rr"]
      /\ parent' = [parent EXCEPT ![c] = current]
      /\ UNCHANGED <<list, arg, live>>
  BY <1>1 DEF Adopt, At, Goto, queues
<1>3. c \in Tasks /\ ~Linked(c)
  BY <1>1, <1>2, FamilyTypes, SchedHands DEF RInv, FInv, IInv, GInv, PointersSet, InHand,
     ForkPoints
<1>4. \A u \in Tasks : pc'[u] \in TakenPoints \cup PickedPoints => pc'[u] = pc[u]
  BY <1>2, FamilyTypes DEF RInv, TakenPoints, PickedPoints
<1>5. \A t : Linked(t)' <=> Linked(t)
  BY <1>2 DEF Linked, On
<1>6. \A i \in DOMAIN list[Zombie] : Linked(list[Zombie][i])
  BY ZombieApart DEF Linked, On, ToSet
<1>7. parent \in [Tasks -> Tasks \cup {NULL}] /\ \A t \in Tasks \ {c} : parent'[t] = parent[t]
  BY <1>2, FamilyTypes DEF RInv
<1>8. \A i \in DOMAIN list[Zombie] : parent'[list[Zombie][i]] = parent[list[Zombie][i]]
  BY <1>2, <1>3, <1>6
<1> QED  BY <1>2, <1>3, <1>4, <1>5, <1>7, <1>8 DEF RInv, OrderInv, LinkedParents, ChildrenFirst,
            PickedIsHead

\* Reparent: the new parent is live and not done, and no zombie changes hands.
LEMMA ReparentOrder ==
    ASSUME RInv, Reparent  PROVE OrderInv'
<1>1. PICK p : p = arg[current]
  OBVIOUS
<1>2. /\ pc[current] = "exit_reparent" /\ pc' = [pc EXCEPT ![current] = "exit_check"]
      /\ parent' = [t \in Tasks |-> IF t \in children[current] THEN p ELSE parent[t]]
      /\ UNCHANGED <<list, arg, live>>
  BY <1>1 DEF Reparent, At, Goto, queues
<1>3. p \in live /\ p \in Tasks /\ pc[p] \notin DonePoints
  BY <1>1, <1>2, FamilyTypes DEF RInv, FInv, ParentHeld, ParentPoints, DonePoints, Gone
<1>4. \A u \in Tasks : pc[u] \in TakenPoints => arg[u] # p
  BY <1>3 DEF RInv, FInv, DeadIsDone
<1>5. \A u \in Tasks : pc'[u] \in TakenPoints \cup PickedPoints => pc'[u] = pc[u]
  BY <1>2, FamilyTypes DEF RInv, TakenPoints, PickedPoints
<1>6. \A t : Linked(t)' <=> Linked(t)
  BY <1>2 DEF Linked, On
<1>7. \A i \in DOMAIN list[Zombie] : parent'[list[Zombie][i]] = parent[list[Zombie][i]]
  <2>1. ASSUME NEW i \in DOMAIN list[Zombie]  PROVE list[Zombie][i] \in Tasks \ children[current]
    <3>1. list[Zombie][i] \in On(Zombie) /\ Linked(list[Zombie][i])
      BY ZombieApart DEF Linked, On, ToSet
    <3>2. pc[list[Zombie][i]] \in DeadPoints /\ list[Zombie][i] \in Tasks
      BY <3>1, ZombiesDone
    <3> QED  BY <3>2, FamilyTypes DEF RInv, FInv, ChildrenExact, DeadPoints, Gone
  <2> QED  BY <1>2, <2>1
<1>8. \A t \in Tasks : parent'[t] = p \/ parent'[t] = parent[t]
  BY <1>2
<1> QED  BY <1>2, <1>3, <1>4, <1>5, <1>6, <1>7, <1>8
         DEF RInv, OrderInv, LinkedParents, ChildrenFirst, PickedIsHead

\* task_kill: whoever it frees is the parent of no linked thread.
LEMMA KillOrder ==
    ASSUME RInv, Kill  PROVE OrderInv'
<1>1. /\ pc[current] = "reap_kill" /\ live' = live \ {arg[current]}
      /\ pc' = [pc EXCEPT ![current] = "reap_tq"] /\ arg' = [arg EXCEPT ![current] = NULL]
      /\ UNCHANGED <<list, parent>>
  BY DEF Kill, At, Goto, queues
<1>2. \A u \in Tasks : pc'[u] \in TakenPoints \cup PickedPoints => pc'[u] = pc[u] /\ arg'[u] = arg[u]
  BY <1>1, FamilyTypes DEF RInv, TakenPoints, PickedPoints
<1>3. \A t : Linked(t)' <=> Linked(t)
  BY <1>1 DEF Linked, On
<1>4. \A t \in Tasks : Linked(t) => parent[t] # arg[current] \/ parent[t] = NULL
  BY <1>1, FamilyTypes DEF RInv, LinkedParents, TakenPoints
<1> QED  BY <1>1, <1>2, <1>3, <1>4 DEF RInv, OrderInv, LinkedParents, ChildrenFirst, PickedIsHead

\* tq_pick_next gives the head of the queue.
LEMMA PickOrder ==
    ASSUME RInv, PickZombie  PROVE OrderInv'
<1> DEFINE z == tq_pick_next(Zombie)
<1>1. PICK to \in {"reap_sched", "reap_tq2"} :
        /\ pc' = [pc EXCEPT ![current] = to]
        /\ to = "reap_tq2" => z # NULL
  BY DEF PickZombie, Goto
<1>2. /\ pc[current] = "reap_pick" /\ arg' = [arg EXCEPT ![current] = z]
      /\ UNCHANGED <<list, parent, live>>
  BY DEF PickZombie, At, queues, family
<1>3. z # NULL => z = First(list[Zombie])
  BY DEF tq_pick_next
<1> HIDE DEF z
<1>4. \A u \in Tasks : pc'[u] \in TakenPoints => pc'[u] = pc[u] /\ arg'[u] = arg[u]
  BY <1>1, <1>2, FamilyTypes DEF RInv, TakenPoints
<1>5. \A u \in Tasks : pc'[u] \in PickedPoints =>
        (pc[u] \in PickedPoints /\ arg'[u] = arg[u]) \/ arg'[u] = First(list[Zombie])
  BY <1>1, <1>2, <1>3, FamilyTypes DEF RInv, PickedPoints
<1>6. \A t : Linked(t)' <=> Linked(t)
  BY <1>2 DEF Linked, On
<1> QED  BY <1>2, <1>4, <1>5, <1>6 DEF RInv, OrderInv, LinkedParents, ChildrenFirst, PickedIsHead

\* No list leads to a child of the zombie at the head of the queue: such a
\* child would be a zombie itself, and queued before its parent.
LEMMA HeadIsNoParent ==
    ASSUME RInv, NEW z \in On(Zombie), z = list[Zombie][1], NEW t, Linked(t)
    PROVE  parent[t] # z
<1> SUFFICES ASSUME parent[t] = z  PROVE FALSE
  OBVIOUS
<1>1. Linked(z) /\ NULL \notin Tasks
  BY ZombieApart, FamilyTypes DEF RInv, Linked
<1>2. /\ z \in live /\ z \in Tasks /\ z # NULL /\ pc[z] \in DeadPoints
      /\ t \in live /\ t \in Tasks
      /\ pc[t] \in Gone => t \in On(Zombie)
  BY <1>1, ZombiesDone
<1>3. CASE pc[t] \notin Gone
  <2>1. ~\E u \in Tasks : pc[u] \in NewChildPoints /\ arg[u] = t
    BY <1>2, SchedHands DEF RInv, FInv, IInv, GInv, InHand, NewChildPoints, ForkPoints
  <2>2. pc[z] \notin Gone \ {"exit_lock", "exit_reparent"}
    BY <1>2, <1>3, <2>1, ParentPlaced DEF RInv
  <2> QED  BY <1>2, <2>2 DEF DeadPoints, Gone
<1>4. CASE pc[t] \in Gone
  <2>1. PICK i \in DOMAIN list[Zombie] : list[Zombie][i] = t
    BY <1>2, <1>4 DEF On, ToSet
  <2>2. list[Zombie] \in Seq(Tasks)
    BY ZombieApart DEF RInv, FInv, IInv, TypeOK, QueuesType
  <2>3. 1 \in DOMAIN list[Zombie] /\ i \in Nat /\ i >= 1
    BY <2>1, <2>2
  <2>4. i < 1
    BY <2>1, <2>3 DEF RInv, ChildrenFirst
  <2> QED  BY <2>3, <2>4
<1> QED  BY <1>3, <1>4

\* The reaper takes the head of the queue.
LEMMA UnlinkOrder ==
    ASSUME RInv, UnlinkZombie  PROVE OrderInv'
<1> DEFINE L == list[Zombie]
<1>1. PICK z : z = arg[current]
  OBVIOUS
<1>2. /\ pc[current] = "reap_unlink" /\ pc' = [pc EXCEPT ![current] = "reap_unlock"]
      /\ list' = list_del(z) /\ UNCHANGED <<arg, parent, live>>
  BY <1>1 DEF UnlinkZombie, At, Goto, tq_dequeue, family
<1>3. /\ current \in Tasks /\ current = Reaper /\ z \in On(Zombie) /\ z = First(L) /\ z \in Tasks
      /\ \A u \in Tasks : pc[u] \in TakenPoints \cup PickedPoints => u = current
  <2>1. /\ current \in Tasks /\ \A u \in Tasks : pc[u] \in ReapPoints => u = Reaper
        /\ pc[current] \in ReapPoints /\ pc[current] \in PickedPoints
    BY <1>2, FamilyTypes DEF RInv, FInv, IInv, GInv, ReaperFits, PickedPoints, ReapPoints
  <2>2. TakenPoints \cup PickedPoints \subseteq ReapPoints
    BY DEF PickedPoints, TakenPoints, ReapPoints
  <2>3. z \in On(Zombie) /\ z = First(L)
    BY <1>1, <1>2, <2>1 DEF RInv, FInv, IInv, GInv, ReaperFits, PickedIsHead
  <2>4. z \in Tasks
    BY <2>3, ZombiesDone, ZombieApart DEF RInv, Linked
  <2> QED  BY <2>1, <2>2, <2>3, <2>4
<1>4. QueuesType /\ NoRepeats /\ L \in Seq(Tasks) /\ IsInjective(L)
  BY ListFacts, ZombieApart DEF RInv, FInv, IInv, GInv, QueuesType, NoRepeats
<1>5. L # <<>> /\ z = L[1] /\ z \in ToSet(L) /\ 1 \in DOMAIN L
  BY <1>3, <1>4, EmptyList DEF On, First
<1>6. (\A h \in Heads : On(h)' = On(h) \ {z}) /\ list'[Zombie] = Drop(L, z)
  BY <1>2, <1>3, <1>4, TakeOff, ZombieApart DEF list_del
<1>7. Len(list'[Zombie]) = Len(L) - 1 /\ \A k \in 1 .. Len(L) - 1 : list'[Zombie][k] = L[k + 1]
  <2>0. L \in Seq(Tasks) /\ z \in ToSet(L)
    BY <1>4, <1>5
  <2> HIDE DEF L
  <2>1. PICK i \in 1 .. Len(L) :
          /\ L[i] = z /\ Drop(L, z) \in Seq(Tasks) /\ Len(Drop(L, z)) = Len(L) - 1
          /\ \A k \in 1 .. Len(L) - 1 : Drop(L, z)[k] = IF k < i THEN L[k] ELSE L[k + 1]
    BY <2>0, DropMember
  <2>2. i = 1
    BY <1>4, <1>5, <2>1 DEF IsInjective
  <2> QED  BY <1>6, <2>1, <2>2
<1>8. DOMAIN list'[Zombie] = 1 .. Len(L) - 1 /\ DOMAIN L = 1 .. Len(L) /\ Len(L) \in Nat
  <2>1. list'[Zombie] \in Seq(Tasks)
    BY <1>2, <1>3, <1>4, TakeOff, ZombieApart
  <2> QED  BY <1>4, <1>7, <2>1
<1>9. \A t : Linked(t)' => Linked(t)
  BY <1>6 DEF Linked
<1> HIDE DEF L
<1>10. LinkedParents'
  <2> SUFFICES ASSUME NEW t \in Tasks, Linked(t)', parent'[t] # NULL
               PROVE  /\ parent'[t] \in live'
                      /\ \A u \in Tasks : pc'[u] \in TakenPoints => arg'[u] # parent'[t]
    BY DEF LinkedParents
  <2>1. parent[t] \in live
    BY <1>2, <1>9 DEF RInv, LinkedParents
  <2>2. parent[t] # z
    BY <1>3, <1>5, <1>9, HeadIsNoParent DEF L
  <2>3. \A u \in Tasks : pc'[u] \in TakenPoints => u = current
    BY <1>2, <1>3, FamilyTypes DEF RInv
  <2> QED  BY <1>1, <1>2, <2>1, <2>2, <2>3
<1>11. ChildrenFirst'
  <2> SUFFICES ASSUME NEW i \in DOMAIN list'[Zombie], NEW j \in DOMAIN list'[Zombie],
                      parent'[list'[Zombie][i]] = list'[Zombie][j]
               PROVE  i < j
    BY DEF ChildrenFirst
  <2>1. i \in 1 .. Len(L) - 1 /\ j \in 1 .. Len(L) - 1
    BY <1>8
  <2>4. i \in Int /\ j \in Int /\ i + 1 \in 1 .. Len(L) /\ j + 1 \in 1 .. Len(L)
    BY <1>8, <2>1
  <2>3. /\ i + 1 \in DOMAIN L /\ j + 1 \in DOMAIN L
        /\ list'[Zombie][i] = L[i + 1] /\ list'[Zombie][j] = L[j + 1]
    BY <1>7, <1>8, <2>1, <2>4
  <2>2. i + 1 < j + 1
    BY <1>2, <2>3 DEF RInv, ChildrenFirst, L
  <2> QED  BY <2>2, <2>4
<1>12. PickedIsHead'
  <2>1. \A u \in Tasks : pc'[u] \notin PickedPoints
    BY <1>2, <1>3, FamilyTypes DEF RInv, PickedPoints
  <2> QED  BY <2>1 DEF PickedIsHead
<1> QED  BY <1>10, <1>11, <1>12 DEF OrderInv

\* A thread enters the queue while its parent is on its way at most to a lock
\* it holds no longer, so behind all its children and before its parent.
LEMMA LinkZombieOrder ==
    ASSUME RInv, Counted, Link(Zombie, "exit_link", "exit_tqunlock")
    PROVE  OrderInv'
<1> DEFINE L == list[Zombie]
<1>1. /\ irq = "none" /\ pc[current] = "exit_link" /\ pc' = [pc EXCEPT ![current] = "exit_tqunlock"]
      /\ tq_enqueue(Zombie, current) /\ list' = list_add_tail(current, Zombie)
      /\ UNCHANGED <<arg, parent, live>>
  BY DEF Link, At, Goto, tq_enqueue, family
<1>2. PICK c \in Tasks : c = current /\ c \in live
  BY FamilyTypes DEF RInv
<1>3. /\ list \in [Heads -> Seq(Tasks)] /\ L \in Seq(Tasks)
      /\ ~Linked(c)
  BY <1>1, <1>2, ZombieApart DEF RInv, FInv, IInv, GInv, TypeOK, QueuesType, WindowsUnlinked,
     Windows, Unlinked
<1>4. \A t : Linked(t)' <=> Linked(t) \/ t = c
  BY <1>1, <1>2, <1>3, ZombieApart, LinkLists
<1>5. /\ parent[c] # c /\ parent[c] \in live /\ pc[parent[c]] \notin Gone \ {"exit_lock"}
  BY <1>1, <1>2 DEF RInv, ParentWaits, Gone
<1>6. list'[Zombie] = Append(L, c) /\ DOMAIN L = 1 .. Len(L) /\ Len(L) \in Nat
      /\ DOMAIN list'[Zombie] = 1 .. Len(L) + 1
      /\ list'[Zombie][Len(L) + 1] = c /\ \A k \in 1 .. Len(L) : list'[Zombie][k] = L[k]
  BY <1>1, <1>2, <1>3, ZombieApart, AppendProperties DEF list_add_tail
<1>7. \A k \in 1 .. Len(L) : L[k] \in On(Zombie) /\ Linked(L[k]) /\ L[k] # c
  BY <1>3, <1>6, ZombieApart DEF On, ToSet, Linked
<1>8. \A k \in 1 .. Len(L) : parent[c] # L[k]
  BY <1>5, <1>7, ZombiesDone DEF DeadPoints, Gone
<1> HIDE DEF L
<1>9. \A u \in Tasks : pc'[u] \in TakenPoints \cup PickedPoints => pc'[u] = pc[u] /\ arg'[u] = arg[u]
  BY <1>1, FamilyTypes DEF RInv, TakenPoints, PickedPoints
<1>10. LinkedParents'
  <2>1. \A u \in Tasks : pc[u] \in TakenPoints => arg[u] # parent[c]
    BY <1>5 DEF RInv, FInv, DeadIsDone, DonePoints, Gone
  <2> QED  BY <1>1, <1>4, <1>5, <1>9, <2>1 DEF RInv, LinkedParents
<1>11. ChildrenFirst'
  <2> SUFFICES ASSUME NEW i \in 1 .. Len(L) + 1, NEW j \in 1 .. Len(L) + 1,
                      parent[list'[Zombie][i]] = list'[Zombie][j]
               PROVE  i < j
    BY <1>1, <1>6 DEF ChildrenFirst
  <2>1. CASE i = Len(L) + 1
    BY <1>5, <1>6, <1>8, <2>1
  <2>2. CASE i \in 1 .. Len(L) /\ j = Len(L) + 1
    BY <1>6, <2>2
  <2>3. CASE i \in 1 .. Len(L) /\ j \in 1 .. Len(L)
    BY <1>6, <2>3 DEF RInv, ChildrenFirst, L
  <2> QED  BY <1>6, <2>1, <2>2, <2>3
<1>12. PickedIsHead'
  <2> SUFFICES ASSUME NEW u \in Tasks, pc'[u] \in PickedPoints
               PROVE  arg'[u] = First(list'[Zombie])
    BY DEF PickedIsHead
  <2>1. arg[u] \in On(Zombie) /\ arg[u] = First(L) /\ arg'[u] = arg[u]
    BY <1>9 DEF RInv, FInv, IInv, GInv, ReaperFits, PickedIsHead, PickedPoints, L
  <2>2. L # <<>>
    BY <1>3, <2>1, EmptyList DEF On, L
  <2>3. 1 \in 1 .. Len(L) /\ First(L) = L[1]
    BY <1>3, <2>2 DEF First, L
  <2>4. list'[Zombie] # <<>>
    BY <1>6
  <2> QED  BY <1>6, <2>1, <2>3, <2>4 DEF First
<1> QED  BY <1>10, <1>11, <1>12 DEF OrderInv

\* The interrupt links only the sleeper it has just taken off the sleep list.
LEMMA TickOrder ==
    ASSUME RInv, Counted, Tick \/ SchedTick \/ UNCHANGED vars
    PROVE  OrderInv'
<1>1. UNCHANGED <<live, parent, pc, arg>> /\ FInv
  BY DEF RInv, Tick, SchedTick, TickScan, TickUnlink, TickEnqueue, TickReturn, TickSwitch, vars,
     family
<1>2. list'[Zombie] = list[Zombie] /\ \A t \in Tasks : Linked(t)' => Linked(t) \/ Placed(parent[t])
  <2>1. CASE UNCHANGED queues
    BY <2>1, StillLists DEF queues
  <2>2. CASE TickSwitch
    BY <2>2, RotateLists, ZombieApart DEF TickSwitch, rr_pick_next, family, fields, Counted,
       FInv, IInv, TypeOK, QueuesType
  <2>3. CASE TickUnlink
    <3>1. cursor \in On(Sleep) /\ tq_dequeue(Sleep, cursor) /\ Sleep \in TaskQueues
      BY <2>3, HeadsDiffer DEF TickUnlink, RInv, FInv, IInv, GInv, TickFits
    <3>2. \A t : Linked(t)' <=> Linked(t) /\ t # cursor
      BY <3>1, UnlinkLists
    <3>3. cursor \notin On(Zombie)
      BY <3>1, HeadsDiffer DEF RInv, FInv, IInv, GInv, ListsExact
    <3>4. list'[Zombie] = list[Zombie]
      BY <3>1, <3>3, ZombieApart DEF tq_dequeue, list_del, Drop, On
    <3> QED  BY <3>2, <3>4
  <2>4. CASE TickEnqueue
    <3>1. PICK c \in Tasks : c = cursor
      BY <2>4 DEF TickEnqueue, RInv, FInv, IInv, GInv, TickFits, TypeOK
    <3>2. /\ c \in live /\ ~Linked(c) /\ pc[c] \notin Gone /\ rr_enqueue(c, prio[c])
          /\ \A u \in Tasks : ~InHand(u, c)
      BY <2>4, <3>1 DEF TickEnqueue, RInv, FInv, IInv, GInv, TickFits, Gone, SleepPoints
    <3>3. \A t : Linked(t)' <=> Linked(t) \/ t = c
      BY <3>1, <3>2, EnqueueLists
    <3>4. ~\E u \in Tasks : pc[u] \in NewChildPoints /\ arg[u] = c
      BY <3>2 DEF InHand, NewChildPoints, ForkPoints
    <3>5. Placed(parent[c])
      BY <1>1, <3>1, <3>2, <3>4, ParentPlaced
    <3>6. list \in [Heads -> Seq(Tasks)]
      BY DEF RInv, FInv, IInv, TypeOK, QueuesType
    <3> QED  BY <3>1, <3>2, <3>3, <3>5, <3>6, ZombieApart DEF rr_enqueue, list_add_tail
  <2> QED  BY <2>1, <2>2, <2>3, <2>4 DEF Tick, SchedTick, TickScan, TickReturn, vars
<1> QED  BY <1>1, <1>2, OrderKept DEF OrderInv

\* Every step keeps the order in which the reaper works.
LEMMA NextOrder ==
    ASSUME RInv, Counted, [Next]_vars  PROVE OrderInv'
<1>1. CASE Service /\ ~Reorders
  BY <1>1, OrdinaryOrder DEF OrderInv
<1>2. CASE Reorders
  BY <1>2, CreateOrder, AdoptOrder, ReparentOrder, KillOrder, PickOrder, UnlinkOrder,
     LinkZombieOrder
     DEF Reorders
<1>3. CASE Tick \/ SchedTick \/ Spin \/ UNCHANGED vars
  BY <1>3, TickOrder DEF Spin
<1> QED  BY <1>1, <1>2, <1>3 DEF Next

\* A step marks nobody but an exiting thread a zombie, and wakes no zombie.
LEMMA NextDead ==
    ASSUME RInv, [Next]_vars, FInv'  PROVE DeadZombie'
<1> USE FamilyTypes DEF RInv, DeadZombie, DeadPoints, At, Goto, family, fields
<1>1. CASE KernelThread
  BY <1>1, Constants DEF KernelThread, Create, Adopt, ReturnPid, Acquire, Enqueue, Schedule
<1>2. CASE SleepCall
  BY <1>2 DEF SleepCall, SetSleep, Link, FinishLink, Call, Acquire, Unlock, Dequeue, Schedule
<1>3. CASE WaitCall \/ YieldCall
  BY <1>3 DEF WaitCall, YieldCall, SetStat, Call, Acquire, Dequeue, Schedule
<1>4. CASE ResetPrio
  BY <1>4 DEF ResetPrio, LockSelf, SetPrio, Call, Acquire, Unlock, Enqueue, Dequeue, Schedule
<1>5. CASE Exit
  <2>1. CASE CheckParent
    BY <2>1 DEF CheckParent, MustWake
  <2>2. CASE Link(Zombie, "exit_link", "exit_tqunlock")
    <3>1. irq = "none" /\ stat[current] = "ZOMBIE" /\ UNCHANGED <<stat, live>> /\ pc' = [pc EXCEPT ![current] = "exit_tqunlock"]
      BY <2>2 DEF Link, FInv, IInv, GInv, StatPoints, StatFits, Stats
    <3> QED  BY <3>1
  <2> QED  BY <1>5, <2>1, <2>2 DEF Exit, LockParent, UnlinkSibling, Reparent, SetStat, Call,
              Acquire, Unlock,
                   Enqueue, Dequeue, Schedule
<1>6. CASE KillZombies
  BY <1>6 DEF KillZombies, PickZombie, UnlinkZombie, Kill, Acquire, Unlock, Schedule
<1>7. CASE TickUnlink
  <2>1. cursor \in On(Sleep) /\ stat' = [stat EXCEPT ![cursor] = "READY"] /\ UNCHANGED <<pc, live>>
    BY <1>7 DEF TickUnlink, FInv, IInv, GInv, TickFits
  <2>2. stat[cursor] = "SLEEP"
    BY <2>1, HeadsDiffer DEF FInv, IInv, GInv, ListsExact
  <2> QED  BY <2>1, <2>2
<1>8. CASE Tick \/ TickScan \/ TickEnqueue \/ TickReturn \/ TickSwitch \/ Spin \/ UNCHANGED vars
  BY <1>8 DEF Tick, TickScan, TickEnqueue, TickReturn, TickSwitch, Spin, vars
<1> QED  BY <1>1, <1>2, <1>3, <1>4, <1>5, <1>6, <1>7, <1>8 DEF Next, Service, SchedTick

\* The thread that a switch gives the processor to is in no window.
LEMMA SwitchedOut ==
    ASSUME RInv, FInv', rr_pick_next, current' = PickHead, UNCHANGED <<live, stat, prio>>
    PROVE  pc'[current'] \notin Unlinked
<1>1. Linked(PickHead) /\ PickHead \in live /\ PickHead \in Tasks
      /\ \A h \in Heads : On(h)' = On(h)
  BY PickedIsReady, FamilyTypes DEF RInv, FInv, IInv, GInv
<1>2. PICK c \in Tasks : c = PickHead
  BY <1>1
<1>3. Linked(c)'
  BY <1>1, <1>2 DEF Linked
<1>4. c \in live'
  BY <1>1, <1>2
<1>5. \A t \in live' : Linked(t)' => pc'[t] \notin Unlinked
  BY DEF FInv, IInv, GInv, WindowsUnlinked, Windows
<1> QED  BY <1>2, <1>3, <1>4, <1>5

\* The threads past their own lock are those that were, or the running one
\* that has just taken it.
LEMMA NextGone ==
    ASSUME RInv, [Next]_vars
    PROVE  \A t \in Tasks : pc'[t] \in Gone \ {"exit_lock"} =>
             \/ pc[t] \in Gone \ {"exit_lock"} /\ (t \in live' => t \in live) /\ parent'[t] = parent[t]
             \/ pc'[t] = "exit_reparent"
<1> USE FamilyTypes DEF RInv, At, Goto, family, fields
<1>1. CASE KernelThread /\ ~Adopt
  BY <1>1, Constants DEF KernelThread, Create, ReturnPid, Acquire, Enqueue, Schedule, Gone
<1>2. CASE Adopt
  <2>1. PICK c : c = arg[current]
    OBVIOUS
  <2>2. pc[c] \notin Gone /\ c \in Tasks /\ pc' = [pc EXCEPT ![current] = "fork_rr"] /\ UNCHANGED live
        /\ parent' = [parent EXCEPT ![c] = current] /\ pc[current] = "fork_adopt"
    BY <1>2, <2>1, SchedHands DEF Adopt, FInv, IInv, GInv, PointersSet, InHand, ForkPoints, Gone
  <2> QED  BY <2>2 DEF Gone
<1>3. CASE SleepCall
  BY <1>3 DEF SleepCall, SetSleep, Link, FinishLink, Call, Acquire, Unlock, Dequeue, Schedule,
     Gone
<1>4. CASE WaitCall \/ YieldCall
  BY <1>4 DEF WaitCall, YieldCall, SetStat, Call, Acquire, Dequeue, Schedule, Gone
<1>5. CASE ResetPrio
  BY <1>5 DEF ResetPrio, LockSelf, SetPrio, Call, Acquire, Unlock, Enqueue, Dequeue, Schedule,
     Gone
<1>6. CASE Reparent
  BY <1>6 DEF Reparent, FInv, ChildrenExact, Gone
<1>7. CASE Exit /\ ~Reparent
  BY <1>7 DEF Exit, LockParent, UnlinkSibling, CheckParent, SetStat, Link, Call, Acquire, Unlock,
              Enqueue, Dequeue, Schedule, Gone
<1>8. CASE KillZombies
  BY <1>8 DEF KillZombies, PickZombie, UnlinkZombie, Kill, Acquire, Unlock, Schedule, Gone
<1>9. CASE Tick \/ SchedTick \/ Spin \/ UNCHANGED vars
  BY <1>9 DEF Tick, SchedTick, TickScan, TickUnlink, TickEnqueue, TickReturn, TickSwitch, Spin,
     vars
<1> QED  BY <1>1, <1>2, <1>3, <1>4, <1>5, <1>6, <1>7, <1>8, <1>9 DEF Next, Service

MarkPoints == {"exit_mark", "exit_tq", "exit_link"}

\* A step that leaves the running thread between its parent's lock and the
\* zombie queue moves no other thread and changes no parent.
LEMMA NextMark ==
    ASSUME RInv, [Next]_vars, FInv'
    PROVE  pc'[current'] \in MarkPoints =>
             /\ current' = current /\ UNCHANGED <<live, parent>>
             /\ \A t \in Tasks \ {current} : pc'[t] = pc[t]
             /\ pc[current] \in MarkPoints \cup {"exit_unlockp"}
<1>1. CASE /\ rr_pick_next /\ current' = PickHead /\ UNCHANGED <<live, stat, prio>>
  BY <1>1, SwitchedOut DEF MarkPoints, Unlinked
<1>2. CASE ~(rr_pick_next /\ current' = PickHead /\ UNCHANGED <<live, stat, prio>>)
  <2> USE <1>2, FamilyTypes DEF RInv, At, Goto, family, fields, MarkPoints
  <2>1. CASE KernelThread
    BY <2>1, Constants DEF KernelThread, Create, Adopt, ReturnPid, Acquire, Enqueue, Schedule
  <2>3. CASE SleepCall
    BY <2>3 DEF SleepCall, SetSleep, Link, FinishLink, Call, Acquire, Unlock, Dequeue, Schedule
  <2>4. CASE WaitCall \/ YieldCall
    BY <2>4 DEF WaitCall, YieldCall, SetStat, Call, Acquire, Dequeue, Schedule
  <2>5. CASE ResetPrio
    BY <2>5 DEF ResetPrio, LockSelf, SetPrio, Call, Acquire, Unlock, Enqueue, Dequeue, Schedule
  <2>6. CASE Exit
    BY <2>6 DEF Exit, LockParent, UnlinkSibling, Reparent, CheckParent, SetStat, Link, Call,
       Acquire, Unlock,
                Enqueue, Dequeue, Schedule
  <2>7. CASE KillZombies
    BY <2>7 DEF KillZombies, PickZombie, UnlinkZombie, Kill, Acquire, Unlock, Schedule
  <2>8. CASE Tick \/ SchedTick \/ Spin \/ UNCHANGED vars
    BY <2>8 DEF Tick, SchedTick, TickScan, TickUnlink, TickEnqueue, TickReturn, TickSwitch, Spin,
       vars
  <2> QED  BY <2>1, <2>3, <2>4, <2>5, <2>6, <2>7, <2>8 DEF Next, Service
<1> QED  BY <1>1, <1>2

\* A thread past its parent's lock is not its own parent, and its parent does
\* not run before it is queued.
LEMMA NextWaits ==
    ASSUME RInv, [Next]_vars, FInv'  PROVE ParentWaits'
<1>1. ASSUME NEW t \in live', pc'[t] \in Gone \ {"exit_lock"}  PROVE parent'[t] # t
  <2>1. t \in Tasks
    BY FamilyTypes DEF FInv, IInv, TypeOK
  <2>2. CASE pc[t] \in Gone \ {"exit_lock"} /\ (t \in live' => t \in live) /\ parent'[t] = parent[t]
    BY <1>1, <2>1, <2>2 DEF RInv, ParentWaits
  <2>3. CASE pc'[t] = "exit_reparent"
    BY <2>1, <2>3 DEF FInv, ParentHeld, ParentPoints
  <2> QED  BY <1>1, <2>1, <2>2, <2>3, NextGone
<1>2. ASSUME pc'[current'] \in MarkPoints
      PROVE  parent'[current'] \in live' /\ pc'[parent'[current']] \notin Gone \ {"exit_lock"}
  <2>1. /\ current' = current /\ UNCHANGED <<live, parent>>
        /\ \A t \in Tasks \ {current} : pc'[t] = pc[t]
        /\ pc[current] \in MarkPoints \cup {"exit_unlockp"}
    BY <1>2, NextMark
  <2>2. /\ parent[current] \in live /\ parent[current] # current
        /\ pc[parent[current]] \notin Gone \ {"exit_lock"}
    <3>1. CASE pc[current] \in MarkPoints
      BY <3>1, FamilyTypes DEF RInv, ParentWaits, MarkPoints, Gone
    <3>2. CASE pc[current] = "exit_unlockp"
      BY <3>2, FamilyTypes DEF RInv, FInv, ParentHeld, ParentPoints
    <3> QED  BY <2>1, <3>1, <3>2
  <2> QED  BY <2>1, <2>2, FamilyTypes DEF RInv
<1> QED  BY <1>1, <1>2 DEF ParentWaits, MarkPoints

\* The reaper stays in its loop: every other way into a service starts in a
\* worker's own code or in the idle thread's.
LEMMA NextLoops ==
    ASSUME RInv, [Next]_vars  PROVE ReaperLoops'
<1> USE FamilyTypes, Constants DEF RInv, At, Goto, ReaperLoops, ReapPoints
<1>1. CASE KernelThread
  BY <1>1 DEF KernelThread, Create, Adopt, ReturnPid, Acquire, Enqueue, Schedule
<1>2. CASE SleepCall
  BY <1>2 DEF SleepCall, SetSleep, Link, FinishLink, Call, Acquire, Unlock, Dequeue, Schedule
<1>3. CASE WaitCall \/ YieldCall
  BY <1>3 DEF WaitCall, YieldCall, SetStat, Call, Acquire, Dequeue, Schedule
<1>4. CASE ResetPrio
  BY <1>4 DEF ResetPrio, LockSelf, SetPrio, Call, Acquire, Unlock, Enqueue, Dequeue, Schedule
<1>5. CASE Exit
  BY <1>5 DEF Exit, LockParent, UnlinkSibling, Reparent, CheckParent, SetStat, Link, Call,
     Acquire, Unlock, Enqueue, Dequeue, Schedule
<1>6. CASE KillZombies
  BY <1>6 DEF KillZombies, PickZombie, UnlinkZombie, Kill, Acquire, Unlock, Schedule
<1>7. CASE Tick \/ SchedTick \/ Spin \/ UNCHANGED vars
  BY <1>7 DEF Tick, SchedTick, TickScan, TickUnlink, TickEnqueue, TickReturn, TickSwitch, Spin,
     vars
<1> QED  BY <1>1, <1>2, <1>3, <1>4, <1>5, <1>6, <1>7 DEF Next, Service

CreatorPoints == {"fork_sched", "fork_ret"}

\* A creator that does not run is on its run queue.
LEMMA CreatorIsReady ==
    ASSUME RInv, Counted, irq # "enqueue", NEW u \in Tasks, pc[u] \in CreatorPoints
    PROVE  prio[u] \in Prios /\ list[Run(prio[u])] # <<>>
<1>1. stat[u] = "READY" /\ u \in live /\ pc[u] \notin Unlinked \cup {"wait_sched", "run"}
  BY FamilyTypes DEF RInv, FInv, IInv, GInv, StatPoints, Stats, StatFits, SleepPoints, DeadPoints,
     Running, CreatorPoints, Unlinked
<1>2. ~\E v \in live : Keeper(v, u)
  <2>1. \A v \in Tasks : ~InHand(v, u)
    BY FamilyTypes, SchedHands DEF RInv, FInv, IInv, GInv, CreatorPoints
  <2> QED  BY <1>1, <2>1, FamilyTypes DEF Counted, Keeper, InHand, WakePoints, WokenPoints
<1>3. Linked(u)
  BY <1>1, <1>2, AccountedEach DEF Counted, Accounted
<1>4. \A q \in TaskQueues : u \notin On(q)
  BY <1>1, HeadsDiffer DEF RInv, FInv, IInv, GInv, ListsExact, SemsUnused, TaskQueues
<1>5. PICK p \in Prios : u \in On(Run(p))
  BY <1>3, <1>4 DEF Linked, Heads
<1>6. prio[u] = p
  <2>1. prio[u] \in Prios /\ Run(p) \in Heads
    BY <1>5, HeadsDiffer DEF RInv, FInv, IInv, TypeOK
  <2>2. Run(p) = Run(prio[u])
    BY <1>5, <2>1 DEF RInv, FInv, IInv, GInv, ListsExact
  <2> QED  BY <1>5, <2>1, <2>2, HeadsDiffer
<1>7. On(Run(p)) # {} /\ list[Run(p)] \in Seq(Tasks)
  BY <1>5, HeadsDiffer DEF RInv, FInv, IInv, TypeOK, QueuesType
<1> QED  BY <1>5, <1>6, <1>7, EmptyList DEF On

\* A step that gives the reaper the processor leaves behind only creators
\* whose priority is not above the reaper's.
LEMMA SwitchBehind ==
    ASSUME RInv, Counted, irq # "enqueue", rr_pick_next, current' = PickHead, prio' = prio,
           \A u \in Tasks : pc'[u] \in CreatorPoints => pc[u] \in CreatorPoints
    PROVE  CreatorsBehind'
<1>1. /\ PickPrio \in Prios /\ PickHead \in On(Run(PickPrio))
      /\ \A q \in Prios : list[Run(q)] # <<>> => PickPrio <= q
  BY ListFacts, Constants, PickFinds DEF RInv, FInv, IInv
<1>2. prio[PickHead] = PickPrio
  <2>1. PickHead \in Tasks /\ prio[PickHead] \in Prios
    BY <1>1, HeadsDiffer, ListFacts DEF RInv, FInv, IInv, GInv, Typed
  <2> QED  BY <1>1, <2>1, HeadsDiffer DEF RInv, FInv, IInv, GInv, ListsExact
<1>3. ASSUME NEW u \in Tasks, pc'[u] \in CreatorPoints, current' = Reaper
      PROVE  prio'[u] >= prio'[Reaper]
  <2>1. prio[u] \in Prios /\ list[Run(prio[u])] # <<>>
    BY <1>3, CreatorIsReady
  <2> QED  BY <1>1, <1>2, <1>3, <2>1 DEF Prios
<1> QED  BY <1>3 DEF CreatorsBehind, CreatorPoints

\* A thread gives up the processor in schedule() and nowhere else.
LEMMA ServiceStays ==
    ASSUME Service
    PROVE  /\ irq = "none"
           /\ current' = current \/ \E m \in ScheduleMoves : Schedule(m[1], m[2])
<1> DEFINE Moves == \E m \in ScheduleMoves : Schedule(m[1], m[2])
<1>1. \/ Schedule("fork_sched", "fork_ret") \/ Schedule("sleep_sched", "run")
      \/ Schedule("wait_sched", "run") \/ Schedule("yield_sched", "run")
      \/ Schedule("prio_sched", "run") \/ Schedule("exit_sched", "dead")
      \/ Schedule("reap_sched", "reap_tq")
      => Moves
  <2>1. ASSUME NEW from, NEW to, <<from, to>> \in ScheduleMoves, Schedule(from, to)  PROVE Moves
    BY <2>1
  <2> QED  BY <2>1 DEF ScheduleMoves
<1>2. irq = "none"
  BY DEF Service, KernelThread, SleepCall, WaitCall, YieldCall, ResetPrio, Exit, KillZombies,
     Acquire, Unlock, Call, Enqueue, Dequeue, Schedule, Create, Adopt, ReturnPid, SetSleep,
     Link, FinishLink, SetStat, LockSelf, SetPrio, LockParent, UnlinkSibling, Reparent,
     CheckParent, PickZombie, UnlinkZombie, Kill, At
<1> HIDE DEF Moves
<1>3. current' = current \/ Moves
  <2>1. CASE KernelThread
    BY <1>1, <2>1 DEF KernelThread, Create, Adopt, ReturnPid, Acquire, Enqueue
  <2>2. CASE SleepCall
    BY <1>1, <2>2 DEF SleepCall, SetSleep, Link, FinishLink, Call, Acquire, Unlock, Dequeue
  <2>3. CASE WaitCall \/ YieldCall
    BY <1>1, <2>3 DEF WaitCall, YieldCall, SetStat, Call, Acquire, Dequeue
  <2>4. CASE ResetPrio
    BY <1>1, <2>4 DEF ResetPrio, LockSelf, SetPrio, Call, Acquire, Unlock, Enqueue, Dequeue
  <2>5. CASE Exit
    BY <1>1, <2>5 DEF Exit, LockParent, UnlinkSibling, Reparent, CheckParent, SetStat, Link,
       Call, Acquire, Unlock, Enqueue, Dequeue
  <2>6. CASE KillZombies
    BY <1>1, <2>6 DEF KillZombies, PickZombie, UnlinkZombie, Kill, Acquire, Unlock
  <2> QED  BY <2>1, <2>2, <2>3, <2>4, <2>5, <2>6 DEF Service
<1> QED  BY <1>2, <1>3 DEF Moves

\* What the reaper itself does changes no priority and creates nobody.
LEMMA ReaperAlone ==
    ASSUME RInv, Service, current = Reaper
    PROVE  prio' = prio /\ \A u \in Tasks \ {Reaper} : pc'[u] = pc[u]
<1> USE FamilyTypes, Constants DEF RInv, At, Goto, ReaperLoops, ReapPoints
<1>1. CASE KernelThread
  BY <1>1 DEF KernelThread, Create, Adopt, ReturnPid, Acquire, Enqueue, Schedule
<1>2. CASE SleepCall
  BY <1>2 DEF SleepCall, SetSleep, Link, FinishLink, Call, Acquire, Unlock, Dequeue, Schedule
<1>3. CASE WaitCall \/ YieldCall
  BY <1>3 DEF WaitCall, YieldCall, SetStat, Call, Acquire, Dequeue, Schedule
<1>4. CASE ResetPrio
  BY <1>4 DEF ResetPrio, LockSelf, SetPrio, Call, Acquire, Unlock, Enqueue, Dequeue, Schedule
<1>5. CASE Exit
  BY <1>5 DEF Exit, LockParent, UnlinkSibling, Reparent, CheckParent, SetStat, Link, Call,
     Acquire, Unlock, Enqueue, Dequeue, Schedule
<1>6. CASE KillZombies
  BY <1>6 DEF KillZombies, PickZombie, UnlinkZombie, Kill, Acquire, Unlock, Schedule, fields
<1> QED  BY <1>1, <1>2, <1>3, <1>4, <1>5, <1>6 DEF Service

\* Every step keeps the creators that the reaper runs before behind it.
LEMMA NextBehind ==
    ASSUME RInv, Counted, [Next]_vars  PROVE CreatorsBehind'
<1>1. ASSUME NEW m \in ScheduleMoves, Schedule(m[1], m[2])  PROVE CreatorsBehind'
  <2>1. /\ irq = "none" /\ rr_pick_next /\ current' = PickHead /\ prio' = prio
        /\ pc[current] = m[1] /\ pc' = [pc EXCEPT ![current] = m[2]]
    BY <1>1 DEF Schedule, At, Goto, fields
  <2>2. m[2] \in CreatorPoints => m[1] \in CreatorPoints
    BY DEF ScheduleMoves, CreatorPoints
  <2>3. \A u \in Tasks : pc'[u] \in CreatorPoints => pc[u] \in CreatorPoints
    BY <2>1, <2>2, FamilyTypes DEF RInv
  <2> QED  BY <2>1, <2>3, SwitchBehind
<1>2. CASE Service /\ current' = current
  <2>1. CASE current = Reaper
    <3>1. prio' = prio /\ \A u \in Tasks \ {Reaper} : pc'[u] = pc[u]
      BY <1>2, <2>1, ReaperAlone
    <3>2. prio[Reaper] >= prio[Reaper]
      BY Constants DEF RInv, FInv, IInv, TypeOK, Prios
    <3> QED  BY <2>1, <3>1, <3>2, Constants DEF RInv, CreatorsBehind
  <2> QED  BY <1>2, <2>1 DEF CreatorsBehind
<1>3. CASE TickSwitch
  BY <1>3, SwitchBehind DEF TickSwitch, fields
<1>4. CASE Tick \/ (SchedTick /\ ~TickSwitch) \/ Spin \/ UNCHANGED vars
  BY <1>4 DEF Tick, SchedTick, TickScan, TickUnlink, TickEnqueue, TickReturn, Spin, vars, fields,
     RInv, CreatorsBehind
<1> QED  BY <1>1, <1>2, <1>3, <1>4, ServiceStays DEF Next

-----------------------------------------------------------------------------
(* The theorems about the reaper.                                           *)

\* Every step keeps the order of the reaper.
LEMMA NextReap ==
    ASSUME RInv, Counted, [Next]_vars  PROVE RInv'
<1>1. FInv'
  BY NextFamily DEF RInv
<1>2. ReaperLoops' /\ CreatorsBehind'
  BY NextLoops, NextBehind DEF RInv, Counted
<1> QED  BY <1>1, <1>2, NextOrder, NextDead, NextWaits DEF RInv, OrderInv

\* At first nobody is dead.
LEMMA InitReap ==
    ASSUME Init  PROVE RInv
<1>1. FInv
  BY InitFamily
<1>2. /\ live = {Idle} /\ pc = [t \in Tasks |-> IF t = Idle THEN "boot" ELSE "dead"]
      /\ parent = [t \in Tasks |-> NULL] /\ current = Idle /\ Idle \in Tasks
  BY Constants DEF Init
<1>3. list[Zombie] = <<>>
  BY Constants, InitQueues, ZombieApart DEF Init
<1>4. LinkedParents /\ ChildrenFirst /\ PickedIsHead /\ ParentWaits /\ DeadZombie
  BY <1>1, <1>2, <1>3, FamilyTypes
     DEF LinkedParents, ChildrenFirst, PickedIsHead, ParentWaits, DeadZombie, PickedPoints, Gone,
     DeadPoints,
         FInv, IInv, ListsExact, Linked
<1>5. ReaperLoops /\ CreatorsBehind
  BY <1>2, Constants DEF ReaperLoops, CreatorsBehind
<1> QED  BY <1>1, <1>4, <1>5 DEF RInv

\* The inductive invariant of the reaper: the zombie queue gives a parent to
\* the reaper only after all its children (sched.c:166-196).
THEOREM ReapInvariant == Spec => []RInv
<1>1. Init => RInv
  BY InitReap
<1>2. RInv /\ Counted /\ [Next]_vars => RInv'
  BY NextReap
<1> QED  BY <1>1, <1>2, CountedInvariant, PTL DEF Spec

\* What task_kill is given: a thread that is done, by RInv.
LEMMA KilledIsDone ==
    ASSUME RInv, NEW t, t = arg[current], pc[current] = "reap_kill"
    PROVE  /\ pc[t] \in DonePoints /\ t # current
           /\ \A l \in Locks : lock[l] # t
           /\ children[t] = {} /\ ~Linked(t)
           /\ \A u \in live : Linked(u) => parent[u] # t
           /\ \A u \in live \ {current} : arg[u] = t /\ pc[u] \in Following =>
                pc[u] \in {"fork_sched", "fork_ret"} /\ prio[u] >= prio[Reaper]
<1>1. t \in live /\ t \in Tasks /\ ~Linked(t)
  BY FamilyTypes DEF RInv, FInv, IInv, GInv, ReaperFits
<1>2. pc[t] \in DonePoints /\ t # current
  BY FamilyTypes DEF RInv, FInv, DeadIsDone, TakenPoints, DonePoints
<1>3. \A l \in Locks : lock[l] # t
  BY <1>1, <1>2, FamilyTypes DEF RInv, LockDiscipline, Holds, DonePoints
<1>4. children[t] = {}
  BY <1>1, <1>2, FamilyTypes DEF RInv, FInv, ChildrenExact, DonePoints, Gone
<1>5. \A u \in live : Linked(u) => parent[u] # t
  BY <1>1, FamilyTypes DEF RInv, LinkedParents, TakenPoints
<1>6. ASSUME NEW u \in live, arg[u] = t, pc[u] \in Following
      PROVE  pc[u] \in {"fork_sched", "fork_ret"} /\ prio[u] >= prio[Reaper]
  <2>1. u \in Tasks /\ current = Reaper
    BY FamilyTypes DEF RInv, FInv, IInv, GInv, ReaperFits, ReapPoints
  <2>2. pc[u] \notin ForkPoints
    <3>1. stat[t] = "ZOMBIE"
      BY FamilyTypes DEF RInv, FInv, IInv, GInv, ReaperFits
    <3>2. pc[u] \in ForkPoints => InHand(u, t)
      BY <1>6 DEF InHand
    <3>3. pc[u] \in ForkPoints => pc[u] \notin PostedPoints
      BY DEF ForkPoints, PostedPoints
    <3> QED  BY <1>1, <2>1, <3>1, <3>2, <3>3 DEF RInv, FInv, IInv, GInv, HandsOff
  <2>3. pc[u] \notin ParentPoints
    BY <1>2, <1>6, <2>1 DEF RInv, FInv, ParentHeld, DonePoints, Gone
  <2>4. pc[u] \in {"fork_sched", "fork_ret"}
    BY <1>6, <2>2, <2>3 DEF Following, ForkPoints, ParentPoints
  <2> QED  BY <2>1, <2>4 DEF RInv, CreatorsBehind
<1> QED  BY <1>1, <1>2, <1>3, <1>4, <1>5, <1>6

\* Only task_kill frees a thread.
LEMMA OnlyKillFrees ==
    ASSUME RInv, [Next]_vars, live' # live, ~\E c \in Tasks : live' = live \cup {c}
    PROVE  Kill
<1> USE DEF family
<1>1. CASE KernelThread
  BY <1>1, Constants DEF KernelThread, Create, Adopt, ReturnPid, Acquire, Enqueue, Schedule
<1>2. CASE SleepCall
  BY <1>2 DEF SleepCall, SetSleep, Link, FinishLink, Call, Acquire, Unlock, Dequeue, Schedule
<1>3. CASE WaitCall \/ YieldCall
  BY <1>3 DEF WaitCall, YieldCall, SetStat, Call, Acquire, Dequeue, Schedule
<1>4. CASE ResetPrio
  BY <1>4 DEF ResetPrio, LockSelf, SetPrio, Call, Acquire, Unlock, Enqueue, Dequeue, Schedule
<1>5. CASE Exit
  BY <1>5 DEF Exit, LockParent, UnlinkSibling, Reparent, CheckParent, SetStat, Link, Call,
     Acquire, Unlock,
              Enqueue, Dequeue, Schedule
<1>6. CASE KillZombies
  BY <1>6 DEF KillZombies, PickZombie, UnlinkZombie, Acquire, Unlock, Schedule
<1>7. CASE Tick \/ SchedTick \/ Spin \/ UNCHANGED vars
  BY <1>7 DEF Tick, SchedTick, TickScan, TickUnlink, TickEnqueue, TickReturn, TickSwitch, Spin,
     vars
<1> QED  BY <1>1, <1>2, <1>3, <1>4, <1>5, <1>6, <1>7 DEF Next, Service

\* The page of a thread is freed (task_kill, sched.c:76) when the thread is
\* done, no list leads to it or to a child of it, and nobody will follow a
\* pointer to it but, if its priority is not above the reaper's, its creator.
THEOREM ReapedSafely == Spec => ReapedIsDone
<1> DEFINE Done == \A t \in live \ live' :
                     /\ pc[t] \in {"exit_sched", "dead"} /\ t # current
                     /\ \A l \in Locks : lock[l] # t
                     /\ children[t] = {} /\ ~Linked(t)
                     /\ \A u \in live' : Linked(u) => parent[u] # t
                     /\ \A u \in live' \ {current} : arg[u] = t /\ pc[u] \in Following =>
                          pc[u] \in {"fork_sched", "fork_ret"} /\ prio[u] >= prio[Reaper]
<1>1. ASSUME RInv, [Next]_vars  PROVE [Done]_vars
  <2> SUFFICES ASSUME NEW t \in live \ live'
               PROVE  /\ pc[t] \in {"exit_sched", "dead"} /\ t # current
                      /\ \A l \in Locks : lock[l] # t
                      /\ children[t] = {} /\ ~Linked(t)
                      /\ \A u \in live' : Linked(u) => parent[u] # t
                      /\ \A u \in live' \ {current} : arg[u] = t /\ pc[u] \in Following =>
                           pc[u] \in {"fork_sched", "fork_ret"} /\ prio[u] >= prio[Reaper]
    OBVIOUS
  <2>1. Kill
    BY <1>1, OnlyKillFrees
  <2>2. pc[current] = "reap_kill" /\ live' = live \ {arg[current]}
    BY <2>1 DEF Kill, At
  <2>3. t = arg[current]
    BY <2>2
  <2> QED  BY <1>1, <2>2, <2>3, KilledIsDone DEF DonePoints
<1>2. RInv /\ [Next]_vars => [Done]_vars
  BY <1>1
<1>3. [][Next]_vars /\ []RInv => [][Done]_vars
  BY <1>2, PTL
<1> QED  BY <1>3, ReapInvariant, PTL DEF Spec, ReapedIsDone

-----------------------------------------------------------------------------
(* Every sleeper wakes on time.                                             *)

\* The successor of the k-th thread on a list is the one after it.
LEMMA SuccAt ==
    ASSUME NEW q \in Seq(Tasks), IsInjective(q), NEW k \in 1 .. Len(q)
    PROVE  Succ(q, q[k]) = IF k < Len(q) THEN q[k + 1] ELSE NULL
<1> DEFINE i == CHOOSE j \in DOMAIN q : q[j] = q[k]
<1>1. k \in DOMAIN q /\ i \in DOMAIN q /\ q[i] = q[k]
  OBVIOUS
<1>2. i = k
  BY <1>1 DEF IsInjective
<1>3. Succ(q, q[k]) = IF i < Len(q) THEN q[i + 1] ELSE NULL
  BY DEF Succ
<1> HIDE DEF i
<1> QED  BY <1>2, <1>3

\* The threads on the sleep list, and the counters.
LEMMA SleepTypes ==
    ASSUME FInv
    PROVE  /\ Sleep \in Heads /\ Sleep \in TaskQueues /\ \A p : Run(p) # Sleep
           /\ list[Sleep] \in Seq(Tasks) /\ IsInjective(list[Sleep])
           /\ DOMAIN list[Sleep] = 1 .. Len(list[Sleep]) /\ Len(list[Sleep]) \in Nat
           /\ \A i \in DOMAIN list[Sleep] : list[Sleep][i] \in On(Sleep)
           /\ \A t \in On(Sleep) : /\ \E i \in DOMAIN list[Sleep] : t = list[Sleep][i]
                                   /\ t \in Tasks /\ t \in live /\ Linked(t)
           /\ due \in [Tasks -> Nat] /\ sleep_ticks \in [Tasks -> Nat]
           /\ \A t \in Tasks : sleep_ticks[t] < TickMod
           /\ NULL \notin Tasks
<1>1. /\ Sleep \in Heads /\ Sleep \in TaskQueues /\ \A p : Run(p) # Sleep
  BY HeadsDiffer DEF Run, Sleep
<1>2. list[Sleep] \in Seq(Tasks) /\ IsInjective(list[Sleep])
  BY <1>1, ListFacts DEF FInv, IInv, GInv, QueuesType, NoRepeats
<1>3. \A t \in On(Sleep) : t \in live /\ t \in Tasks /\ Linked(t)
  BY <1>1, ListFacts, FamilyTypes DEF FInv, IInv, GInv
<1>4. /\ due \in [Tasks -> Nat] /\ sleep_ticks \in [Tasks -> Nat]
      /\ \A t \in Tasks : sleep_ticks[t] < TickMod
  BY SchedAssumption DEF FInv, IInv, TypeOK
<1> QED  BY <1>1, <1>2, <1>3, <1>4, FamilyTypes DEF On, ToSet

\* A service changes the counters of no thread that a list leads to.
LEMMA SleepSteps ==
    ASSUME FInv, Service, 0 \notin Durations
    PROVE  /\ irq = "none" /\ irq' = "none"
           /\ \A u \in Tasks : Linked(u) => due'[u] = due[u] /\ sleep_ticks'[u] = sleep_ticks[u]
           /\ \A u \in Tasks : pc'[u] \in {"sleep_tq", "sleep_add"} =>
                \/ due'[u] > 0 /\ sleep_ticks'[u] = due'[u]
                \/ /\ pc[u] \in {"sleep_tq", "sleep_add"}
                   /\ due'[u] = due[u] /\ sleep_ticks'[u] = sleep_ticks[u]
<1>1. pc[current] = "sleep_mark" => ~Linked(current)
  BY FamilyTypes DEF FInv, IInv, GInv, WindowsUnlinked, Windows, Unlinked
<1>2. \A c \in Tasks \ live : ~Linked(c)
  BY ListFacts DEF FInv, IInv, GInv, Linked
<1> USE <1>1, <1>2, FamilyTypes, SleepTypes DEF At, Goto, ticks, cpu, Acquire, Unlock, Enqueue, Dequeue, Schedule, Call
<1>3. CASE KernelThread
  <2>1. CASE ReturnPid
    BY <2>1 DEF ReturnPid
  <2> DEFINE Undisturbed(c) ==
        /\ irq = "none" /\ irq' = "none" /\ due' = due /\ c \notin live
        /\ \A u \in Tasks : u # c => sleep_ticks'[u] = sleep_ticks[u]
        /\ \A u \in Tasks : pc'[u] \in {"sleep_tq", "sleep_add"} =>
             u # c /\ pc[u] \in {"sleep_tq", "sleep_add"}
  <2>2. ASSUME NEW c \in Workers \cup {Reaper}, NEW p \in Prios, NEW from \in {"boot", "run"},
               Create(c, p, from)
        PROVE  Undisturbed(c)
    BY <2>2, Constants DEF Create
  <2>3. CASE \E c \in Workers \cup {Reaper}, p \in Prios, from \in {"boot", "run"} : Create(c, p, from)
    <3>1. PICK c \in Workers \cup {Reaper} : Undisturbed(c)
      <4> HIDE DEF Undisturbed
      <4> QED  BY ONLY <2>2, <2>3
    <3>2. c \in Tasks /\ ~Linked(c)
      BY <3>1, <1>2, Constants
    <3> QED  BY ONLY <3>1, <3>2
  <2>4. CASE Adopt
    BY <2>4 DEF Adopt
  <2>5. CASE \/ Acquire(TaskLock(current), "fork_lock", "fork_adopt")
             \/ Acquire(RR, "fork_rr", "fork_enqueue")
             \/ Enqueue(arg[current], "fork_enqueue", "fork_sched")
             \/ Schedule("fork_sched", "fork_ret")
    BY <2>5
  <2>6. CASE \/ \E c \in Workers : Create(c, InitPrio, "boot")
             \/ \E c \in Workers, p \in Levels : Create(c, p, "run")
             \/ Create(Reaper, DaemonPrio, "run")
    BY <2>3, <2>6, Constants
  <2> QED  BY <1>3, <2>1, <2>4, <2>5, <2>6 DEF KernelThread
<1>4. CASE SetSleep
  <2>1. PICK d \in Durations : /\ sleep_ticks' = [sleep_ticks EXCEPT ![current] = d]
                               /\ due' = [due EXCEPT ![current] = d]
    BY <1>4 DEF SetSleep
  <2>2. d > 0
    BY SchedAssumption
  <2> QED  BY <1>4, <2>1, <2>2 DEF SetSleep
<1>5. CASE SleepCall /\ ~SetSleep
  BY <1>5 DEF SleepCall, Link, FinishLink
<1>6. CASE WaitCall \/ YieldCall
  BY <1>6 DEF WaitCall, YieldCall, SetStat
<1>7. CASE ResetPrio
  BY <1>7 DEF ResetPrio, LockSelf, SetPrio
<1>8. CASE Exit
  BY <1>8 DEF Exit, LockParent, UnlinkSibling, Reparent, CheckParent, SetStat, Link
<1>9. CASE KillZombies
  BY <1>9 DEF KillZombies, PickZombie, UnlinkZombie, Kill
<1> QED  BY <1>3, <1>4, <1>5, <1>6, <1>7, <1>8, <1>9 DEF Service

\* The list a service changes is the sleep list only in sleep itself.
LEMMA SleepListSteps ==
    ASSUME Counted, Service
    PROVE  \/ list'[Sleep] = list[Sleep]
           \/ Link(Sleep, "sleep_add", "sleep_half")
<1> USE SleepTypes DEF Counted
<1>1. CASE UNCHANGED queues
  BY <1>1 DEF queues
<1>2. CASE rr_pick_next
  BY <1>2 DEF rr_pick_next, FInv, IInv, TypeOK, QueuesType
<1>3. ASSUME NEW m \in SelfDequeues, Dequeue(m[1], m[2])  PROVE list'[Sleep] = list[Sleep]
  <2>1. m = <<m[1], m[2]>>
    BY DEF SelfDequeues
  <2>2. irq = "none" /\ pc[current] \in {"sleep_dequeue", "wait_dequeue", "prio_dequeue", "exit_dequeue"}
    BY <1>3, <2>1 DEF Dequeue, At, SelfDequeues
  <2>3. current \notin On(Sleep)
    BY <2>2, RunningIsLinked
  <2> QED  BY <1>3, <2>3 DEF Dequeue, rr_dequeue, list_del, Drop, On
<1>4. CASE \/ Enqueue(arg[current], "fork_enqueue", "fork_sched")
           \/ Enqueue(arg[current], "exit_enqueue", "exit_unlock")
           \/ Enqueue(current, "prio_enqueue", "prio_unlock")
  <2>1. PICK t : rr_enqueue(t, prio[t])
    BY <1>4 DEF Enqueue
  <2>2. PICK p : p = prio[t]
    OBVIOUS
  <2>3. list' = [list EXCEPT ![Run(p)] = Append(@, t)]
    BY <2>1, <2>2 DEF rr_enqueue, list_add_tail
  <2> QED  BY <2>3
<1>5. CASE Link(Zombie, "exit_link", "exit_tqunlock")
  BY <1>5, HeadsDiffer DEF Link, tq_enqueue, list_add_tail, FInv, IInv, TypeOK, QueuesType
<1>6. CASE UnlinkZombie
  <2>1. arg[current] \in On(Zombie)
    BY <1>6, FamilyTypes DEF UnlinkZombie, At, FInv, IInv, GInv, ReaperFits
  <2>2. arg[current] \notin On(Sleep)
    BY <2>1, HeadsDiffer DEF FInv, IInv, GInv, ListsExact
  <2> QED  BY <1>6, <2>2 DEF UnlinkZombie, tq_dequeue, list_del, Drop, On
<1> QED  BY <1>1, <1>2, <1>3, <1>4, <1>5, <1>6, QueueSteps

\* The step of a thread keeps every sleeper on time.
LEMMA ServiceWalks ==
    ASSUME WInv, Counted, Service, 0 \notin Durations  PROVE WInv'
<1> USE SleepTypes, SleepSteps DEF Counted
<1>1. \A t \in Tasks : pc'[t] \in {"sleep_tq", "sleep_add"} => Exact(t)'
  BY DEF WInv, Exact
<1>2. \A t \in On(Sleep) : Exact(t)'
  BY DEF WInv, WalkedTo, Exact
<1>3. WalkedTo(NULL)'
  <2>1. CASE list'[Sleep] = list[Sleep]
    BY <1>2, <2>1 DEF WalkedTo, On
  <2>2. CASE Link(Sleep, "sleep_add", "sleep_half")
    <3>1. PICK c \in Tasks : c = current
      BY FamilyTypes
    <3>2. pc[c] = "sleep_add" /\ UNCHANGED <<due, sleep_ticks>> /\ tq_enqueue(Sleep, c)
      BY <2>2, <3>1 DEF Link, At, ticks
    <3>3. Exact(c)'
      BY <3>2 DEF WInv, Exact
    <3>4. \A t \in On(Sleep)' : t \in On(Sleep) \/ t = c
      BY <3>2, AppendList DEF tq_enqueue, list_add_tail, On, FInv, IInv, TypeOK, QueuesType
    <3> QED  BY <1>2, <3>3, <3>4 DEF WalkedTo
  <2> QED  BY <2>1, <2>2, SleepListSteps
<1> QED  BY <1>1, <1>3 DEF WInv

\* The interrupt arrives: every sleeper is a tick closer, and uncharged.
LEMMA TickWalks ==
    ASSUME WInv, FInv, Tick  PROVE WInv'
<1> USE SleepTypes
<1>1. /\ irq = "none" /\ irq' = "scan" /\ cursor' = First(list[Sleep])
      /\ UNCHANGED <<list, pc, sleep_ticks>>
      /\ due' = [t \in Tasks |-> IF t \in On(Sleep) /\ due[t] > 0 THEN due[t] - 1 ELSE due[t]]
  BY DEF Tick, queues
<1>2. \A t \in On(Sleep) : Uncharged(t)'
  BY <1>1 DEF WInv, WalkedTo, Exact, Uncharged
<1>3. \A t \in Tasks : pc[t] \in {"sleep_tq", "sleep_add"} => t \notin On(Sleep)
  BY DEF FInv, IInv, GInv, WindowsUnlinked, Windows, Unlinked, Running, DeadPoints
<1>4. \A t \in Tasks : pc'[t] \in {"sleep_tq", "sleep_add"} => Exact(t)'
  BY <1>1, <1>3 DEF WInv, Exact
<1>5. WalkedTo(cursor)'
  <2>1. CASE list[Sleep] = <<>>
    BY <1>1, <2>1, EmptyList DEF WalkedTo, First, On
  <2>2. CASE list[Sleep] # <<>>
    <3>1. 1 \in DOMAIN list[Sleep] /\ cursor' = list[Sleep][1] /\ cursor' # NULL
      BY <1>1, <2>2 DEF First
    <3>2. \A i \in DOMAIN list[Sleep] : Uncharged(list[Sleep][i])' /\ ~(i < 1)
      BY <1>1, <1>2
    <3> QED  BY <1>1, <3>1, <3>2 DEF WalkedTo, Uncharged
  <2> QED  BY <2>1, <2>2
<1> QED  BY <1>1, <1>4, <1>5 DEF WInv

\* A number below the modulus is its own remainder.
LEMMA SmallMod ==
    ASSUME NEW m \in Nat, NEW x \in Nat, x < m
    PROVE  x % m = x
OBVIOUS

\* The interrupt charges the thread at its loop variable.
LEMMA ScanWalks ==
    ASSUME WInv, FInv, TickScan  PROVE WInv'
<1>0. PICK L \in Seq(Tasks) : L = list[Sleep]
  BY SleepTypes
<1> USE <1>0, SleepTypes
<1>1. PICK k \in DOMAIN L :
        /\ L[k] = cursor
        /\ \A i \in DOMAIN L : IF i < k THEN Exact(L[i]) ELSE Uncharged(L[i])
  BY DEF TickScan, WInv, WalkedTo
<1>2. PICK c \in Tasks : c = cursor /\ c \in On(Sleep)
  BY <1>1
<1>3. sleep_ticks[c] = due[c] + 1
  BY <1>1, <1>2 DEF Uncharged
<1>4. (sleep_ticks[c] - 1) % TickMod = due[c]
  <2>1. due[c] \in Nat /\ due[c] < TickMod /\ TickMod \in Nat
    BY <1>2, <1>3, SchedAssumption
  <2>2. due[c] % TickMod = due[c]
    BY <2>1, SmallMod
  <2> QED  BY <1>3, <2>1, <2>2
<1>5. /\ irq = "scan" /\ UNCHANGED <<list, pc, due>>
      /\ sleep_ticks' = [sleep_ticks EXCEPT ![c] = due[c]]
      /\ IF due[c] = 0
         THEN irq' = "unlink" /\ temp' = Succ(L, c) /\ cursor' = c
         ELSE irq' = "scan" /\ cursor' = Succ(L, c)
  BY <1>2, <1>4 DEF TickScan, queues
<1>6. Succ(L, c) = IF k < Len(L) THEN L[k + 1] ELSE NULL
  BY <1>1, <1>2, SuccAt
<1>7. \A i \in DOMAIN L : i # k => L[i] # c /\ L[i] \in Tasks
  BY <1>1, <1>2 DEF IsInjective
<1>8. \A i \in DOMAIN L : /\ i < k => Exact(L[i])'
                          /\ i > k => Uncharged(L[i])'
  <2>1. \A t \in Tasks : t # c => due'[t] = due[t] /\ sleep_ticks'[t] = sleep_ticks[t]
    BY <1>5
  <2>2. ASSUME NEW i \in DOMAIN L, i # k
        PROVE  (Exact(L[i]) => Exact(L[i])') /\ (Uncharged(L[i]) => Uncharged(L[i])')
    BY <1>7, <2>1, <2>2 DEF Exact, Uncharged
  <2>3. k \in Int /\ \A i \in DOMAIN L : i \in Int
    BY SMTT(30), <1>1
  <2>4. ASSUME NEW i \in DOMAIN L, i < k  PROVE Exact(L[i])'
    BY <1>1, <2>2, <2>3, <2>4
  <2>5. ASSUME NEW i \in DOMAIN L, i > k  PROVE Uncharged(L[i])'
    BY <1>1, <2>2, <2>3, <2>5
  <2> QED  BY <2>4, <2>5
<1>9. \A t \in Tasks : pc'[t] \in {"sleep_tq", "sleep_add"} => Exact(t)'
  <2>1. \A t \in Tasks : pc[t] \in {"sleep_tq", "sleep_add"} => t # c
    BY <1>2 DEF FInv, IInv, GInv, WindowsUnlinked, Windows, Unlinked
  <2> QED  BY <1>5, <2>1 DEF WInv, Exact
<1>10. CASE due[c] = 0
  <2>1. DueAt(cursor)'
    BY <1>1, <1>2, <1>5, <1>6, <1>8, <1>10 DEF DueAt
  <2> QED  BY <1>5, <1>9, <1>10, <2>1 DEF WInv
<1>11. CASE due[c] # 0
  <2>1. Exact(L[k])'
    BY <1>1, <1>2, <1>5, <1>11 DEF Exact
  <2>2. CASE k < Len(L)
    <3>1. k + 1 \in DOMAIN L /\ cursor' = L[k + 1] /\ cursor' # NULL
      BY SMTT(30), <1>1, <1>5, <1>6, <1>11, <2>2
    <3>2. \A i \in DOMAIN L : IF i < k + 1 THEN Exact(L[i])' ELSE Uncharged(L[i])'
      <4>1. k \in Int /\ \A i \in DOMAIN L : i \in Int
        BY SMTT(30), <1>1
      <4>2. ASSUME NEW i \in DOMAIN L
            PROVE  IF i < k + 1 THEN Exact(L[i])' ELSE Uncharged(L[i])'
        <5>1. i < k \/ i = k \/ i > k
          BY <4>1
        <5> QED  BY SMTT(30), <1>8, <2>1, <4>1, <5>1
      <4> QED  BY <4>2
    <3>3. WalkedTo(cursor)'
      BY <1>5, <3>1, <3>2 DEF WalkedTo
    <3> QED  BY <1>5, <1>9, <1>11, <3>3 DEF WInv
  <2>3. CASE ~(k < Len(L))
    <3>1. \A i \in DOMAIN L : Exact(L[i])'
      BY <1>1, <1>8, <2>1, <2>3
    <3>2. \A t \in On(Sleep) : Exact(t)'
      BY <3>1
    <3>3. cursor' = NULL
      BY <1>5, <1>6, <1>11, <2>3
    <3>4. On(Sleep)' = On(Sleep)
      BY <1>5 DEF On
    <3>5. WalkedTo(cursor)'
      BY <3>2, <3>3, <3>4 DEF WalkedTo
    <3> QED  BY <1>5, <1>9, <1>11, <3>5 DEF WInv
  <2> QED  BY <2>2, <2>3
<1> QED  BY <1>10, <1>11

\* The interrupt takes a thread that is due off the list.
LEMMA UnlinkWalks ==
    ASSUME WInv, FInv, TickUnlink  PROVE WInv'
<1>0. PICK L \in Seq(Tasks) : L = list[Sleep]
  BY SleepTypes
<1>1. PICK k \in DOMAIN L :
        /\ L[k] = cursor /\ due[cursor] = 0
        /\ temp = IF k < Len(L) THEN L[k + 1] ELSE NULL
        /\ \A i \in DOMAIN L : /\ i < k => Exact(L[i])
                               /\ i > k => Uncharged(L[i])
  BY <1>0 DEF TickUnlink, WInv, DueAt
<1>2. PICK c \in Tasks : c = cursor
  BY <1>0, <1>1
<1>3. /\ irq' = "enqueue" /\ UNCHANGED <<pc, due, sleep_ticks, cursor, temp>>
      /\ list'[Sleep] = Drop(L, c)
  BY <1>0, <1>2, SleepTypes DEF TickUnlink, tq_dequeue, list_del, ticks
<1>4. PICK M : M = list'[Sleep]
  OBVIOUS
<1>5. /\ M \in Seq(Tasks) /\ Len(M) = Len(L) - 1
      /\ \A j \in 1 .. Len(L) - 1 : M[j] = IF j < k THEN L[j] ELSE L[j + 1]
  <2>1. c \in ToSet(L)
    BY <1>1, <1>2 DEF ToSet
  <2>2. PICK i \in 1 .. Len(L) :
        /\ L[i] = c
        /\ Drop(L, c) \in Seq(Tasks) /\ Len(Drop(L, c)) = Len(L) - 1
        /\ \A j \in 1 .. Len(L) - 1 : Drop(L, c)[j] = IF j < i THEN L[j] ELSE L[j + 1]
    BY <2>1, DropMember
  <2>3. i = k
    <3>1. IsInjective(L) /\ i \in DOMAIN L
      BY <1>0, <2>2, SleepTypes
    <3>2. L[i] = L[k]
      BY <1>1, <1>2, <2>2
    <3> QED  BY <1>1, <3>1, <3>2 DEF IsInjective
  <2> QED  BY <1>3, <1>4, <2>2, <2>3
<1>6. PICK n \in Nat : n = Len(L)
  OBVIOUS
<1>7. DOMAIN M = 1 .. n - 1 /\ k \in 1 .. n /\ \A i \in 1 .. n : L[i] \in Tasks
  BY <1>1, <1>5, <1>6
<1>8. /\ \A j \in 1 .. n - 1 : j < k => Exact(M[j])'
      /\ \A j \in 1 .. n - 1 : ~(j < k) => Uncharged(M[j])'
  <2>1. ASSUME NEW j \in 1 .. n - 1, j < k  PROVE Exact(M[j])'
    <3>1. j \in DOMAIN L /\ M[j] = L[j]
      BY <1>5, <1>6, <2>1
    <3>2. Exact(L[j])
      BY <1>1, <2>1, <3>1
    <3> QED  BY <1>3, <3>1, <3>2 DEF Exact
  <2>2. ASSUME NEW j \in 1 .. n - 1, ~(j < k)  PROVE Uncharged(M[j])'
    <3>1. j + 1 \in DOMAIN L /\ M[j] = L[j + 1] /\ j + 1 > k
      BY <1>5, <1>6, <1>7, <2>2
    <3>2. Uncharged(L[j + 1])
      BY <1>1, <3>1
    <3> QED  BY <1>3, <3>1, <3>2 DEF Uncharged
  <2> QED  BY <2>1, <2>2
<1>9. WalkedTo(temp)'
  <2>1. CASE k < n
    <3>1. k \in 1 .. n - 1 /\ temp' = M[k] /\ M[k] \in Tasks
      BY <1>1, <1>3, <1>5, <1>6, <1>7, <2>1
    <3>2. temp' # NULL
      BY <3>1, SleepTypes
    <3> QED  BY <1>4, <1>7, <1>8, <3>1, <3>2 DEF WalkedTo
  <2>2. CASE ~(k < n)
    <3>1. temp' = NULL
      BY <1>1, <1>3, <1>6, <2>2
    <3>2. \A j \in DOMAIN M : Exact(M[j])'
      BY <1>7, <1>8, <2>2
    <3> QED  BY <1>4, <3>1, <3>2 DEF WalkedTo, On, ToSet
  <2> QED  BY <2>1, <2>2
<1>10. \A t \in Tasks : pc'[t] \in {"sleep_tq", "sleep_add"} => Exact(t)'
  BY <1>3 DEF WInv, Exact
<1>11. due'[cursor'] = 0
  BY <1>1, <1>3
<1> QED  BY <1>3, <1>9, <1>10, <1>11 DEF WInv

\* The rest of the walk leaves the sleep list alone.
LEMMA RestWalks ==
    ASSUME WInv, FInv, TickEnqueue \/ TickReturn \/ TickSwitch \/ Spin \/ UNCHANGED vars
    PROVE  WInv'
<1> USE SleepTypes DEF WInv, queues, ticks
<1>1. UNCHANGED <<due, sleep_ticks, pc>>
  BY DEF TickEnqueue, TickReturn, TickSwitch, Spin, vars
<1>2. list'[Sleep] = list[Sleep]
  BY DEF TickEnqueue, TickReturn, TickSwitch, Spin, vars, rr_enqueue, list_add_tail,
     rr_pick_next, FInv, IInv,
         TypeOK, QueuesType
<1>3. \A t \in Tasks : pc'[t] \in {"sleep_tq", "sleep_add"} => Exact(t)'
  BY <1>1 DEF Exact
<1>4. /\ WalkedTo(NULL)' <=> WalkedTo(NULL)
      /\ \A c : c = cursor' => (WalkedTo(cursor)' <=> WalkedTo(c))
      /\ \A c : c = temp' => (WalkedTo(temp)' <=> WalkedTo(c))
  BY <1>1, <1>2 DEF WalkedTo, On, Exact, Uncharged
<1>5. UNCHANGED <<cursor, temp>> => (DueAt(cursor)' <=> DueAt(cursor))
  BY <1>1, <1>2 DEF DueAt, Exact, Uncharged
<1>6. CASE TickEnqueue
  BY <1>3, <1>4, <1>6 DEF TickEnqueue
<1>7. CASE TickReturn \/ TickSwitch
  BY <1>3, <1>4, <1>7 DEF TickReturn, TickSwitch
<1>8. CASE Spin \/ UNCHANGED vars
  BY <1>1, <1>3, <1>4, <1>5, <1>8 DEF Spin, vars, cpu
<1> QED  BY <1>6, <1>7, <1>8

\* At first nobody sleeps.
LEMMA InitWalks ==
    ASSUME Init  PROVE WInv
<1>1. On(Sleep) = {}
  BY Constants, InitQueues, HeadsDiffer DEF Init, Run, Sleep
<1> QED  BY <1>1 DEF Init, WInv, WalkedTo

\* If nobody sleeps for zero ticks, a sleeper's counter is the time it still
\* has to sleep whenever the handler is not running, and the handler wakes it
\* at that moment (sched.c:140-150).  Without the hypothesis the statement is
\* false: sleep(0) counts down from 2^32.
THEOREM SleepersOnTime ==
    ASSUME 0 \notin Durations
    PROVE  Spec => []SleepExact
<1>1. Init => WInv
  BY InitWalks
<1>2. WInv /\ Counted /\ [Next]_vars => WInv'
  <2> SUFFICES ASSUME WInv, Counted, [Next]_vars  PROVE WInv'
    OBVIOUS
  <2>1. FInv
    BY DEF Counted
  <2> QED  BY <2>1, ServiceWalks, TickWalks, ScanWalks, UnlinkWalks, RestWalks DEF Next, SchedTick
<1>3. WInv => SleepExact
  BY DEF WInv, WalkedTo, DueAt, Exact, SleepExact
<1> QED  BY <1>1, <1>2, <1>3, CountedInvariant, PTL DEF Spec
=============================================================================
