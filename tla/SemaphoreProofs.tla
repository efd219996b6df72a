-------------------------- MODULE SemaphoreProofs --------------------------
(* Semaphores count and keep their queues: the invariant of SchedInv holds  *)
(* through the steps of sem_wait and sem_post too, until one of them breaks *)
(* the machine, and each count is the number of those that wait for it.     *)
EXTENDS Semaphore, SchedProofs, FiniteSetTheorems

LockPoints == {"semw_add", "semw_unlock", "semp_pick", "semp_del", "semp_unlock"}
SaidPoints == {"semw_tq", "semw_add", "semw_unlock"}
TakerPoints == {"semp_unlock", "semp_stat", "semp_for", "semp_rr", "semp_enqueue"}

\* A thread inside a call has its semaphore, holds the queue's lock where it
\* uses the queue, waits for that semaphore once it has said so, and holds the
\* waiter it has taken off.
CallFits(t) ==
    /\ pc[t] \in SemPoints => sem[t] \in Sems
    /\ pc[t] \in LockPoints => lock[SemQ(sem[t])] = t
    /\ pc[t] \in SaidPoints => wait_for[t] = sem[t]
    /\ pc[t] \in TakerPoints => arg[t] \in Tasks

CallsFit == \A t \in Tasks : CallFits(t)

QueuesCounted == \A s \in Sems : n_tasks[SemQ(s)] = Len(list[SemQ(s)])

Balanced(s) ==
    Cardinality(Waiters(s)) - Cardinality(Posting(s)) = IF count[s] < 0 THEN -count[s] ELSE 0

SemTypes ==
    /\ Typed
    /\ count \in [Sems -> -Cardinality(Tasks) .. MaxCount]
    /\ sem \in [Tasks -> Sems \cup {NULL}]
    /\ broken \in BOOLEAN

\* What holds until the machine breaks, and the inductive invariant.
Sound == GInv /\ CallsFit /\ QueuesCounted /\ \A s \in Sems : Balanced(s)

SInv == SemTypes /\ (~broken => Sound)

-----------------------------------------------------------------------------
(* The steps of sem_wait and sem_post keep the invariant of SchedInv.       *)

\* The statements where a service only takes or frees a lock.
LEMMA SemMoves ==
    /\ Plain("run", "semw_rr")
    /\ Plain("run", "semp_tq")
    /\ Plain("semw_rr", "semw_dequeue")
    /\ Plain("semw_tq", "semw_add")
    /\ Plain("semw_unlock", "semw_sched")
    /\ Plain("semp_tq", "semp_pick")
    /\ Plain("semp_pick", "semp_tq2")
    /\ Plain("semp_tq2", "semp_del")
    /\ Plain("semp_unlock", "semp_stat")
    /\ Plain("semp_rr", "semp_enqueue")
BY DEF Plain, Harmless, SemHarmless, NamedPoints, PostedPoints, Places, Points, SemPoints, Stats,
   StatFits, Windows, Unlinked, DeadPoints, ForkPoints, WakePoints,
       ReapPoints, TakenPoints, PickedPoints, ParentPoints, NewChildPoints, IdlePoints,
       SleepPoints

\* Which queue a thread's call is about.
LEMMA CallQueue ==
    ASSUME GInv, CallsFit, pc[current] \in SemPoints
    PROVE  /\ sem[current] \in Sems /\ Queue = SemQ(sem[current])
           /\ Queue \in TaskQueues /\ Queue \in Heads /\ Queue \in Queues /\ Queue \in Locks
           /\ current \in Tasks /\ current \in live /\ current # Idle
           /\ Queue # RR /\ Queue # Sleep /\ Queue # Zombie /\ \A p \in Prios : Queue # Run(p)
<1>1. current \in Tasks /\ current \in live
  BY DEF GInv, Typed, Running
<1>2. sem[current] \in Sems
  BY <1>1 DEF CallsFit, CallFits
<1>3. current # Idle
  BY DEF GInv, IdleFits, ForkPoints, SemPoints
<1> QED  BY <1>1, <1>2, <1>3, HeadsDiffer DEF Queue, Locks, Queues, RR, Sleep, Zombie, SemQ, Run

\* The atomic part of a call (semaphore.h:28 and 46).
LEMMA CountStep ==
    ASSUME GInv, NEW s \in Sems, NEW c, NEW more \in BOOLEAN, NEW to \in {"semw_rr", "semp_tq"},
           Count(s, c, more, to)
    PROVE  GInv'
<1>1. /\ irq = "none" /\ pc[current] = "run" /\ current \in Workers
      /\ UNCHANGED <<queues, lock, current, arg, family, fields, ticks, cpu>>
      /\ UNCHANGED <<live, stat, prio, wait_for, parent, irq>>
  BY DEF Count, At, family, fields, cpu
<1>2. current \in Tasks /\ pc \in [Tasks -> Places]
  BY DEF GInv, Typed
<1>3. CASE more
  <2>1. Goto(to) /\ Plain("run", to)
    BY <1>3, SemMoves DEF Count
  <2>2. BitmapsExact' /\ ListsExact' /\ SemsWait' /\ Where'
    BY <1>1, <2>1, PlainStep
  <2>3. Typed'
    BY <1>1, <2>1 DEF GInv, Typed, QueuesType, Goto, Plain, Harmless, queues, family, fields,
       ticks, cpu
  <2> QED  BY <2>2, <2>3 DEF GInv, Where
<1>4. CASE ~more
  <2>1. pc' = pc
    BY <1>1, <1>2, <1>4 DEF Count, Goto
  <2> QED  BY <1>1, <2>1, StutterStep DEF vars
<1> QED  BY <1>3, <1>4

\* __sem_wait before the thread is queued and after (semaphore.c:6-9).
LEMMA BlockSelfStep ==
    ASSUME GInv, CallsFit, BlockSelf  PROVE GInv'
<1>1. CASE Acquire(RR, "semw_rr", "semw_dequeue")
  BY <1>1, AcquireStep, SemMoves
<1>2. CASE Dequeue("semw_dequeue", "semw_stat")
  BY <1>2, DequeueStep DEF DequeueMoves
<1>3. CASE SetStat(current, "WAITING", "semw_stat", "semw_for")
  BY <1>3, SetStatStep DEF MarkMoves
<1>4. CASE SetWaitFor(current, sem[current], "semw_for", "semw_tq")
  <2>1. /\ irq = "none" /\ pc[current] = "semw_for" /\ pc' = [pc EXCEPT ![current] = "semw_tq"]
        /\ wait_for' = [wait_for EXCEPT ![current] = sem[current]]
        /\ UNCHANGED <<queues, lock, current, arg, family, stat, prio, ticks, cpu>>
        /\ UNCHANGED <<live, stat, prio, parent, irq>>
    BY <1>4 DEF SetWaitFor, At, Goto, family, cpu
  <2>2. /\ current \in Tasks /\ current \in live /\ pc \in [Tasks -> Places] /\ current # Idle
        /\ wait_for \in [Tasks -> Sems \cup {NULL}] /\ sem[current] \in Sems
        /\ stat[current] \in Stats
    BY <2>1, CallQueue DEF GInv, Typed, SemPoints
  <2>3. /\ QueuesType' /\ BitmapsExact' /\ ListsExact' /\ SemsWait'
        /\ \A h \in Heads : On(h)' = On(h)
    BY <2>1, ListsUnchanged
  <2>4. Harmless("semw_for", "semw_tq") /\ StatFits(stat[current], "semw_tq")
    BY <2>1, <2>2 DEF GInv, StatPoints, Harmless, SemHarmless, NamedPoints, PostedPoints, Places,
       Points, SemPoints, Stats,
       StatFits, Windows, Unlinked, DeadPoints, ForkPoints, WakePoints, ReapPoints, TakenPoints,
       SleepPoints
  <2>5. "semw_tq" \notin ForkPoints \cup WakePoints \cup TakenPoints \cup PickedPoints \cup ParentPoints
        /\ "semw_for" \notin NewChildPoints
    BY DEF ForkPoints, WakePoints, TakenPoints, PickedPoints, ParentPoints, NewChildPoints
  <2>6. pc'[current'] # "run"
    BY <2>1, <2>2
  <2>7. Where'
    BY <2>1, <2>2, <2>3, <2>4, <2>5, <2>6, ControlStep
  <2>8. Typed'
    BY <2>1, <2>2, <2>3, <2>4 DEF GInv, Typed, Harmless, family, ticks, cpu
  <2> QED  BY <2>3, <2>7, <2>8 DEF GInv, Where
<1>5. CASE Acquire(Queue, "semw_tq", "semw_add")
  BY <1>5, AcquireStep, SemMoves
<1>6. CASE Unlock(Queue, "semw_unlock", "semw_sched")
  BY <1>6, UnlockStep, SemMoves
<1> QED  BY <1>1, <1>2, <1>3, <1>4, <1>5, <1>6 DEF BlockSelf

\* The waiter links itself (semaphore.c:9), unless it is linked already.
LEMMA LinkWaiterStep ==
    ASSUME GInv, CallsFit, LinkWaiter, ~broken'  PROVE GInv'
<1>1. /\ irq = "none" /\ pc[current] = "semw_add" /\ tq_enqueue(Queue, current)
      /\ pc' = [pc EXCEPT ![current] = "semw_unlock"]
      /\ UNCHANGED <<lock, current, arg, family, fields, ticks, cpu>>
      /\ UNCHANGED <<live, stat, prio, wait_for, parent, irq>>
  BY DEF LinkWaiter, Link, At, Goto, family, fields, cpu
<1>2. PICK s \in Sems : s = sem[current] /\ Queue = SemQ(s)
  BY <1>1, CallQueue DEF SemPoints
<1>3. PICK q \in TaskQueues : q = Queue
  BY <1>1, CallQueue DEF SemPoints
<1>4. /\ q \in Heads /\ q = SemQ(s) /\ q # Sleep /\ q # Zombie /\ q \notin {Run(p) : p \in Prios}
      /\ current \in Tasks /\ current # Idle /\ pc \in [Tasks -> Places] /\ ~Linked(current)
      /\ current \notin On(q) /\ wait_for[current] = s /\ tq_enqueue(q, current)
  BY <1>1, <1>2, <1>3, CallQueue
     DEF GInv, Typed, SemPoints, LinkWaiter, Linked, CallsFit, CallFits, SaidPoints
<1>5. stat[current] = "WAITING"
  BY <1>1, <1>4 DEF GInv, WaitersFit, HandsOff
<1>6. /\ QueuesType' /\ BitmapsExact' /\ NoRepeats'
      /\ On(q)' = On(q) \cup {current}
      /\ \A h \in Heads \ {q} : On(h)' = On(h)
  BY <1>1, <1>4, ListFacts, TqEnqueue
<1>7. /\ pc[current] \notin ForkPoints \cup WakePoints \cup ReapPoints \cup DeadPoints
      /\ "semw_unlock" \in Places \ (Windows \cup ForkPoints \cup WakePoints \cup ReapPoints \cup ParentPoints)
      /\ StatFits(stat[current], "semw_unlock") /\ irq' = "none"
  BY <1>1, <1>5 DEF Places, SemPoints, ForkPoints, WakePoints, ReapPoints, DeadPoints, Windows,
     Unlinked,
     ParentPoints, StatFits, SleepPoints
<1>8. \A r \in Sems : q = SemQ(r) => r = s
  BY <1>2, <1>4, HeadsDiffer
<1>9. ListsExact' /\ SemsWait' /\ Where'
  BY <1>1, <1>2, <1>4, <1>5, <1>6, <1>7, <1>8, LinkSelf
<1>10. Typed'
  BY <1>1, <1>4, <1>6, <1>7 DEF GInv, Typed, family, fields, ticks, cpu
<1> QED  BY <1>6, <1>9, <1>10 DEF GInv, Where

\* It gives up the processor (semaphore.c:11).
LEMMA SwitchAwayStep ==
    ASSUME GInv, SwitchAway  PROVE GInv'
BY ScheduleStep DEF SwitchAway, ScheduleMoves

\* A post looks up who waits first (semaphore.c:16).
LEMMA PickWaiterStep ==
    ASSUME GInv, CallsFit, PickWaiter  PROVE GInv'
<1> DEFINE w == tq_pick_next(Queue)
<1>1. /\ irq = "none" /\ pc[current] = "semp_pick"
      /\ pc' = [pc EXCEPT ![current] = "semp_tq2"] /\ arg' = [arg EXCEPT ![current] = w]
      /\ UNCHANGED <<queues, current, live, stat, prio, wait_for, parent, irq>>
  BY DEF PickWaiter, At, Goto, family, fields, cpu
<1>2. /\ current \in Tasks /\ current \in live /\ pc \in [Tasks -> Places] /\ current # Idle
      /\ arg \in [Tasks -> Tasks \cup {NULL}] /\ stat[current] \in Stats
  BY <1>1, CallQueue DEF GInv, Typed, SemPoints
<1>3. w \in Tasks \cup {NULL}
  <2>1. list[Queue] \in Seq(Tasks)
    BY <1>1, CallQueue DEF GInv, Typed, QueuesType, SemPoints
  <2> QED  BY <2>1, EmptyList DEF tq_pick_next, First
<1>4. /\ QueuesType' /\ BitmapsExact' /\ ListsExact' /\ SemsWait'
      /\ \A h \in Heads : On(h)' = On(h)
  BY <1>1, ListsUnchanged
<1>5. /\ Harmless("semp_pick", "semp_tq2") /\ StatFits(stat[current], "semp_tq2")
  BY <1>1, <1>2, SemMoves DEF GInv, StatPoints, Plain
<1>6. /\ "semp_tq2" \notin ForkPoints \cup WakePoints \cup TakenPoints \cup PickedPoints \cup ParentPoints
      /\ "semp_pick" \notin NewChildPoints
  BY DEF ForkPoints, WakePoints, TakenPoints, PickedPoints, ParentPoints, NewChildPoints
<1>7. /\ pc'[current'] # "run" /\ \A u \in Tasks \ {current} : arg'[u] = arg[u]
  BY <1>1, <1>2
<1>8. Where'
  BY <1>1, <1>2, <1>4, <1>5, <1>6, <1>7, ControlStep
<1>9. Typed'
  BY <1>1, <1>2, <1>3, <1>4, <1>5 DEF PickWaiter, Release, GInv, Typed, Harmless, family, fields,
     ticks, cpu
<1> QED  BY <1>4, <1>8, <1>9 DEF GInv, Where

\* A post takes the waiter off (semaphore.c:17).  The waiter has released the
\* queue's lock, so it is at the call of schedule() or was switched out there.
LEMMA UnlinkWaiterStep ==
    ASSUME GInv, CallsFit, UnlinkWaiter, ~broken'  PROVE GInv'
<1>1. /\ irq = "none" /\ pc[current] = "semp_del"
      /\ arg[current] \in On(Queue) /\ tq_dequeue(Queue, arg[current])
      /\ pc' = [pc EXCEPT ![current] = "semp_unlock"]
      /\ UNCHANGED <<lock, current, arg, family, fields, ticks, cpu>>
      /\ UNCHANGED <<live, stat, prio, wait_for, parent, irq>>
  BY DEF UnlinkWaiter, At, Goto, family, fields, cpu
<1>2. PICK s \in Sems : s = sem[current] /\ Queue = SemQ(s)
  BY <1>1, CallQueue DEF SemPoints
<1>3. /\ SemQ(s) \in TaskQueues /\ SemQ(s) \in Heads /\ SemQ(s) # Sleep /\ SemQ(s) # Zombie
      /\ \A p \in Prios : Run(p) # SemQ(s)
      /\ current \in Tasks /\ current \in live /\ current # Idle /\ live \subseteq Tasks
      /\ pc \in [Tasks -> Places] /\ stat \in [Tasks -> Stats]
  BY <1>1, <1>2, CallQueue DEF GInv, Typed, SemPoints
<1>4. PICK z \in Tasks : z = arg[current] /\ z \in On(SemQ(s)) /\ tq_dequeue(SemQ(s), z)
  BY <1>1, <1>2, <1>3, ListFacts
<1>5. /\ z \in live /\ stat[z] = "WAITING" /\ Linked(z) /\ wait_for[z] = s
      /\ \A h \in Heads \ {SemQ(s)} : z \notin On(h)
  BY <1>3, <1>4 DEF GInv, ListsExact, SemsWait, WaitersFit, Linked
<1>6. pc[z] \in {"semw_sched", "run"} /\ z # current /\ z # Idle
  <2>1. pc[z] \in {"semw_unlock", "semw_sched", "run"}
    BY <1>4 DEF GInv, WaitersFit
  <2>2. pc[z] # "semw_unlock"
    BY <1>1, <1>2, <1>3, <1>4, <1>5, <2>1 DEF CallsFit, CallFits, LockPoints, SaidPoints,
       SemPoints
  <2>3. z # Idle
    BY <1>5, <1>3, Constants DEF GInv, IdleFits
  <2> QED  BY <1>1, <2>1, <2>2, <2>3
<1>7. /\ QueuesType' /\ BitmapsExact' /\ NoRepeats'
      /\ \A h \in Heads : On(h)' = On(h) \ {z}
  <2>1. \A p \in Prios : z \notin On(Run(p))
    BY <1>3, <1>5, HeadsDiffer
  <2> QED  BY <1>3, <1>4, <2>1, ListFacts, TqDequeue
<1>8. /\ \A t : Linked(t)' <=> Linked(t) /\ t # z
      /\ pc'[current] = "semp_unlock" /\ \A t \in Tasks \ {current} : pc'[t] = pc[t]
  BY <1>1, <1>3, <1>7 DEF Linked
<1>9. /\ \A u, t \in Tasks : InHand(u, t)' /\ u # current => InHand(u, t)
      /\ \A u, t \in Tasks : InHand(u, t)' /\ u = current => t = z
      /\ \A u, t \in Tasks : InHand(u, t) => InHand(u, t)'
  BY <1>1, <1>3, <1>4, <1>8 DEF InHand, ForkPoints, WakePoints
<1>10. Typed'
  BY <1>1, <1>3, <1>7 DEF GInv, Typed, Places, SemPoints, family, fields, ticks, cpu
<1>11. ListsExact' /\ SemsWait'
  BY <1>1, <1>7, HeadsDiffer DEF GInv, ListsExact, SemsWait, NoRepeats
<1>12. WindowsUnlinked'
  BY <1>1, <1>3, <1>8 DEF GInv, WindowsUnlinked, Windows, Unlinked
<1>13. StatPoints'
  <2>1. StatFits(stat[current], "semp_unlock")
    BY <1>1, <1>3 DEF GInv, StatPoints, Stats, StatFits, SleepPoints, DeadPoints
  <2> QED  BY <1>1, <1>8, <2>1 DEF GInv, StatPoints
<1>14. Running'
  BY <1>1, <1>3, <1>8 DEF GInv, Running
<1>15. HandsOff'
  <2>1. ASSUME NEW u \in Tasks, NEW t \in Tasks, InHand(u, t)', u # current
        PROVE  /\ t \in live' /\ ~Linked(t)'
               /\ stat'[t] = IF pc'[u] \in PostedPoints THEN "WAITING" ELSE "READY"
               /\ pc'[u] \in PostedPoints => wait_for'[t] \in Sems
               /\ pc'[t] \in {"run", "reap_tq", "wait_sched", "semw_for", "semw_sched"}
               /\ t # current'
               /\ \A v \in Tasks : InHand(v, t)' => v = u
    <3>1. InHand(u, t) /\ t # current /\ pc'[u] = pc[u] /\ pc'[t] = pc[t] /\ t # z
      BY <1>5, <1>8, <1>9, <2>1 DEF GInv, HandsOff
    <3>2. ASSUME NEW v \in Tasks, InHand(v, t)'  PROVE v = u
      <4>1. v # current
        BY <1>9, <3>1, <3>2
      <4>2. InHand(v, t)
        BY <1>9, <3>2, <4>1
      <4> QED  BY <3>1, <4>2 DEF GInv, HandsOff
    <3> QED  BY <1>1, <1>8, <3>1, <3>2 DEF GInv, HandsOff
  <2>2. /\ z \in live' /\ ~Linked(z)' /\ stat'[z] = "WAITING"
        /\ pc'[current] \in PostedPoints /\ wait_for'[z] \in Sems
        /\ pc'[z] \in {"run", "semw_sched"} /\ z # current'
        /\ \A v \in Tasks : InHand(v, z)' => v = current
    BY <1>1, <1>5, <1>6, <1>8, <1>9 DEF GInv, HandsOff, PostedPoints
  <2>3. ASSUME NEW u \in Tasks, NEW t \in Tasks, InHand(u, t)', u = current
        PROVE  /\ t \in live' /\ ~Linked(t)'
               /\ stat'[t] = IF pc'[u] \in PostedPoints THEN "WAITING" ELSE "READY"
               /\ pc'[u] \in PostedPoints => wait_for'[t] \in Sems
               /\ pc'[t] \in {"run", "reap_tq", "wait_sched", "semw_for", "semw_sched"}
               /\ t # current'
               /\ \A v \in Tasks : InHand(v, t)' => v = u
    <3>1. t = z
      BY <1>9, <2>3
    <3> QED  BY <2>2, <2>3, <3>1
  <2> QED  BY <2>1, <2>3 DEF HandsOff
<1>16. WaitersFit'
  <2>1. ASSUME NEW r \in Sems, NEW t \in On(SemQ(r))'
        PROVE  t \in On(SemQ(r)) /\ t \in Tasks \ {current}
    <3>1. t \in On(SemQ(r)) /\ t \in Tasks
      BY <1>3, <1>7, <2>1, ListFacts, HeadsDiffer
    <3> QED  BY <1>1, <3>1 DEF GInv, WaitersFit
  <2>2. ASSUME NEW t \in Tasks, pc'[t] \in {"semw_for", "semw_tq", "semw_add"}
        PROVE  stat'[t] = "WAITING" \/ Linked(t)' \/ \E u \in Tasks : InHand(u, t)'
    <3>1. t \notin {z, current}
      BY <1>6, <1>8, <2>2
    <3> QED  BY <1>1, <1>8, <1>9, <2>2, <3>1 DEF GInv, WaitersFit
  <2>3. \A t \in Tasks : pc'[t] \in NamedPoints => t # current
    BY <1>8 DEF NamedPoints
  <2> QED  BY <1>1, <1>8, <2>1, <2>2, <2>3 DEF GInv, WaitersFit
<1>17. PointersSet'
  BY <1>1, <1>3, <1>8 DEF GInv, PointersSet, ForkPoints, ParentPoints
<1>18. ReaperFits'
  <2>1. \A u \in Tasks : pc'[u] \in ReapPoints => u # current
    BY <1>8 DEF ReapPoints
  <2>2. \A t \in Tasks : pc[t] \in DeadPoints => pc'[t] = pc[t]
    BY <1>1, <1>8 DEF DeadPoints
  <2> QED  BY <1>1, <1>3, <1>5, <1>7, <1>8, <2>1, <2>2, HeadsDiffer
              DEF GInv, ReaperFits, ReapPoints
<1>19. IdleFits'
  BY <1>3, <1>6, <1>7, <1>8, Constants DEF GInv, IdleFits
<1>20. TickFits'
  BY <1>1 DEF TickFits
<1> QED  BY <1>7, <1>10, <1>11, <1>12, <1>13, <1>14, <1>15, <1>16, <1>17, <1>18, <1>19, <1>20
            DEF GInv

\* A post marks the waiter ready (semaphore.c:18).
LEMMA MarkReadyStep ==
    ASSUME GInv, CallsFit, SetStat(arg[current], "READY", "semp_stat", "semp_for")
    PROVE  GInv'
<1>1. /\ irq = "none" /\ pc[current] = "semp_stat" /\ pc' = [pc EXCEPT ![current] = "semp_for"]
      /\ stat' = [stat EXCEPT ![arg[current]] = "READY"]
      /\ UNCHANGED <<queues, lock, current, arg, family, prio, wait_for, ticks, cpu>>
      /\ UNCHANGED <<live, parent, irq>> /\ UNCHANGED list
  BY DEF SetStat, At, Goto, family, cpu, queues
<1>2. /\ current \in Tasks /\ current \in live /\ current # Idle /\ live \subseteq Tasks
      /\ pc \in [Tasks -> Places] /\ stat \in [Tasks -> Stats]
  BY <1>1, CallQueue DEF GInv, Typed, SemPoints
<1>3. PICK z \in Tasks : z = arg[current] /\ stat' = [stat EXCEPT ![z] = "READY"]
  BY <1>1, <1>2 DEF CallsFit, CallFits, TakerPoints
<1>4. InHand(current, z)
  BY <1>1, <1>3 DEF InHand, WakePoints
<1>5. /\ z \in live /\ ~Linked(z) /\ stat[z] = "WAITING" /\ z # current
      /\ pc[z] \in {"run", "reap_tq", "wait_sched", "semw_for", "semw_sched"}
      /\ \A v \in Tasks : InHand(v, z) => v = current
  BY <1>1, <1>2, <1>4 DEF GInv, HandsOff, PostedPoints
<1>6. /\ \A h \in Heads : On(h)' = On(h) /\ z \notin On(h)
      /\ \A t : Linked(t)' <=> Linked(t)
      /\ QueuesType' /\ BitmapsExact' /\ list' = list
  BY <1>1, <1>5 DEF On, Linked, GInv, Typed, queues, QueuesType, BitmapsExact
<1>7. /\ pc'[current] = "semp_for" /\ \A t \in Tasks \ {current} : pc'[t] = pc[t]
      /\ stat'[z] = "READY" /\ \A t \in Tasks \ {z} : stat'[t] = stat[t]
  BY <1>1, <1>2, <1>3
<1>8. \A u, t \in Tasks : InHand(u, t)' <=> InHand(u, t)
  BY <1>1, <1>7 DEF InHand, ForkPoints, WakePoints
<1>9. Typed'
  BY <1>1, <1>2, <1>3, <1>6 DEF GInv, Typed, Places, SemPoints, Stats, family, ticks, cpu
<1>10. ListsExact' /\ SemsWait'
  <2>1. ASSUME NEW h \in Heads, NEW t \in On(h)'  PROVE t \in On(h) /\ t \in Tasks \ {z} /\ stat'[t] = stat[t]
    BY <1>2, <1>6, <1>7, <2>1, ListFacts
  <2>2. SemsWait'
    BY <2>1, HeadsDiffer DEF GInv, SemsWait
  <2>3. ASSUME NEW h \in Heads
        PROVE  /\ IsInjective(list'[h])
               /\ \A t \in On(h)' :
                    /\ t \in live'
                    /\ \A g \in Heads \ {h} : t \notin On(g)'
                    /\ h \in {Run(p) : p \in Prios} => stat'[t] = "READY" /\ h = Run(prio'[t])
                    /\ h = Sleep => stat'[t] = "SLEEP"
                    /\ h = Zombie => stat'[t] = "ZOMBIE"
    BY <1>1, <1>6, <2>1 DEF GInv, ListsExact
  <2> QED  BY <2>2, <2>3 DEF ListsExact
<1>11. WindowsUnlinked'
  BY <1>1, <1>2, <1>6, <1>7 DEF GInv, WindowsUnlinked, Windows, Unlinked
<1>12. StatPoints'
  <2>1. StatFits(stat[current], "semp_for") /\ StatFits("READY", pc[z])
    BY <1>1, <1>2, <1>5 DEF GInv, StatPoints, Stats, StatFits, SleepPoints, DeadPoints
  <2>2. stat'[current] = stat[current] /\ pc'[z] = pc[z]
    BY <1>2, <1>5, <1>7
  <2>3. \A t \in Tasks \ {current, z} : stat'[t] = stat[t] /\ pc'[t] = pc[t]
    BY <1>7
  <2> QED  BY <1>7, <2>1, <2>2, <2>3 DEF GInv, StatPoints
<1>13. Running'
  BY <1>1, <1>2, <1>7 DEF GInv, Running, DeadPoints
<1>14. HandsOff'
  <2>1. ASSUME NEW u \in Tasks, NEW t \in Tasks, InHand(u, t)'
        PROVE  /\ t \in live' /\ ~Linked(t)'
               /\ stat'[t] = IF pc'[u] \in PostedPoints THEN "WAITING" ELSE "READY"
               /\ pc'[u] \in PostedPoints => wait_for'[t] \in Sems
               /\ pc'[t] \in {"run", "reap_tq", "wait_sched", "semw_for", "semw_sched"}
               /\ t # current'
               /\ \A v \in Tasks : InHand(v, t)' => v = u
    <3>1. InHand(u, t) /\ t # current /\ pc'[t] = pc[t]
      BY <1>7, <1>8, <2>1 DEF GInv, HandsOff
    <3>2. CASE u = current
      <4>1. t = z
        BY <1>3, <3>1, <3>2 DEF InHand
      <4>2. pc'[u] \notin PostedPoints
        BY <1>7, <3>2 DEF PostedPoints
      <4> QED  BY <1>1, <1>5, <1>6, <1>7, <1>8, <3>1, <3>2, <4>1, <4>2
    <3>3. CASE u # current
      <4>1. t # z /\ pc'[u] = pc[u]
        BY <1>5, <1>7, <3>1, <3>3
      <4> QED  BY <1>1, <1>6, <1>7, <1>8, <3>1, <4>1 DEF GInv, HandsOff
    <3> QED  BY <3>2, <3>3
  <2> QED  BY <2>1 DEF HandsOff
<1>15. WaitersFit'
  <2>1. ASSUME NEW r \in Sems, NEW t \in On(SemQ(r))'
        PROVE  t \in On(SemQ(r)) /\ t \in Tasks \ {current}
    <3>1. t \in On(SemQ(r)) /\ t \in Tasks
      BY <1>2, <1>6, <2>1, ListFacts, HeadsDiffer
    <3> QED  BY <1>1, <3>1 DEF GInv, WaitersFit
  <2>2. ASSUME NEW t \in Tasks, pc'[t] \in {"semw_for", "semw_tq", "semw_add"}
        PROVE  stat'[t] = "WAITING" \/ Linked(t)' \/ \E u \in Tasks : InHand(u, t)'
    <3>1. t # current
      BY <1>7, <2>2
    <3>2. CASE t = z
      BY <1>2, <1>4, <1>8, <3>2
    <3>3. CASE t # z
      BY <1>6, <1>7, <1>8, <2>2, <3>1, <3>3 DEF GInv, WaitersFit
    <3> QED  BY <3>2, <3>3
  <2>3. \A t \in Tasks : stat'[t] = "WAITING" /\ pc'[t] \in NamedPoints => t \notin {current, z}
    BY <1>7 DEF NamedPoints
  <2> QED  BY <1>1, <1>7, <2>1, <2>2, <2>3 DEF GInv, WaitersFit
<1>16. PointersSet'
  BY <1>1, <1>2, <1>7 DEF GInv, PointersSet, ForkPoints, ParentPoints
<1>17. ReaperFits'
  <2>1. \A u \in Tasks : pc'[u] \in ReapPoints => u # current
    BY <1>7 DEF ReapPoints
  <2>2. \A t \in Tasks : pc[t] \in DeadPoints => pc'[t] = pc[t]
    BY <1>1, <1>7 DEF DeadPoints
  <2>3. \A t \in Tasks : stat[t] = "ZOMBIE" => stat'[t] = "ZOMBIE"
    BY <1>5, <1>7
  <2> QED  BY <1>1, <1>2, <1>6, <1>7, <2>1, <2>2, <2>3, HeadsDiffer
              DEF GInv, ReaperFits, ReapPoints
<1>18. IdleFits'
  BY <1>2, <1>6, <1>7, Constants DEF GInv, IdleFits
<1>19. TickFits'
  BY <1>1 DEF TickFits
<1> QED  BY <1>6, <1>9, <1>10, <1>11, <1>12, <1>13, <1>14, <1>15, <1>16, <1>17, <1>18, <1>19
            DEF GInv

\* A post clears what the waiter waits for (semaphore.c:19).
LEMMA ClearWaitStep ==
    ASSUME GInv, CallsFit, SetWaitFor(arg[current], NULL, "semp_for", "semp_rr")
    PROVE  GInv'
<1>1. /\ irq = "none" /\ pc[current] = "semp_for" /\ pc' = [pc EXCEPT ![current] = "semp_rr"]
      /\ wait_for' = [wait_for EXCEPT ![arg[current]] = NULL]
      /\ UNCHANGED <<queues, lock, current, arg, family, stat, prio, ticks, cpu>>
      /\ UNCHANGED <<live, stat, prio, parent, irq>>
  BY DEF SetWaitFor, At, Goto, family, cpu
<1>2. /\ current \in Tasks /\ current \in live /\ pc \in [Tasks -> Places] /\ current # Idle
      /\ wait_for \in [Tasks -> Sems \cup {NULL}] /\ stat[current] \in Stats
  BY <1>1, CallQueue DEF GInv, Typed, SemPoints
<1>3. PICK z \in Tasks : z = arg[current] /\ wait_for' = [wait_for EXCEPT ![z] = NULL]
  BY <1>1, <1>2 DEF CallsFit, CallFits, TakerPoints
<1>4. InHand(current, z)
  BY <1>1, <1>3 DEF InHand, WakePoints
<1>5. stat[z] = "READY" /\ z # current
  BY <1>1, <1>2, <1>4 DEF GInv, HandsOff, PostedPoints
<1>6. /\ QueuesType' /\ BitmapsExact' /\ ListsExact' /\ SemsWait'
      /\ \A h \in Heads : On(h)' = On(h)
  BY <1>1, ListsUnchanged
<1>7. Harmless("semp_for", "semp_rr") /\ StatFits(stat[current], "semp_rr")
  BY <1>1, <1>2 DEF GInv, StatPoints, Harmless, SemHarmless, NamedPoints, PostedPoints, Places,
     Points, SemPoints, Stats,
     StatFits, Windows, Unlinked, DeadPoints, ForkPoints, WakePoints, ReapPoints, TakenPoints,
     SleepPoints
<1>8. /\ "semp_rr" \notin PickedPoints \cup ParentPoints \cup ForkPoints
      /\ "semp_for" \notin NewChildPoints
  BY DEF PickedPoints, ParentPoints, NewChildPoints, ForkPoints
<1>9. /\ pc'[current'] # "run"
      /\ \A t \in Tasks \ {current} : stat[t] = "WAITING" => wait_for'[t] = wait_for[t]
      /\ wait_for'[current] = wait_for[current]
  BY <1>1, <1>2, <1>3, <1>5
<1>10. Where'
  BY <1>1, <1>2, <1>6, <1>7, <1>8, <1>9, ControlStep
<1>11. Typed'
  BY <1>1, <1>2, <1>3, <1>6, <1>7 DEF GInv, Typed, Harmless, family, ticks, cpu
<1> QED  BY <1>6, <1>10, <1>11 DEF GInv, Where

\* The steps of a post that change no list (semaphore.c:16-20).
LEMMA WakeWaiterStep ==
    ASSUME GInv, CallsFit, WakeWaiter  PROVE GInv'
<1>1. CASE Acquire(Queue, "semp_tq", "semp_pick")
  BY <1>1, AcquireStep, SemMoves
<1>2. CASE Acquire(Queue, "semp_tq2", "semp_del")
  BY <1>2, AcquireStep, SemMoves
<1>3. CASE Unlock(Queue, "semp_unlock", "semp_stat")
  BY <1>3, UnlockStep, SemMoves
<1>4. CASE SetStat(arg[current], "READY", "semp_stat", "semp_for")
  BY <1>4, MarkReadyStep
<1>5. CASE SetWaitFor(arg[current], NULL, "semp_for", "semp_rr")
  BY <1>5, ClearWaitStep
<1>6. CASE Acquire(RR, "semp_rr", "semp_enqueue")
  BY <1>6, AcquireStep, SemMoves
<1> QED  BY <1>1, <1>2, <1>3, <1>4, <1>5, <1>6 DEF WakeWaiter

\* The waiter goes to the run queue of its priority (semaphore.c:20).
LEMMA EnqueueWaiterStep ==
    ASSUME GInv, CallsFit, EnqueueWaiter  PROVE GInv'
<1>1. arg[current] \in Tasks
  BY CallQueue DEF EnqueueWaiter, At, CallsFit, CallFits, TakerPoints, SemPoints
<1> QED  BY <1>1, EnqueueOther DEF EnqueueWaiter, EnqueueMoves

-----------------------------------------------------------------------------
(* What a step leaves alone: the other calls, and who waits and who posts.  *)

\* Sched takes and frees its own locks only.
LEMMA NextLocks ==
    ASSUME GInv, [Next]_vars, NEW s \in Sems
    PROVE  lock'[SemQ(s)] = lock[SemQ(s)]
<1> DEFINE l == SemQ(s)
<1> SUFFICES lock'[l] = lock[l]
  OBVIOUS
<1>1. /\ l \in Locks /\ l # RR /\ l # Sleep /\ l # Zombie /\ \A t : l # TaskLock(t)
      /\ lock \in [Locks -> Tasks \cup {NULL}]
  BY DEF GInv, Typed, Locks, Queues, TaskQueues, RR, Sleep, Zombie, SemQ, TaskLock
<1> HIDE DEF l
<1>2. CASE KernelThread
  BY <1>1, <1>2 DEF KernelThread, Create, Adopt, ReturnPid, Acquire, Enqueue, Schedule, Release
<1>3. CASE SleepCall
  BY <1>1, <1>3 DEF SleepCall, Call, Acquire, Dequeue, SetSleep, Link, FinishLink, Unlock,
     Schedule, Release
<1>4. CASE WaitCall \/ YieldCall
  BY <1>1, <1>4 DEF WaitCall, YieldCall, Call, Acquire, Dequeue, SetStat, Schedule, Release
<1>5. CASE ResetPrio
  BY <1>1, <1>5 DEF ResetPrio, Call, LockSelf, Acquire, Dequeue, SetPrio, Enqueue, Unlock,
     Schedule, Release
<1>6. CASE Exit
  BY <1>1, <1>6 DEF Exit, Call, Acquire, Dequeue, LockParent, UnlinkSibling, Reparent,
     CheckParent,
     SetStat, Enqueue, Unlock, Link, Schedule, Release
<1>7. CASE KillZombies
  BY <1>1, <1>7 DEF KillZombies, Acquire, PickZombie, Schedule, UnlinkZombie, Unlock, Kill,
     Release
<1>8. CASE Tick \/ SchedTick \/ Spin \/ UNCHANGED vars
  BY <1>8 DEF Tick, SchedTick, TickScan, TickUnlink, TickEnqueue, TickReturn, TickSwitch, Spin,
     vars
<1> QED  BY <1>2, <1>3, <1>4, <1>5, <1>6, <1>7, <1>8 DEF Next, Service

\* Statements of a call that is about to wait, and of a post on its way.
EarlyPoints == {"semw_rr", "semw_dequeue", "semw_stat", "semw_for", "semw_tq", "semw_add"}
ComingPoints == {"semp_tq", "semp_pick", "semp_tq2", "semp_del"}

Waits(t, s) == t \in On(SemQ(s)) \/ (sem[t] = s /\ pc[t] \in EarlyPoints)
Posts(t, s) == sem[t] = s /\ pc[t] \in ComingPoints

\* Only live threads wait and post, finitely many.
LEMMA Callers ==
    ASSUME GInv, NEW s \in Sems
    PROVE  /\ Waiters(s) = {t \in Tasks : Waits(t, s)}
           /\ Posting(s) = {t \in Tasks : Posts(t, s)}
<1>1. /\ live \subseteq Tasks /\ \A t \in Tasks \ live : pc[t] \notin EarlyPoints \cup ComingPoints
      /\ On(SemQ(s)) \subseteq live
  BY ListFacts, HeadsDiffer DEF GInv, Typed, Running, DeadPoints, EarlyPoints, ComingPoints
<1> QED  BY <1>1 DEF Waiters, Posting, Waits, Posts, EarlyPoints, ComingPoints

\* They can be counted.
LEMMA CallersFinite ==
    ASSUME Typed, NEW s \in Sems
    PROVE  /\ IsFiniteSet(Waiters(s)) /\ IsFiniteSet(Posting(s))
           /\ Cardinality(Waiters(s)) \in Nat /\ Cardinality(Posting(s)) \in Nat
           /\ Cardinality(Waiters(s)) <= Cardinality(Tasks) /\ Cardinality(Tasks) \in Nat
<1>1. Waiters(s) \subseteq Tasks /\ Posting(s) \subseteq Tasks
  BY DEF Typed, Waiters, Posting
<1> QED  BY <1>1, SemaphoreAssumption, FS_Subset, FS_CardinalityType

\* A step of Sched neither adds nor removes one.
LEMMA NextCallers ==
    ASSUME GInv, [Next]_vars, UNCHANGED semvars, NEW s \in Sems
    PROVE  Waiters(s)' = Waiters(s) /\ Posting(s)' = Posting(s)
<1>1. GInv' /\ SemsKept
  BY NextInvariant, NextKeeps
<1>2. /\ Waiters(s)' = {t \in Tasks : Waits(t, s)'} /\ Posting(s)' = {t \in Tasks : Posts(t, s)'}
  <2>1. /\ live' \subseteq Tasks
        /\ \A t \in Tasks \ live' : pc'[t] \notin EarlyPoints \cup ComingPoints
        /\ On(SemQ(s))' \subseteq live'
    BY <1>1, HeadsDiffer DEF GInv, Typed, ListsExact, Running, DeadPoints, EarlyPoints,
       ComingPoints
  <2> QED  BY <2>1 DEF Waiters, Posting, Waits, Posts, EarlyPoints, ComingPoints
<1>3. EarlyPoints \subseteq SemPoints /\ ComingPoints \subseteq SemPoints
  BY DEF EarlyPoints, ComingPoints, SemPoints
<1>4. ASSUME NEW t \in Tasks  PROVE (Waits(t, s)' <=> Waits(t, s)) /\ (Posts(t, s)' <=> Posts(t, s))
  BY <1>1, <1>3 DEF SemsKept, Waits, Posts, On, semvars
<1> QED  BY <1>2, <1>4, Callers

\* A step of Sched keeps what CallsFit and QueuesCounted say.
LEMMA NextCalls ==
    ASSUME GInv, CallsFit, QueuesCounted, [Next]_vars, UNCHANGED semvars
    PROVE  CallsFit' /\ QueuesCounted'
<1>1. SemsKept
  BY NextKeeps
<1>2. /\ LockPoints \subseteq SemPoints /\ TakerPoints \subseteq SemPoints
      /\ SaidPoints \subseteq SemPoints
  BY DEF LockPoints, TakerPoints, SemPoints, SaidPoints
<1>3. ASSUME NEW t \in Tasks  PROVE CallFits(t)'
  <2>1. pc'[t] \in SemPoints =>
          /\ pc'[t] = pc[t] /\ arg'[t] = arg[t] /\ wait_for'[t] = wait_for[t]
          /\ sem'[t] = sem[t] /\ sem[t] \in Sems
    BY <1>1 DEF SemsKept, semvars, CallsFit, CallFits
  <2>2. pc'[t] \in SemPoints => lock'[SemQ(sem[t])] = lock[SemQ(sem[t])]
    BY <2>1, NextLocks
  <2> QED  BY <1>2, <2>1, <2>2 DEF CallsFit, CallFits
<1>4. QueuesCounted'
  BY <1>1 DEF SemsKept, QueuesCounted
<1> QED  BY <1>3, <1>4 DEF CallsFit

-----------------------------------------------------------------------------
(* What the steps of sem_wait and sem_post do to the calls and the counts.  *)

\* Who waits for s and who is on its way to it stays, and so does the count.
Still(s) == Waiters(s)' = Waiters(s) /\ Posting(s)' = Posting(s) /\ count'[s] = count[s]

Quiet == \A s \in Sems : Still(s)

\* No lock changes hands but rr's and one that was free or is the running thread's.
LocksKept == \A l \in Locks : l # RR /\ lock[l] \notin {NULL, current} => lock'[l] = lock[l]

\* The other threads' calls are not touched.
OthersKept ==
    \A t \in Tasks \ {current} :
      /\ arg'[t] = arg[t] /\ sem'[t] = sem[t]
      /\ pc[t] \in SaidPoints => wait_for'[t] = wait_for[t]

QueuesKept == \A s \in Sems : list'[SemQ(s)] = list[SemQ(s)] /\ n_tasks'[SemQ(s)] = n_tasks[SemQ(s)]

\* The running thread goes on in its call, which leaves the queues alone.
Advance(from, to) ==
    /\ pc[current] = from /\ pc' = [pc EXCEPT ![current] = to]
    /\ live' = live /\ count' = count
    /\ LocksKept /\ OthersKept /\ QueuesKept

\* Its own call is in order at the next statement.
ArrivesAt(to) ==
    /\ to \in SemPoints => sem'[current] = sem[current]
    /\ to \in LockPoints => lock'[Queue] = current
    /\ to \in SaidPoints => wait_for'[current] = sem[current]
    /\ to \in TakerPoints => arg'[current] \in Tasks

\* Neither statement is where a wait or a post takes effect on the queue.
SameSide(from, to) ==
    /\ from \in SemPoints /\ to \in SemPoints \cup {"run"}
    /\ from \in EarlyPoints <=> to \in EarlyPoints
    /\ from \in ComingPoints <=> to \in ComingPoints

\* A step of the running thread keeps the other threads' calls in order.
LEMMA OthersFit ==
    ASSUME GInv, CallsFit, LocksKept, OthersKept, NEW t \in Tasks \ {current}, pc'[t] = pc[t]
    PROVE  CallFits(t)'
<1>1. CallFits(t)
  BY DEF CallsFit
<1>2. ASSUME pc[t] \in LockPoints  PROVE lock'[SemQ(sem[t])] = t
  <2>1. /\ lock[SemQ(sem[t])] = t /\ sem[t] \in Sems /\ t # NULL /\ t # current
    BY <1>1, <1>2, Constants DEF CallFits, LockPoints, SemPoints
  <2>2. SemQ(sem[t]) # RR /\ SemQ(sem[t]) \in Locks
    BY <2>1 DEF SemQ, RR, Locks, Queues, TaskQueues
  <2> QED  BY <2>1, <2>2 DEF LocksKept
<1> QED  BY <1>1, <1>2 DEF CallFits, OthersKept, SaidPoints

\* The steps that leave the queues of the semaphores alone.
LEMMA CallMove ==
    ASSUME GInv, CallsFit, QueuesCounted,
           NEW from, NEW to, Advance(from, to), SameSide(from, to), ArrivesAt(to)
    PROVE  CallsFit' /\ QueuesCounted' /\ Quiet
<1>1. /\ current \in Tasks /\ pc \in [Tasks -> Places] /\ live \subseteq Tasks
      /\ sem[current] \in Sems /\ Queue = SemQ(sem[current])
      /\ pc[current] = from /\ live' = live /\ count' = count
  BY CallQueue DEF GInv, Typed, Advance, SameSide
<1>2. pc'[current] = to /\ \A t \in Tasks \ {current} : pc'[t] = pc[t]
  BY <1>1 DEF Advance
<1>3. CallsFit'
  <2>1. ASSUME NEW t \in Tasks \ {current}  PROVE CallFits(t)'
    BY <1>2, OthersFit DEF Advance
  <2>2. ASSUME NEW t \in Tasks, t = current  PROVE CallFits(t)'
    <3>1. /\ pc'[t] \in SemPoints => sem'[t] = sem[t] /\ sem[t] \in Sems
          /\ LockPoints \subseteq SemPoints /\ TakerPoints \subseteq SemPoints
          /\ SaidPoints \subseteq SemPoints
      BY <1>1, <1>2, <2>2 DEF LockPoints, TakerPoints, SemPoints, SaidPoints, ArrivesAt
    <3> QED  BY <1>1, <1>2, <2>2, <3>1 DEF CallFits, ArrivesAt, SaidPoints
  <2> QED  BY <2>1, <2>2 DEF CallsFit
<1>4. QueuesCounted'
  BY DEF QueuesCounted, Advance, QueuesKept
<1>5. ASSUME NEW s \in Sems  PROVE Still(s)
  <2>1. EarlyPoints \subseteq SemPoints /\ ComingPoints \subseteq SemPoints
    BY DEF EarlyPoints, ComingPoints, SemPoints
  <2>2. ASSUME NEW t \in live  PROVE (Waits(t, s)' <=> Waits(t, s)) /\ (Posts(t, s)' <=> Posts(t, s))
    BY <1>1, <1>2, <2>1 DEF Waits, Posts, On, Advance, OthersKept, QueuesKept, SameSide, ArrivesAt
  <2> QED  BY <1>1, <2>2 DEF Still, Waiters, Posting, Waits, Posts, EarlyPoints, ComingPoints
<1> QED  BY <1>3, <1>4, <1>5 DEF Quiet

\* What the running thread's call says, at each statement.
LEMMA OwnCall ==
    ASSUME GInv, CallsFit, pc[current] \in SemPoints
    PROVE  /\ sem[current] \in Sems /\ Queue = SemQ(sem[current]) /\ current \in Tasks
           /\ pc[current] \in LockPoints => lock[Queue] = current
           /\ pc[current] \in SaidPoints => wait_for[current] = sem[current]
           /\ pc[current] \in TakerPoints =>
                /\ arg[current] \in Tasks \ {current}
                /\ pc[arg[current]] \notin SaidPoints
           /\ lock \in [Locks -> Tasks \cup {NULL}] /\ Queue \in Locks /\ Queue # RR
           /\ arg \in [Tasks -> Tasks \cup {NULL}] /\ sem[current] # NULL
           /\ pc \in [Tasks -> Places] /\ wait_for \in [Tasks -> Sems \cup {NULL}]
<1>1. /\ sem[current] \in Sems /\ Queue = SemQ(sem[current]) /\ current \in Tasks
      /\ CallFits(current) /\ Queue \in Locks /\ Queue # RR
  BY CallQueue DEF CallsFit
<1>2. ASSUME pc[current] \in TakerPoints
      PROVE  /\ arg[current] \in Tasks \ {current}
             /\ pc[arg[current]] \notin SaidPoints
  <2>1. arg[current] \in Tasks /\ InHand(current, arg[current])
    BY <1>1, <1>2 DEF CallFits, InHand, TakerPoints, WakePoints
  <2> QED  BY <1>1, <2>1 DEF GInv, HandsOff, SaidPoints
<1> QED  BY <1>1, <1>2, Constants DEF CallFits, GInv, Typed

\* The steps of __sem_wait but the one that links the thread.
LEMMA BlockSelfCalls ==
    ASSUME GInv, CallsFit, QueuesCounted, BlockSelf
    PROVE  CallsFit' /\ QueuesCounted' /\ Quiet
<1>1. /\ pc[current] \in SemPoints
      /\ UNCHANGED <<live, arg, count, sem>>
  BY DEF BlockSelf, Acquire, Dequeue, SetStat, SetWaitFor, Unlock, At, family, semvars, SemPoints
<1>2. /\ pc \in [Tasks -> Places] /\ current \in Tasks /\ wait_for \in [Tasks -> Sems \cup {NULL}]
      /\ lock \in [Locks -> Tasks \cup {NULL}] /\ Queue \in Locks /\ Queue # RR
      /\ pc[current] = "semw_unlock" => lock[Queue] = current
  BY <1>1, OwnCall DEF LockPoints
<1>3. CASE Acquire(RR, "semw_rr", "semw_dequeue")
  <2>1. Advance("semw_rr", "semw_dequeue")
    BY <1>1, <1>2, <1>3 DEF Acquire, At, Goto, fields, queues, Advance, LocksKept, OthersKept,
       QueuesKept
  <2>2. SameSide("semw_rr", "semw_dequeue") /\ ArrivesAt("semw_dequeue")
    BY <1>1 DEF SameSide, ArrivesAt, SemPoints, EarlyPoints, ComingPoints, LockPoints,
       SaidPoints, TakerPoints
  <2> QED  BY <2>1, <2>2, CallMove
<1>4. CASE Dequeue("semw_dequeue", "semw_stat")
  <2>1. pc[current] = "semw_dequeue" /\ rr_dequeue(current, prio[current])
    BY <1>4 DEF Dequeue, At
  <2>2. \A s \in Sems : current \notin On(SemQ(s))
    BY <2>1 DEF GInv, WaitersFit
  <2>3. QueuesKept
    BY <2>1, <2>2, OtherLists, NotQueued, HeadsDiffer DEF QueuesKept
  <2>4. Advance("semw_dequeue", "semw_stat")
    BY <1>1, <1>2, <1>4, <2>3 DEF Dequeue, Release, At, Goto, fields, Advance, LocksKept,
       OthersKept
  <2>5. SameSide("semw_dequeue", "semw_stat") /\ ArrivesAt("semw_stat")
    BY <1>1 DEF SameSide, ArrivesAt, SemPoints, EarlyPoints, ComingPoints, LockPoints,
       SaidPoints, TakerPoints
  <2> QED  BY <2>4, <2>5, CallMove
<1>5. CASE SetStat(current, "WAITING", "semw_stat", "semw_for")
  <2>1. Advance("semw_stat", "semw_for")
    BY <1>1, <1>2, <1>5 DEF SetStat, At, Goto, queues, Advance, LocksKept, OthersKept, QueuesKept
  <2>2. SameSide("semw_stat", "semw_for") /\ ArrivesAt("semw_for")
    BY <1>1 DEF SameSide, ArrivesAt, SemPoints, EarlyPoints, ComingPoints, LockPoints,
       SaidPoints, TakerPoints
  <2> QED  BY <2>1, <2>2, CallMove
<1>6. CASE SetWaitFor(current, sem[current], "semw_for", "semw_tq")
  <2>1. Advance("semw_for", "semw_tq")
    BY <1>1, <1>2, <1>6 DEF SetWaitFor, At, Goto, queues, Advance, LocksKept, OthersKept,
       QueuesKept
  <2>2. wait_for'[current] = sem[current]
    BY <1>2, <1>6 DEF SetWaitFor
  <2>3. SameSide("semw_for", "semw_tq") /\ ArrivesAt("semw_tq")
    BY <1>1, <2>2 DEF SameSide, ArrivesAt, SemPoints, EarlyPoints, ComingPoints, LockPoints,
       SaidPoints, TakerPoints
  <2> QED  BY <2>1, <2>3, CallMove
<1>7. CASE Acquire(Queue, "semw_tq", "semw_add")
  <2>1. Advance("semw_tq", "semw_add")
    BY <1>1, <1>2, <1>7 DEF Acquire, At, Goto, fields, queues, Advance, LocksKept, OthersKept,
       QueuesKept
  <2>2. lock'[Queue] = current /\ wait_for'[current] = sem[current]
    BY <1>1, <1>2, <1>7, OwnCall DEF Acquire, At, fields, SaidPoints
  <2>3. SameSide("semw_tq", "semw_add") /\ ArrivesAt("semw_add")
    BY <1>1, <2>2 DEF SameSide, ArrivesAt, SemPoints, EarlyPoints, ComingPoints, LockPoints,
       SaidPoints, TakerPoints
  <2> QED  BY <2>1, <2>3, CallMove
<1>8. CASE Unlock(Queue, "semw_unlock", "semw_sched")
  <2>1. Advance("semw_unlock", "semw_sched")
    BY <1>1, <1>2, <1>8 DEF Unlock, Release, At, Goto, fields, queues, Advance, LocksKept,
       OthersKept, QueuesKept
  <2>2. SameSide("semw_unlock", "semw_sched") /\ ArrivesAt("semw_sched")
    BY <1>1 DEF SameSide, ArrivesAt, SemPoints, EarlyPoints, ComingPoints, LockPoints,
       SaidPoints, TakerPoints
  <2> QED  BY <2>1, <2>2, CallMove
<1> QED  BY <1>3, <1>4, <1>5, <1>6, <1>7, <1>8 DEF BlockSelf

\* The thread leaves its call behind when it gives up the processor.
LEMMA SwitchAwayCalls ==
    ASSUME GInv, CallsFit, QueuesCounted, SemTypes, SwitchAway
    PROVE  CallsFit' /\ QueuesCounted' /\ Quiet
<1>1. /\ pc[current] = "semw_sched" /\ pc' = [pc EXCEPT ![current] = "run"] /\ rr_pick_next
      /\ arg' = [arg EXCEPT ![current] = NULL] /\ sem' = [sem EXCEPT ![current] = NULL]
      /\ UNCHANGED <<lock, live, wait_for, count>>
  BY DEF SwitchAway, Schedule, At, Goto, family, fields
<1>2. /\ QueuesKept
      /\ sem \in [Tasks -> Sems \cup {NULL}] /\ arg \in [Tasks -> Tasks \cup {NULL}]
  BY <1>1, OtherLists, HeadsDiffer DEF QueuesKept, SemTypes, Typed
<1>3. Advance("semw_sched", "run")
  BY <1>1, <1>2 DEF Advance, LocksKept, OthersKept
<1>4. SameSide("semw_sched", "run") /\ ArrivesAt("run")
  BY DEF SameSide, ArrivesAt, SemPoints, EarlyPoints, ComingPoints, LockPoints, SaidPoints,
     TakerPoints
<1> QED  BY <1>3, <1>4, CallMove

\* A post has looked up a waiter, or found none.
LEMMA PickWaiterCalls ==
    ASSUME GInv, CallsFit, QueuesCounted, PickWaiter
    PROVE  CallsFit' /\ QueuesCounted' /\ Quiet
<1>1. /\ pc[current] = "semp_pick" /\ pc' = [pc EXCEPT ![current] = "semp_tq2"]
      /\ arg' = [arg EXCEPT ![current] = tq_pick_next(Queue)]
      /\ lock' = [lock EXCEPT ![Queue] = NULL]
      /\ UNCHANGED <<queues, live, wait_for, count, sem>>
  BY DEF PickWaiter, Release, At, Goto, family, fields, semvars
<1>2. /\ lock[Queue] = current /\ lock \in [Locks -> Tasks \cup {NULL}] /\ Queue \in Locks
      /\ arg \in [Tasks -> Tasks \cup {NULL}] /\ current \in Tasks
  BY <1>1, OwnCall DEF LockPoints, SemPoints
<1>3. Advance("semp_pick", "semp_tq2")
  BY <1>1, <1>2 DEF queues, Advance, LocksKept, OthersKept, QueuesKept
<1>4. SameSide("semp_pick", "semp_tq2") /\ ArrivesAt("semp_tq2")
  BY <1>1 DEF SameSide, ArrivesAt, SemPoints, EarlyPoints, ComingPoints, LockPoints, SaidPoints,
     TakerPoints
<1> QED  BY <1>3, <1>4, CallMove

\* The other steps of __sem_post that move no thread from one list to another.
LEMMA WakeWaiterCalls ==
    ASSUME GInv, CallsFit, QueuesCounted, WakeWaiter
    PROVE  CallsFit' /\ QueuesCounted' /\ Quiet
<1>1. /\ pc[current] \in SemPoints
      /\ UNCHANGED <<live, arg, count, sem>>
  BY DEF WakeWaiter, Acquire, SetStat, SetWaitFor, Unlock, At, family, semvars, SemPoints
<1>2. /\ pc \in [Tasks -> Places] /\ current \in Tasks /\ wait_for \in [Tasks -> Sems \cup {NULL}]
      /\ lock \in [Locks -> Tasks \cup {NULL}] /\ Queue \in Locks /\ Queue # RR
      /\ pc[current] = "semp_unlock" => lock[Queue] = current
      /\ pc[current] \in TakerPoints =>
           arg[current] \in Tasks \ {current} /\ pc[arg[current]] \notin SaidPoints
  BY <1>1, OwnCall DEF LockPoints
<1>3. CASE Acquire(Queue, "semp_tq", "semp_pick")
  <2>1. Advance("semp_tq", "semp_pick")
    BY <1>1, <1>2, <1>3 DEF Acquire, At, Goto, fields, queues, Advance, LocksKept, OthersKept,
       QueuesKept
  <2>2. lock'[Queue] = current
    BY <1>1, <1>2, <1>3 DEF Acquire, At, fields
  <2>3. SameSide("semp_tq", "semp_pick") /\ ArrivesAt("semp_pick")
    BY <1>1, <2>2 DEF SameSide, ArrivesAt, SemPoints, EarlyPoints, ComingPoints, LockPoints,
       SaidPoints, TakerPoints
  <2> QED  BY <2>1, <2>3, CallMove
<1>4. CASE Acquire(Queue, "semp_tq2", "semp_del")
  <2>1. Advance("semp_tq2", "semp_del")
    BY <1>1, <1>2, <1>4 DEF Acquire, At, Goto, fields, queues, Advance, LocksKept, OthersKept,
       QueuesKept
  <2>2. lock'[Queue] = current
    BY <1>1, <1>2, <1>4 DEF Acquire, At, fields
  <2>3. SameSide("semp_tq2", "semp_del") /\ ArrivesAt("semp_del")
    BY <1>1, <2>2 DEF SameSide, ArrivesAt, SemPoints, EarlyPoints, ComingPoints, LockPoints,
       SaidPoints, TakerPoints
  <2> QED  BY <2>1, <2>3, CallMove
<1>5. CASE Unlock(Queue, "semp_unlock", "semp_stat")
  <2>1. Advance("semp_unlock", "semp_stat")
    BY <1>1, <1>2, <1>5 DEF Unlock, Release, At, Goto, fields, queues, Advance, LocksKept,
       OthersKept, QueuesKept
  <2>2. arg[current] \in Tasks
    BY <1>2, <1>5 DEF Unlock, At, TakerPoints
  <2>3. SameSide("semp_unlock", "semp_stat") /\ ArrivesAt("semp_stat")
    BY <1>1, <2>2 DEF SameSide, ArrivesAt, SemPoints, EarlyPoints, ComingPoints, LockPoints,
       SaidPoints, TakerPoints
  <2> QED  BY <2>1, <2>3, CallMove
<1>6. CASE SetStat(arg[current], "READY", "semp_stat", "semp_for")
  <2>1. Advance("semp_stat", "semp_for")
    BY <1>1, <1>2, <1>6 DEF SetStat, At, Goto, queues, Advance, LocksKept, OthersKept, QueuesKept
  <2>2. arg[current] \in Tasks
    BY <1>2, <1>6 DEF SetStat, At, TakerPoints
  <2>3. SameSide("semp_stat", "semp_for") /\ ArrivesAt("semp_for")
    BY <1>1, <2>2 DEF SameSide, ArrivesAt, SemPoints, EarlyPoints, ComingPoints, LockPoints,
       SaidPoints, TakerPoints
  <2> QED  BY <2>1, <2>3, CallMove
<1>7. CASE SetWaitFor(arg[current], NULL, "semp_for", "semp_rr")
  <2>1. arg[current] \in Tasks \ {current} /\ pc[arg[current]] \notin SaidPoints
    BY <1>2, <1>7 DEF SetWaitFor, At, TakerPoints
  <2>2. Advance("semp_for", "semp_rr")
    BY <1>1, <1>2, <1>7, <2>1 DEF SetWaitFor, At, Goto, queues, Advance, LocksKept, OthersKept,
       QueuesKept
  <2>3. SameSide("semp_for", "semp_rr") /\ ArrivesAt("semp_rr")
    BY <1>1, <2>1 DEF SameSide, ArrivesAt, SemPoints, EarlyPoints, ComingPoints, LockPoints,
       SaidPoints, TakerPoints
  <2> QED  BY <2>2, <2>3, CallMove
<1>8. CASE Acquire(RR, "semp_rr", "semp_enqueue")
  <2>1. Advance("semp_rr", "semp_enqueue")
    BY <1>1, <1>2, <1>8 DEF Acquire, At, Goto, fields, queues, Advance, LocksKept, OthersKept,
       QueuesKept
  <2>2. arg[current] \in Tasks
    BY <1>2, <1>8 DEF Acquire, At, TakerPoints
  <2>3. SameSide("semp_rr", "semp_enqueue") /\ ArrivesAt("semp_enqueue")
    BY <1>1, <2>2 DEF SameSide, ArrivesAt, SemPoints, EarlyPoints, ComingPoints, LockPoints,
       SaidPoints, TakerPoints
  <2> QED  BY <2>1, <2>3, CallMove
<1> QED  BY <1>3, <1>4, <1>5, <1>6, <1>7, <1>8 DEF WakeWaiter

\* The post is over once the waiter is on its run queue.
LEMMA EnqueueWaiterCalls ==
    ASSUME GInv, CallsFit, QueuesCounted, SemTypes, EnqueueWaiter
    PROVE  CallsFit' /\ QueuesCounted' /\ Quiet
<1>1. /\ pc[current] = "semp_enqueue" /\ pc' = [pc EXCEPT ![current] = "run"]
      /\ rr_enqueue(arg[current], prio[arg[current]])
      /\ arg' = [arg EXCEPT ![current] = NULL] /\ sem' = [sem EXCEPT ![current] = NULL]
      /\ lock' = [lock EXCEPT ![RR] = NULL]
      /\ UNCHANGED <<live, wait_for, count>>
  BY DEF EnqueueWaiter, Release, At, Goto, family, fields
<1>2. prio[arg[current]] \in Prios
  BY <1>1, OwnCall, NotQueued DEF TakerPoints, SemPoints
<1>3. /\ QueuesKept
      /\ sem \in [Tasks -> Sems \cup {NULL}] /\ arg \in [Tasks -> Tasks \cup {NULL}]
      /\ lock \in [Locks -> Tasks \cup {NULL}]
  BY <1>1, <1>2, OtherLists, HeadsDiffer DEF QueuesKept, SemTypes, Typed
<1>4. Advance("semp_enqueue", "run")
  BY <1>1, <1>3 DEF Advance, LocksKept, OthersKept
<1>5. SameSide("semp_enqueue", "run") /\ ArrivesAt("run")
  BY DEF SameSide, ArrivesAt, SemPoints, EarlyPoints, ComingPoints, LockPoints, SaidPoints,
     TakerPoints
<1> QED  BY <1>4, <1>5, CallMove

\* A thread links itself at the end of its semaphore's queue: it waited before.
LEMMA LinkWaiterCalls ==
    ASSUME GInv, CallsFit, QueuesCounted, LinkWaiter
    PROVE  CallsFit' /\ QueuesCounted' /\ Quiet /\ QueuesType'
<1>1. /\ pc[current] = "semw_add" /\ pc' = [pc EXCEPT ![current] = "semw_unlock"]
      /\ tq_enqueue(Queue, current)
      /\ UNCHANGED <<lock, current, arg, live, wait_for, count, sem>>
  BY DEF LinkWaiter, Link, At, Goto, family, fields
<1>2. PICK s \in Sems : s = sem[current] /\ Queue = SemQ(s)
  BY <1>1, CallQueue DEF SemPoints
<1>3. PICK q \in TaskQueues : q = Queue /\ q = SemQ(s) /\ q \in Heads /\ q \in Queues
  BY <1>1, <1>2, CallQueue DEF SemPoints
<1>4. /\ current \in Tasks /\ current \in live /\ pc \in [Tasks -> Places] /\ QueuesType
      /\ list \in [Heads -> Seq(Tasks)] /\ n_tasks \in [Queues -> Int]
      /\ list' = [list EXCEPT ![q] = Append(@, current)]
      /\ n_tasks' = [n_tasks EXCEPT ![q] = @ + 1] /\ UNCHANGED <<bit_tbl, bit_grp>>
  BY <1>1, <1>3 DEF GInv, Typed, Running, QueuesType, tq_enqueue, list_add_tail
<1>5. /\ list'[q] = Append(list[q], current) /\ \A h \in Heads \ {q} : list'[h] = list[h]
      /\ list[q] \in Seq(Tasks) /\ Append(list[q], current) \in Seq(Tasks)
      /\ Len(Append(list[q], current)) = Len(list[q]) + 1
  BY <1>3, <1>4
<1>6. On(q)' = On(q) \cup {current} /\ \A h \in Heads \ {q} : On(h)' = On(h)
  BY <1>3, <1>4, <1>5, AppendList DEF On
<1>7. QueuesType'
  BY <1>3, <1>4, <1>5 DEF QueuesType
<1>8. QueuesCounted'
  BY <1>2, <1>3, <1>4, <1>5, HeadsDiffer DEF QueuesCounted
<1>9. CallsFit'
  <2>1. ASSUME NEW t \in Tasks \ {current}  PROVE CallFits(t)'
    BY <1>1, <1>4, OthersFit DEF LocksKept, OthersKept
  <2>2. CallFits(current)'
    BY <1>1, <1>4, OwnCall DEF CallFits, SemPoints, LockPoints, SaidPoints, TakerPoints, Queue
  <2> QED  BY <1>1, <2>1, <2>2 DEF CallsFit
<1>10. ASSUME NEW r \in Sems  PROVE Still(r)
  <2>1. r # s => SemQ(r) # q /\ SemQ(r) \in Heads
    BY <1>2, <1>3, HeadsDiffer
  <2>2. ASSUME NEW t \in live  PROVE (Waits(t, r)' <=> Waits(t, r)) /\ (Posts(t, r)' <=> Posts(t, r))
    BY <1>1, <1>2, <1>3, <1>4, <1>6, <2>1 DEF Waits, Posts, EarlyPoints, ComingPoints
  <2> QED  BY <1>1, <2>2 DEF Still, Waiters, Posting, Waits, Posts, EarlyPoints, ComingPoints
<1> QED  BY <1>7, <1>8, <1>9, <1>10 DEF Quiet

\* A post takes a thread off: there is one waiter less and one post less.
Released(s, z) ==
    /\ z \in Waiters(s) /\ Waiters(s)' = Waiters(s) \ {z}
    /\ current \in Posting(s) /\ Posting(s)' = Posting(s) \ {current}
    /\ count'[s] = count[s]
    /\ \A r \in Sems \ {s} : Still(r)

LEMMA UnlinkWaiterCalls ==
    ASSUME GInv, CallsFit, QueuesCounted, UnlinkWaiter, ~broken'
    PROVE  CallsFit' /\ QueuesCounted' /\ \E s \in Sems, z \in Tasks : Released(s, z)
<1>1. /\ pc[current] = "semp_del" /\ pc' = [pc EXCEPT ![current] = "semp_unlock"]
      /\ arg[current] \in On(Queue) /\ tq_dequeue(Queue, arg[current])
      /\ UNCHANGED <<lock, current, arg, live, wait_for, count, sem>>
  BY DEF UnlinkWaiter, At, Goto, family, fields
<1>2. PICK s \in Sems : s = sem[current] /\ Queue = SemQ(s)
  BY <1>1, CallQueue DEF SemPoints
<1>3. PICK q \in TaskQueues : q = SemQ(s) /\ q \in Heads /\ q \in Queues
  BY <1>1, <1>2, CallQueue DEF SemPoints
<1>4. PICK z \in Tasks : z = arg[current] /\ z \in On(q) /\ tq_dequeue(q, z)
  BY <1>1, <1>2, <1>3, ListFacts DEF GInv, Typed
<1>5. /\ current \in Tasks /\ current \in live /\ pc \in [Tasks -> Places]
      /\ list \in [Heads -> Seq(Tasks)] /\ n_tasks \in [Queues -> Int]
      /\ list' = list_del(z) /\ n_tasks' = [n_tasks EXCEPT ![q] = @ - 1]
  BY <1>4 DEF GInv, Typed, Running, QueuesType, tq_dequeue
<1>6. /\ pc[z] \in {"semw_unlock", "semw_sched", "run"} /\ z \in live /\ z # current
      /\ \A h \in Heads \ {q} : z \notin On(h)
  BY <1>1, <1>3, <1>4 DEF GInv, WaitersFit, ListsExact
<1>7. /\ \A h \in Heads : On(h)' = On(h) \ {z}
      /\ \A h \in Heads \ {q} : list'[h] = list[h]
  <2>1. \A p \in Prios : z \notin On(Run(p))
    BY <1>3, <1>6, HeadsDiffer
  <2> QED  BY <1>3, <1>4, <1>6, <2>1, ListFacts, TqDequeue
<1>8. Len(list'[q]) = Len(list[q]) - 1
  <2>1. list'[q] = Drop(list[q], z) /\ list[q] \in Seq(Tasks) /\ z \in ToSet(list[q])
    BY <1>3, <1>4, <1>5 DEF list_del, On
  <2> QED  BY <2>1, DropLength
<1>9. QueuesCounted'
  BY <1>2, <1>3, <1>5, <1>7, <1>8, HeadsDiffer DEF QueuesCounted
<1>10. CallsFit'
  <2>1. ASSUME NEW t \in Tasks \ {current}  PROVE CallFits(t)'
    BY <1>1, <1>5, OthersFit DEF LocksKept, OthersKept
  <2>2. CallFits(current)'
    BY <1>1, <1>2, <1>4, <1>5, OwnCall DEF CallFits, SemPoints, LockPoints, SaidPoints,
       TakerPoints, Queue
  <2> QED  BY <1>1, <2>1, <2>2 DEF CallsFit
<1>11. ASSUME NEW r \in Sems \ {s}  PROVE Still(r)
  <2>1. SemQ(r) # q /\ SemQ(r) \in Heads /\ list'[SemQ(r)] = list[SemQ(r)]
    BY <1>3, <1>7, HeadsDiffer
  <2>2. ASSUME NEW t \in live  PROVE (Waits(t, r)' <=> Waits(t, r)) /\ (Posts(t, r)' <=> Posts(t, r))
    BY <1>1, <1>2, <1>5, <2>1 DEF On, Waits, Posts, EarlyPoints, ComingPoints
  <2> QED  BY <1>1, <2>2 DEF Still, Waiters, Posting, Waits, Posts, EarlyPoints, ComingPoints
<1>12. Released(s, z)
  <2>1. /\ \A t \in live : Waits(t, s)' <=> Waits(t, s) /\ t # z
        /\ \A t \in live : Posts(t, s)' <=> Posts(t, s) /\ t # current
    BY <1>1, <1>2, <1>3, <1>4, <1>5, <1>6, <1>7 DEF Waits, Posts, EarlyPoints, ComingPoints
  <2>2. Waits(z, s) /\ Posts(current, s)
    BY <1>1, <1>2, <1>3, <1>4 DEF Waits, Posts, ComingPoints
  <2> QED  BY <1>1, <1>5, <1>6, <1>11, <2>1, <2>2
           DEF Released, Waiters, Posting, Waits, Posts, EarlyPoints, ComingPoints
<1> QED  BY <1>9, <1>10, <1>12

\* A post that finds its waiter gone takes nobody off.
LEMMA NobodyTaken ==
    ASSUME GInv, UnlinkWaiter, broken', NEW s \in Sems
    PROVE  Waiters(s)' = Waiters(s) /\ count' = count /\ QueuesType'
<1>1. /\ pc[current] = "semp_del" /\ pc' = [pc EXCEPT ![current] = "semp_unlock"]
      /\ UNCHANGED <<queues, live, count, sem>>
  BY DEF UnlinkWaiter, At, Goto, family
<1>2. current \in Tasks /\ pc \in [Tasks -> Places] /\ live \subseteq Tasks /\ QueuesType
  BY DEF GInv, Typed
<1>3. ASSUME NEW t \in live  PROVE Waits(t, s)' <=> Waits(t, s)
  BY <1>1, <1>2 DEF queues, On, Waits, EarlyPoints
<1>4. QueuesType'
  BY <1>1, <1>2 DEF queues, QueuesType
<1> QED  BY <1>1, <1>3, <1>4 DEF Waiters, Waits, EarlyPoints

\* A thread that has to wait is a waiter from the moment it has counted, and a
\* post that has to wake somebody is on its way from then on.
CountsAs(s, more, to) ==
    /\ more /\ to = "semw_rr" =>
         /\ current \notin Waiters(s) /\ Waiters(s)' = Waiters(s) \cup {current}
         /\ Posting(s)' = Posting(s)
    /\ more /\ to = "semp_tq" =>
         /\ current \notin Posting(s) /\ Posting(s)' = Posting(s) \cup {current}
         /\ Waiters(s)' = Waiters(s)
    /\ ~more => Waiters(s)' = Waiters(s) /\ Posting(s)' = Posting(s)

LEMMA CountCalls ==
    ASSUME GInv, CallsFit, QueuesCounted, SemTypes,
           NEW s \in Sems, NEW c, NEW more \in BOOLEAN, NEW to \in {"semw_rr", "semp_tq"},
           Count(s, c, more, to)
    PROVE  /\ CallsFit' /\ QueuesCounted' /\ CountsAs(s, more, to)
           /\ \A r \in Sems \ {s} : Still(r)
           /\ count' = [count EXCEPT ![s] = c] /\ sem' \in [Tasks -> Sems \cup {NULL}]
<1>1. /\ pc[current] = "run" /\ pc' = [pc EXCEPT ![current] = IF more THEN to ELSE "run"]
      /\ sem' = [sem EXCEPT ![current] = IF more THEN s ELSE NULL]
      /\ count' = [count EXCEPT ![s] = c]
      /\ UNCHANGED <<list, n_tasks, lock, current, arg, live, wait_for>>
  BY DEF Count, At, Goto, family, fields, queues
<1>2. /\ current \in Tasks /\ current \in live /\ live \subseteq Tasks /\ pc \in [Tasks -> Places]
      /\ sem \in [Tasks -> Sems \cup {NULL}] /\ count \in [Sems -> Int] /\ stat[current] = "READY"
  BY <1>1 DEF GInv, Typed, Running, SemTypes
<1>3. /\ \A r \in Sems : current \notin On(SemQ(r)) /\ On(SemQ(r))' = On(SemQ(r))
  BY <1>1, <1>2, NotQueued DEF On
<1>4. QueuesCounted'
  BY <1>1 DEF QueuesCounted
<1>5. CallsFit'
  <2>1. ASSUME NEW t \in Tasks \ {current}  PROVE CallFits(t)'
    BY <1>1, <1>2, OthersFit DEF LocksKept, OthersKept
  <2>2. CallFits(current)'
    BY <1>1, <1>2 DEF CallFits, SemPoints, LockPoints, SaidPoints, TakerPoints
  <2> QED  BY <1>1, <2>1, <2>2 DEF CallsFit
<1>6. ASSUME NEW r \in Sems \ {s}  PROVE Still(r)
  <2>1. ASSUME NEW t \in live  PROVE (Waits(t, r)' <=> Waits(t, r)) /\ (Posts(t, r)' <=> Posts(t, r))
    BY <1>1, <1>2, <1>3, Constants DEF Waits, Posts, EarlyPoints, ComingPoints
  <2> QED  BY <1>1, <1>2, <2>1 DEF Still, Waiters, Posting, Waits, Posts, EarlyPoints,
              ComingPoints
<1>7. CountsAs(s, more, to)
  <2>1. ~Waits(current, s) /\ ~Posts(current, s)
    BY <1>1, <1>3 DEF Waits, Posts, EarlyPoints, ComingPoints
  <2>2. /\ \A t \in live \ {current} : (Waits(t, s)' <=> Waits(t, s)) /\ (Posts(t, s)' <=> Posts(t, s))
        /\ Waits(current, s)' <=> more /\ to = "semw_rr"
        /\ Posts(current, s)' <=> more /\ to = "semp_tq"
    BY <1>1, <1>2, <1>3, Constants DEF Waits, Posts, EarlyPoints, ComingPoints
  <2>3. /\ Waiters(s) = {t \in live : Waits(t, s)} /\ Posting(s) = {t \in live : Posts(t, s)}
        /\ Waiters(s)' = {t \in live : Waits(t, s)'} /\ Posting(s)' = {t \in live : Posts(t, s)'}
    BY <1>1 DEF Waiters, Posting, Waits, Posts, EarlyPoints, ComingPoints
  <2>4. Waiters(s)' = IF more /\ to = "semw_rr" THEN Waiters(s) \cup {current} ELSE Waiters(s)
    BY <1>1, <1>2, <2>1, <2>2, <2>3
  <2>5. Posting(s)' = IF more /\ to = "semp_tq" THEN Posting(s) \cup {current} ELSE Posting(s)
    BY <1>1, <1>2, <2>1, <2>2, <2>3
  <2>6. current \notin Waiters(s) /\ current \notin Posting(s)
    BY <2>1, <2>3
  <2> QED  BY <2>4, <2>5, <2>6 DEF CountsAs
<1>8. sem' \in [Tasks -> Sems \cup {NULL}]
  BY <1>1, <1>2
<1> QED  BY <1>1, <1>4, <1>5, <1>6, <1>7, <1>8

-----------------------------------------------------------------------------
(* What that means for the counts.                                           *)

LEMMA StillBalanced ==
    ASSUME NEW s \in Sems, Balanced(s), Still(s)  PROVE Balanced(s)'
BY DEF Balanced, Still

\* A wait that blocks and a post that wakes change the count and the threads
\* together; the others leave the threads alone (semaphore.h:28 and 46).
LEMMA WaitBalanced ==
    ASSUME SemTypes, NEW s \in Sems, Balanced(s),
           CountsAs(s, MustBlock(count[s] - 1), "semw_rr"), count' = [count EXCEPT ![s] = count[s] - 1]
    PROVE  Balanced(s)'
<1>1. /\ IsFiniteSet(Waiters(s)) /\ Cardinality(Waiters(s)) \in Nat /\ Cardinality(Posting(s)) \in Nat
      /\ count[s] \in Int /\ count'[s] = count[s] - 1
  BY CallersFinite, SemaphoreAssumption DEF SemTypes
<1>2. CASE count[s] - 1 < 0
  <2>1. Cardinality(Waiters(s)') = Cardinality(Waiters(s)) + 1 /\ Posting(s)' = Posting(s)
    BY <1>1, <1>2, FS_AddElement DEF CountsAs, MustBlock
  <2> QED  BY <1>1, <1>2, <2>1 DEF Balanced
<1>3. CASE ~(count[s] - 1 < 0)
  <2>1. Waiters(s)' = Waiters(s) /\ Posting(s)' = Posting(s)
    BY <1>3 DEF CountsAs, MustBlock
  <2> QED  BY <1>1, <1>3, <2>1 DEF Balanced
<1> QED  BY <1>2, <1>3

LEMMA PostBalanced ==
    ASSUME SemTypes, NEW s \in Sems, Balanced(s),
           CountsAs(s, MustPost(count[s] + 1), "semp_tq"), count' = [count EXCEPT ![s] = count[s] + 1]
    PROVE  Balanced(s)'
<1>1. /\ IsFiniteSet(Posting(s)) /\ Cardinality(Waiters(s)) \in Nat /\ Cardinality(Posting(s)) \in Nat
      /\ count[s] \in Int /\ count'[s] = count[s] + 1
  BY CallersFinite, SemaphoreAssumption DEF SemTypes
<1>2. CASE count[s] + 1 <= 0
  <2>1. Cardinality(Posting(s)') = Cardinality(Posting(s)) + 1 /\ Waiters(s)' = Waiters(s)
    BY <1>1, <1>2, FS_AddElement DEF CountsAs, MustPost
  <2> QED  BY <1>1, <1>2, <2>1 DEF Balanced
<1>3. CASE ~(count[s] + 1 <= 0)
  <2>1. Waiters(s)' = Waiters(s) /\ Posting(s)' = Posting(s)
    BY <1>3 DEF CountsAs, MustPost
  <2> QED  BY <1>1, <1>3, <2>1 DEF Balanced
<1> QED  BY <1>2, <1>3

LEMMA ReleaseBalanced ==
    ASSUME Typed, NEW s \in Sems, NEW z, Balanced(s), Released(s, z), count[s] \in Int
    PROVE  Balanced(s)'
<1>1. /\ IsFiniteSet(Waiters(s)) /\ IsFiniteSet(Posting(s))
      /\ Cardinality(Waiters(s)) \in Nat /\ Cardinality(Posting(s)) \in Nat
  BY CallersFinite
<1>2. /\ Cardinality(Waiters(s)') = Cardinality(Waiters(s)) - 1
      /\ Cardinality(Posting(s)') = Cardinality(Posting(s)) - 1 /\ count'[s] = count[s]
  BY <1>1, FS_RemoveElement DEF Released
<1> QED  BY <1>1, <1>2 DEF Balanced

-----------------------------------------------------------------------------
(* Every step keeps the invariant.                                           *)

\* The types of what the services add, from what a step does to them.
LEMMA CountsTyped ==
    ASSUME SemTypes, Typed', count' = count, broken' \in BOOLEAN,
           \/ sem' = sem
           \/ sem' = [sem EXCEPT ![current] = NULL]
    PROVE  SemTypes'
BY DEF SemTypes

\* The steps that neither count nor move a thread from or to a queue.
LEMMA QuietSteps ==
    ASSUME SemTypes, Sound,
           \/ Next /\ UNCHANGED semvars
           \/ BlockSelf \/ SwitchAway \/ PickWaiter \/ WakeWaiter \/ EnqueueWaiter
    PROVE  Quiet /\ SemTypes' /\ Sound'
<1>1. GInv /\ CallsFit /\ QueuesCounted /\ \A s \in Sems : Balanced(s)
  BY DEF Sound
<1>2. GInv' /\ CallsFit' /\ QueuesCounted' /\ Quiet
  <2>1. CASE Next /\ UNCHANGED semvars
    <3>1. \A s \in Sems : Waiters(s)' = Waiters(s) /\ Posting(s)' = Posting(s)
      BY <1>1, <2>1, NextCallers
    <3>2. Quiet
      BY <2>1, <3>1 DEF Quiet, Still, semvars
    <3> QED  BY <1>1, <2>1, <3>2, NextInvariant, NextCalls
  <2>2. CASE BlockSelf
    BY <1>1, <2>2, BlockSelfStep, BlockSelfCalls
  <2>3. CASE SwitchAway
    BY <1>1, <2>3, SwitchAwayStep, SwitchAwayCalls
  <2>4. CASE PickWaiter
    BY <1>1, <2>4, PickWaiterStep, PickWaiterCalls
  <2>5. CASE WakeWaiter
    BY <1>1, <2>5, WakeWaiterStep, WakeWaiterCalls
  <2>6. CASE EnqueueWaiter
    BY <1>1, <2>6, EnqueueWaiterStep, EnqueueWaiterCalls
  <2> QED  BY <2>1, <2>2, <2>3, <2>4, <2>5, <2>6
<1>3. /\ count' = count /\ broken' = broken
      /\ sem' = sem \/ sem' = [sem EXCEPT ![current] = NULL]
  BY DEF BlockSelf, SwitchAway, PickWaiter, WakeWaiter, EnqueueWaiter, semvars
<1>4. SemTypes'
  <2>1. Typed' /\ broken' \in BOOLEAN
    BY <1>2, <1>3 DEF GInv, SemTypes
  <2> QED  BY <1>3, <2>1, CountsTyped
<1>5. \A s \in Sems : Balanced(s)'
  BY <1>1, <1>2, StillBalanced DEF Quiet
<1> QED  BY <1>2, <1>4, <1>5 DEF Sound

\* sem_wait and sem_post.
LEMMA CountSteps ==
    ASSUME SemTypes, Sound, NEW s \in Sems, sem_wait(s) \/ sem_post(s)
    PROVE  SemTypes' /\ Sound'
<1>1. GInv /\ CallsFit /\ QueuesCounted /\ Balanced(s) /\ count \in [Sems -> Int]
      /\ count[s] \in Int /\ count[s] <= MaxCount /\ MaxCount \in Int
      /\ \A r \in Sems : count[r] \in -Cardinality(Tasks) .. MaxCount
  BY SemaphoreAssumption DEF Sound, SemTypes
<1>2. PICK c \in Int :
        /\ c <= MaxCount /\ GInv' /\ CallsFit' /\ QueuesCounted' /\ Balanced(s)'
        /\ \A r \in Sems \ {s} : Still(r)
        /\ count' = [count EXCEPT ![s] = c] /\ sem' \in [Tasks -> Sems \cup {NULL}]
        /\ broken' = broken
  <2>1. CASE sem_wait(s)
    <3> DEFINE c == count[s] - 1
    <3>1. Count(s, c, MustBlock(c), "semw_rr") /\ MustBlock(c) \in BOOLEAN
      BY <2>1 DEF sem_wait, MustBlock
    <3>2. c \in Int /\ c <= MaxCount /\ broken' = broken
      BY <1>1, <3>1 DEF Count
    <3>3. GInv'
      BY <1>1, <3>1, CountStep
    <3>4. /\ CallsFit' /\ QueuesCounted' /\ CountsAs(s, MustBlock(c), "semw_rr")
          /\ \A r \in Sems \ {s} : Still(r)
          /\ count' = [count EXCEPT ![s] = c] /\ sem' \in [Tasks -> Sems \cup {NULL}]
      BY <1>1, <3>1, CountCalls
    <3>5. Balanced(s)'
      BY <1>1, <3>4, WaitBalanced
    <3> QED  BY <3>2, <3>3, <3>4, <3>5
  <2>2. CASE sem_post(s)
    <3> DEFINE c == count[s] + 1
    <3>1. Count(s, c, MustPost(c), "semp_tq") /\ MustPost(c) \in BOOLEAN /\ count[s] < MaxCount
      BY <2>2 DEF sem_post, MustPost
    <3>2. c \in Int /\ c <= MaxCount /\ broken' = broken
      BY <1>1, <3>1 DEF Count
    <3>3. GInv'
      BY <1>1, <3>1, CountStep
    <3>4. /\ CallsFit' /\ QueuesCounted' /\ CountsAs(s, MustPost(c), "semp_tq")
          /\ \A r \in Sems \ {s} : Still(r)
          /\ count' = [count EXCEPT ![s] = c] /\ sem' \in [Tasks -> Sems \cup {NULL}]
      BY <1>1, <3>1, CountCalls
    <3>5. Balanced(s)'
      BY <1>1, <3>4, PostBalanced
    <3> QED  BY <3>2, <3>3, <3>4, <3>5
  <2> QED  BY <2>1, <2>2
<1>3. \A r \in Sems \ {s} : Balanced(r)'
  BY <1>2, StillBalanced DEF Sound
<1>4. SemTypes'
  <2>1. count'[s] = c /\ count'[s] \in Int /\ Typed'
    BY <1>1, <1>2 DEF GInv
  <2>2. count'[s] \in -Cardinality(Tasks) .. MaxCount
    <3>1. Cardinality(Waiters(s)') <= Cardinality(Tasks) /\ Cardinality(Tasks) \in Nat
          /\ Cardinality(Waiters(s)') \in Nat /\ Cardinality(Posting(s)') \in Nat
      <4>1. Waiters(s)' \subseteq Tasks /\ Posting(s)' \subseteq Tasks
        BY <2>1 DEF Typed, Waiters, Posting
      <4> QED  BY <4>1, SemaphoreAssumption, FS_Subset, FS_CardinalityType
    <3> QED  BY <1>1, <1>2, <2>1, <3>1 DEF Balanced
  <2>3. count' \in [Sems -> -Cardinality(Tasks) .. MaxCount]
    BY <1>1, <1>2, <2>1, <2>2
  <2> QED  BY <1>2, <2>1, <2>3 DEF SemTypes
<1> QED  BY <1>2, <1>3, <1>4 DEF Sound

\* A thread links itself, and breaks the machine if it is linked already.
LEMMA LinkSteps ==
    ASSUME SemTypes, Sound, LinkWaiter
    PROVE  Quiet /\ SemTypes' /\ (~broken' => Sound')
<1>1. GInv /\ CallsFit /\ QueuesCounted /\ \A s \in Sems : Balanced(s)
  BY DEF Sound
<1>2. CallsFit' /\ QueuesCounted' /\ Quiet /\ QueuesType'
  BY <1>1, LinkWaiterCalls
<1>3. /\ pc' = [pc EXCEPT ![current] = "semw_unlock"] /\ "semw_unlock" \in Places
      /\ UNCHANGED <<lock, current, arg, family, fields, ticks, cpu, count, sem>>
      /\ broken' \in BOOLEAN
  BY DEF LinkWaiter, Link, Goto, Places, SemPoints, Linked
<1>4. Typed'
  BY <1>2, <1>3 DEF SemTypes, Typed, family, fields, ticks, cpu
<1>5. SemTypes'
  BY <1>3, <1>4, CountsTyped
<1>6. \A s \in Sems : Balanced(s)'
  BY <1>1, <1>2, StillBalanced DEF Quiet
<1> QED  BY <1>1, <1>2, <1>5, <1>6, LinkWaiterStep DEF Sound

\* A post takes a thread off, and breaks the machine if it is gone.
LEMMA UnlinkSteps ==
    ASSUME SemTypes, Sound, UnlinkWaiter
    PROVE  SemTypes' /\ (~broken' => Sound')
<1>1. GInv /\ CallsFit /\ QueuesCounted /\ \A s \in Sems : Balanced(s)
  BY DEF Sound
<1>2. /\ pc' = [pc EXCEPT ![current] = "semp_unlock"] /\ "semp_unlock" \in Places
      /\ UNCHANGED <<lock, current, arg, family, fields, ticks, cpu, count, sem>>
      /\ broken' \in BOOLEAN
  BY DEF UnlinkWaiter, Goto, Places, SemPoints
<1>3. QueuesType'
  <2>1. CASE broken'
    BY <2>1 DEF UnlinkWaiter, SemTypes, Typed, QueuesType, queues
  <2>2. CASE ~broken'
    BY <1>1, <2>2, UnlinkWaiterStep DEF GInv, Typed
  <2> QED  BY <2>1, <2>2
<1>4. Typed'
  BY <1>2, <1>3 DEF SemTypes, Typed, family, fields, ticks, cpu
<1>5. SemTypes'
  BY <1>2, <1>4, CountsTyped
<1>6. ASSUME ~broken'  PROVE Sound'
  <2>1. CallsFit' /\ QueuesCounted' /\ GInv'
    BY <1>1, <1>6, UnlinkWaiterStep, UnlinkWaiterCalls
  <2>2. PICK s \in Sems, z \in Tasks : Released(s, z)
    BY <1>1, <1>6, UnlinkWaiterCalls
  <2>3. Balanced(s)'
    BY <1>1, <2>2, ReleaseBalanced, SemaphoreAssumption DEF SemTypes
  <2>4. \A r \in Sems \ {s} : Balanced(r)'
    BY <1>1, <2>2, StillBalanced DEF Released
  <2> QED  BY <2>1, <2>3, <2>4 DEF Sound
<1> QED  BY <1>5, <1>6

LEMMA SemInitial ==
    ASSUME SemInit  PROVE SInv
<1>1. GInv /\ pc = [t \in Tasks |-> IF t = Idle THEN "boot" ELSE "dead"]
      /\ count = [s \in Sems |-> 0] /\ sem = [t \in Tasks |-> NULL] /\ broken = FALSE
  BY InitInvariant DEF SemInit, Init
<1>2. \A s \in Sems : list[SemQ(s)] = <<>> /\ On(SemQ(s)) = {} /\ n_tasks[SemQ(s)] = 0
  <2>1. /\ \A h \in Heads \ {Run(W * W - 1)} : list[h] = <<>> /\ On(h) = {}
        /\ n_tasks = [q \in Queues |-> IF q = RR THEN 1 ELSE 0] /\ W * W - 1 \in Prios
    <3>1. QueuesInit(Idle)
      BY DEF SemInit, Init
    <3> QED  BY <3>1, InitQueues, Constants DEF QueuesInit
  <2>2. \A s \in Sems : SemQ(s) # RR
    BY DEF SemQ, RR
  <2> QED  BY <2>1, <2>2, HeadsDiffer
<1>3. \A t \in Tasks : pc[t] \notin SemPoints
  BY <1>1 DEF SemPoints
<1>4. CallsFit
  BY <1>3 DEF CallsFit, CallFits, SemPoints, LockPoints, SaidPoints, TakerPoints
<1>5. QueuesCounted
  BY <1>2 DEF QueuesCounted
<1>6. ASSUME NEW s \in Sems  PROVE Waiters(s) = {} /\ Posting(s) = {}
  <2>1. live \subseteq Tasks
    BY <1>1 DEF GInv, Typed
  <2> QED  BY <1>2, <1>3, <2>1 DEF Waiters, Posting, SemPoints
<1>7. \A s \in Sems : Balanced(s)
  BY <1>1, <1>6, FS_EmptySet DEF Balanced
<1>8. SemTypes
  <2>1. Cardinality(Tasks) \in Nat /\ MaxCount \in Nat
    BY SemaphoreAssumption, FS_CardinalityType
  <2>2. \A s \in Sems : count[s] \in -Cardinality(Tasks) .. MaxCount
    BY <1>1, <2>1
  <2>3. count \in [Sems -> -Cardinality(Tasks) .. MaxCount]
    BY <1>1, <2>2
  <2>4. sem \in [Tasks -> Sems \cup {NULL}]
    BY <1>1
  <2> QED  BY <1>1, <2>3, <2>4 DEF SemTypes, GInv
<1> QED  BY <1>1, <1>4, <1>5, <1>7, <1>8 DEF SInv, Sound

LEMMA SemNextInvariant ==
    ASSUME SInv, [SemNext]_<<vars, semvars>>  PROVE SInv'
<1>1. CASE UNCHANGED <<vars, semvars>>
  <2>1. SemTypes'
    BY <1>1 DEF SInv, SemTypes, Typed, QueuesType, vars, semvars, queues, family, fields, ticks,
       cpu
  <2>2. ASSUME ~broken'  PROVE Sound'
    <3>1. Sound /\ UNCHANGED vars /\ UNCHANGED semvars
      BY <1>1, <2>2 DEF SInv, semvars
    <3>2. GInv' /\ CallsFit' /\ QueuesCounted'
      BY <3>1, NextInvariant, NextCalls DEF Sound
    <3>3. \A s \in Sems : Still(s)
      BY <3>1, NextCallers DEF Sound, Still, semvars
    <3> QED  BY <3>1, <3>2, <3>3, StillBalanced DEF Sound
  <2> QED  BY <2>1, <2>2 DEF SInv
<1>2. CASE SemNext /\ ~broken
  <2>1. SemTypes /\ Sound
    BY <1>2 DEF SInv
  <2>2. SemTypes' /\ (~broken' => Sound')
    BY <1>2, <2>1, QuietSteps, CountSteps, LinkSteps, UnlinkSteps DEF SemNext, SemService
  <2> QED  BY <2>2 DEF SInv
<1> QED  BY <1>1, <1>2 DEF SemNext

\* The invariant of the semaphores: until a list is corrupted, the services of
\* sched.c and those of semaphore.c keep each other's lists, and each count is
\* the number of threads that wait for it.
THEOREM SemInvariant == SemSpec => []SInv
<1>1. SemInit => SInv
  BY SemInitial
<1>2. SInv /\ [SemNext]_<<vars, semvars>> => SInv'
  BY SemNextInvariant
<1> QED  BY <1>1, <1>2, PTL DEF SemSpec

\* Type correctness, also after the machine has broken.
THEOREM SemaphoreTypes == SemSpec => []SemTypeOK
<1>1. SInv => SemTypeOK
  BY DEF SInv, SemTypes, Typed, SemTypeOK, Places, SemPoints, WaitPoints, PostPoints
<1> QED  BY <1>1, SemInvariant, PTL

\* A negative count (semaphore.h:28) is the number of threads that wait and
\* that no post is on its way to.
THEOREM WaitersCounted == SemSpec => []CountExact
<1>1. SInv => CountExact
  BY DEF SInv, Sound, CountExact, Balanced
<1> QED  BY <1>1, SemInvariant, PTL

\* A thread on a semaphore's queue waits for it and is on no other list
\* (semaphore.c:6-9 against sched.c:63-67).
THEOREM WaitersKept == SemSpec => []WaitersExact
<1>1. ASSUME SInv, ~broken, NEW s \in Sems
      PROVE  /\ IsInjective(list[SemQ(s)]) /\ n_tasks[SemQ(s)] = Len(list[SemQ(s)])
             /\ \A t \in On(SemQ(s)) :
                  /\ stat[t] = "WAITING" /\ wait_for[t] = s /\ t \in live
                  /\ \A h \in Heads \ {SemQ(s)} : t \notin On(h)
  <2>1. SemQ(s) \in Heads
    BY HeadsDiffer
  <2> QED  BY <1>1, <2>1 DEF SInv, Sound, GInv, ListsExact, SemsWait, WaitersFit, QueuesCounted
<1>2. SInv => WaitersExact
  BY <1>1 DEF WaitersExact
<1> QED  BY <1>2, SemInvariant, PTL

-----------------------------------------------------------------------------
(* The steps of the semaphores are steps of CountingSemaphore.               *)

Permits == [s \in Sems |-> count[s] + Cardinality(Waiters(s))]
Waiting == [s \in Sems |-> Waiters(s)]

\* The definition that CountingSemaphore brings along is the same.
LEMMA SameCardinality == \A S : Sem!Cardinality(S) = Cardinality(S)
BY DEF Sem!Cardinality, Cardinality

\* What a step changes of the abstract state, semaphore by semaphore.
LEMMA MappedSame ==
    ASSUME \A s \in Sems : Waiters(s)' = Waiters(s) /\ count'[s] = count[s]
    PROVE  Permits' = Permits /\ Waiting' = Waiting
BY DEF Permits, Waiting

\* sem_wait is Block where it has to wait and Pass where it has not.
LEMMA WaitMapped ==
    ASSUME SemTypes, Sound, NEW s \in Sems, sem_wait(s)
    PROVE  Sem!Next
<1> DEFINE c == count[s] - 1
<1>1. GInv /\ CallsFit /\ QueuesCounted /\ Balanced(s) /\ count \in [Sems -> Int]
  BY SemaphoreAssumption DEF Sound, SemTypes
<1>2. Count(s, c, MustBlock(c), "semw_rr") /\ MustBlock(c) \in BOOLEAN
  BY DEF sem_wait, MustBlock
<1>3. /\ CountsAs(s, MustBlock(c), "semw_rr") /\ \A r \in Sems \ {s} : Still(r)
      /\ count' = [count EXCEPT ![s] = c] /\ current \in Tasks
  BY <1>1, <1>2, CountCalls DEF GInv, Typed
<1>4. /\ IsFiniteSet(Waiters(s)) /\ Cardinality(Waiters(s)) \in Nat /\ Cardinality(Posting(s)) \in Nat
      /\ count[s] \in Int /\ count'[s] = count[s] - 1
      /\ \A r \in Sems \ {s} : count'[r] = count[r] /\ Waiters(r)' = Waiters(r)
  BY <1>1, <1>3, CallersFinite DEF SemTypes, Still
<1>5. CASE count[s] <= 0
  <2>1. /\ current \notin Waiters(s) /\ Waiters(s)' = Waiters(s) \cup {current}
        /\ Cardinality(Waiters(s)') = Cardinality(Waiters(s)) + 1
    BY <1>3, <1>4, <1>5, FS_AddElement DEF CountsAs, MustBlock
  <2>2. /\ Permits[s] <= Cardinality(Waiting[s]) /\ current \notin Waiting[s]
    BY <1>4, <1>5, <2>1 DEF Permits, Waiting
  <2>3. Permits' = Permits
    <3>1. count'[s] + Cardinality(Waiters(s)') = count[s] + Cardinality(Waiters(s))
      BY <1>4, <2>1
    <3>2. \A r \in Sems : count'[r] + Cardinality(Waiters(r)') = count[r] + Cardinality(Waiters(r))
      BY <1>4, <3>1
    <3> QED  BY <3>2 DEF Permits
  <2>4. Waiting' = [Waiting EXCEPT ![s] = @ \cup {current}]
    BY <1>4, <2>1 DEF Waiting
  <2>5. Sem!Block(s, current)
    BY <2>2, <2>3, <2>4, SameCardinality DEF Sem!Block, Permits, Waiting
  <2> QED  BY <1>3, <2>5 DEF Sem!Next
<1>6. CASE ~(count[s] <= 0)
  <2>1. Waiters(s)' = Waiters(s)
    BY <1>3, <1>4, <1>6 DEF CountsAs, MustBlock
  <2>2. Permits[s] > Cardinality(Waiting[s])
    BY <1>4, <1>6 DEF Permits, Waiting
  <2>3. Permits' = [Permits EXCEPT ![s] = @ - 1]
    <3>1. \A r \in Sems : count'[r] + Cardinality(Waiters(r)') =
            IF r = s THEN Permits[s] - 1 ELSE Permits[r]
      BY <1>4, <2>1 DEF Permits
    <3> QED  BY <3>1 DEF Permits
  <2>4. Waiting' = Waiting
    BY <1>4, <2>1 DEF Waiting
  <2>5. Sem!Pass(s)
    BY <2>2, <2>3, <2>4, SameCardinality DEF Sem!Pass, Sem!Use, Permits, Waiting
  <2> QED  BY <2>5 DEF Sem!Next
<1> QED  BY <1>5, <1>6

\* sem_post is Post, whether or not it goes on to wake somebody.
LEMMA PostMapped ==
    ASSUME SemTypes, Sound, NEW s \in Sems, sem_post(s)
    PROVE  Sem!Next
<1> DEFINE c == count[s] + 1
<1>1. GInv /\ CallsFit /\ QueuesCounted /\ count \in [Sems -> Int]
  BY SemaphoreAssumption DEF Sound, SemTypes
<1>2. Count(s, c, MustPost(c), "semp_tq") /\ MustPost(c) \in BOOLEAN
  BY DEF sem_post, MustPost
<1>3. /\ CountsAs(s, MustPost(c), "semp_tq") /\ \A r \in Sems \ {s} : Still(r)
      /\ count' = [count EXCEPT ![s] = c]
  BY <1>1, <1>2, CountCalls
<1>4. /\ count[s] \in Int /\ count'[s] = count[s] + 1 /\ Cardinality(Waiters(s)) \in Nat
      /\ Waiters(s)' = Waiters(s)
      /\ \A r \in Sems \ {s} : count'[r] = count[r] /\ Waiters(r)' = Waiters(r)
  BY <1>1, <1>2, <1>3, CallersFinite DEF SemTypes, Still, CountsAs
<1>5. Permits' = [Permits EXCEPT ![s] = @ + 1]
  <2>1. \A r \in Sems : count'[r] + Cardinality(Waiters(r)') =
          IF r = s THEN Permits[s] + 1 ELSE Permits[r]
    BY <1>4 DEF Permits
  <2> QED  BY <2>1 DEF Permits
<1>6. Waiting' = Waiting
  BY <1>4 DEF Waiting
<1>7. Sem!Post(s)
  BY <1>5, <1>6 DEF Sem!Post, Permits, Waiting
<1> QED  BY <1>7 DEF Sem!Next

\* The post that takes a thread off is Release: the permit it uses is there.
LEMMA ReleaseMapped ==
    ASSUME SemTypes, Sound, UnlinkWaiter, ~broken'
    PROVE  Sem!Next
<1>1. PICK s \in Sems, z \in Tasks : Released(s, z)
  BY UnlinkWaiterCalls DEF Sound
<1>2. /\ IsFiniteSet(Waiters(s)) /\ IsFiniteSet(Posting(s))
      /\ Cardinality(Waiters(s)) \in Nat /\ Cardinality(Posting(s)) \in Nat
      /\ count[s] \in Int /\ Balanced(s)
  BY CallersFinite, SemaphoreAssumption DEF SemTypes, Sound
<1>3. /\ z \in Waiters(s) /\ Waiters(s)' = Waiters(s) \ {z} /\ count'[s] = count[s]
      /\ \A r \in Sems \ {s} : count'[r] = count[r] /\ Waiters(r)' = Waiters(r)
      /\ current \in Posting(s) /\ Posting(s)' = Posting(s) \ {current}
  BY <1>1 DEF Released, Still
<1>4. Cardinality(Waiters(s)') = Cardinality(Waiters(s)) - 1
  BY <1>2, <1>3, FS_RemoveElement
<1>5. Cardinality(Posting(s)) > 0
  <2>1. Cardinality(Posting(s) \ {current}) = Cardinality(Posting(s)) - 1
    BY <1>2, <1>3, FS_RemoveElement
  <2>2. Cardinality(Posting(s) \ {current}) \in Nat
    BY <1>2, FS_RemoveElement, FS_CardinalityType
  <2> QED  BY <1>2, <2>1, <2>2
<1>6. Permits[s] > 0
  BY <1>2, <1>5 DEF Permits, Balanced
<1>7. Permits' = [Permits EXCEPT ![s] = @ - 1]
  <2>1. \A r \in Sems : count'[r] + Cardinality(Waiters(r)') =
          IF r = s THEN Permits[s] - 1 ELSE Permits[r]
    BY <1>2, <1>3, <1>4 DEF Permits
  <2> QED  BY <2>1 DEF Permits
<1>8. Waiting' = [Waiting EXCEPT ![s] = @ \ {z}] /\ z \in Waiting[s]
  BY <1>3 DEF Waiting
<1>9. Sem!Release(s, z)
  BY <1>6, <1>7, <1>8 DEF Sem!Release, Sem!Use, Permits, Waiting
<1> QED  BY <1>9 DEF Sem!Next

\* Every step of the threads is a step of CountingSemaphore or none of its.
LEMMA StepMapped ==
    ASSUME SInv, [SemNext]_<<vars, semvars>>
    PROVE  Sem!Next \/ (Permits' = Permits /\ Waiting' = Waiting)
<1>1. CASE UNCHANGED <<vars, semvars>>
  <2>1. \A s \in Sems : Waiters(s)' = Waiters(s) /\ count'[s] = count[s]
    BY <1>1 DEF Waiters, On, vars, semvars, queues, family
  <2> QED  BY <2>1, MappedSame
<1>2. CASE SemNext /\ ~broken
  <2>1. SemTypes /\ Sound
    BY <1>2 DEF SInv
  <2>2. CASE \/ Next /\ UNCHANGED semvars
             \/ BlockSelf \/ SwitchAway \/ PickWaiter \/ WakeWaiter \/ EnqueueWaiter
             \/ LinkWaiter
    <3>1. Quiet
      BY <2>1, <2>2, QuietSteps, LinkSteps
    <3> QED  BY <3>1, MappedSame DEF Quiet, Still
  <2>3. CASE \E s \in Sems : sem_wait(s) \/ sem_post(s)
    BY <2>1, <2>3, WaitMapped, PostMapped
  <2>4. CASE UnlinkWaiter
    <3>1. CASE broken'
      BY <2>1, <2>4, <3>1, NobodyTaken, MappedSame DEF Sound
    <3>2. CASE ~broken'
      BY <2>1, <2>4, <3>2, ReleaseMapped
    <3> QED  BY <3>1, <3>2
  <2> QED  BY <1>2, <2>2, <2>3, <2>4 DEF SemNext, SemService
<1> QED  BY <1>1, <1>2 DEF SemNext

\* Whatever the interrupt, the scheduler and the other services do between the
\* steps of sem_wait and sem_post, every post lets exactly one wait through.
THEOREM SemaphoresCount == SemSpec => ImplementsSemaphore
<1>1. SemInit => Sem!Init
  <2>1. ASSUME SemInit  PROVE \A s \in Sems : Waiters(s) = {} /\ count[s] = 0
    <3>1. SInv /\ broken = FALSE /\ count = [s \in Sems |-> 0]
      BY <2>1, SemInitial DEF SemInit
    <3>2. \A s \in Sems : On(SemQ(s)) = {} /\ \A t \in Tasks : pc[t] \notin SemPoints
      BY <2>1, InitQueues, Constants, HeadsDiffer DEF SemInit, Init, SemPoints
    <3> QED  BY <3>1, <3>2 DEF Waiters, SemPoints, SInv, SemTypes, Typed
  <2> QED  BY <2>1, FS_EmptySet DEF Sem!Init
<1>2. SInv /\ [SemNext]_<<vars, semvars>> =>
        [Sem!Next]_<<[s \in Sems |-> count[s] + Cardinality(Waiters(s))], [s \in Sems |-> Waiters(s)]>>
  BY StepMapped DEF Permits, Waiting
<1> QED  BY <1>1, <1>2, SemInvariant, PTL DEF SemSpec, ImplementsSemaphore, Sem!Spec
=============================================================================
