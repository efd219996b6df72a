---------------------------- MODULE SchedProofs ----------------------------
(* The scheduler keeps the invariant of SchedInv, and with it its types,    *)
(* its lists and its bitmaps, for every number of threads, every W and      *)
(* every choice of the other constants.                                     *)
EXTENDS SchedInv, SequenceTheorems, WellFoundedInduction, TLAPS

-----------------------------------------------------------------------------
(* The list operations of TaskLists.                                        *)

\* An empty list is one with no thread on it.
LEMMA EmptyList ==
    ASSUME NEW S, NEW q \in Seq(S)
    PROVE  /\ ToSet(q) \subseteq S
           /\ q = <<>> <=> ToSet(q) = {}
           /\ q # <<>> => First(q) \in ToSet(q)
BY DEF ToSet, First

\* list_add_tail keeps a list free of repetitions if the thread is new to it.
LEMMA AppendList ==
    ASSUME NEW S, NEW q \in Seq(S), NEW t \in S
    PROVE  /\ Append(q, t) \in Seq(S)
           /\ Append(q, t) # <<>>
           /\ ToSet(Append(q, t)) = ToSet(q) \cup {t}
           /\ IsInjective(q) /\ t \notin ToSet(q) => IsInjective(Append(q, t))
<1> DEFINE r == Append(q, t)
<1>1. r \in Seq(S) /\ Len(r) = Len(q) + 1 /\ r[Len(q) + 1] = t
      /\ \A i \in 1 .. Len(q) : r[i] = q[i]
  BY AppendProperties
<1>2. r # <<>>
  BY <1>1
<1>3. ToSet(r) = ToSet(q) \cup {t}
  <2>1. DOMAIN r = 1 .. Len(q) + 1 /\ DOMAIN q = 1 .. Len(q) /\ Len(q) \in Nat
    BY <1>1
  <2> QED  BY <1>1, <2>1 DEF ToSet
<1>4. ASSUME IsInjective(q), t \notin ToSet(q)  PROVE IsInjective(r)
  <2>1. DOMAIN r = 1 .. Len(q) + 1 /\ DOMAIN q = 1 .. Len(q) /\ Len(q) \in Nat
    BY <1>1
  <2> QED  BY SMTT(30), <1>1, <1>4, <2>1 DEF ToSet, IsInjective
<1> QED  BY <1>1, <1>2, <1>3, <1>4

\* list_del closes the gap: the threads behind the one it takes off move up.
LEMMA DropMember ==
    ASSUME NEW S, NEW q \in Seq(S), NEW t \in ToSet(q)
    PROVE  \E i \in 1 .. Len(q) :
             /\ q[i] = t
             /\ Drop(q, t) \in Seq(S) /\ Len(Drop(q, t)) = Len(q) - 1
             /\ \A k \in 1 .. Len(q) - 1 :
                  Drop(q, t)[k] = IF k < i THEN q[k] ELSE q[k + 1]
<1> DEFINE i == CHOOSE j \in DOMAIN q : q[j] = t
           r == RemoveAt(q, i)
<1>1. i \in 1 .. Len(q) /\ q[i] = t /\ DOMAIN q = 1 .. Len(q) /\ Len(q) \in Nat
  BY DEF ToSet
<1>3. Drop(q, t) = r
  BY DEF Drop, i
<1> HIDE DEF i
<1>2. /\ r \in Seq(S) /\ Len(r) = Len(q) - 1
      /\ \A k \in 1 .. Len(r) : r[k] = IF k < i THEN q[k] ELSE q[k + 1]
  <2> DEFINE front == SubSeq(q, 1, i - 1)
             back == SubSeq(q, i + 1, Len(q))
  <2>1. /\ front \in Seq(S) /\ Len(front) = i - 1
        /\ \A k \in 1 .. i - 1 : front[k] = q[k]
    <3>1. \A k \in 1 .. i - 1 : q[k] \in S
      BY <1>1, ElementOfSeq
    <3> QED  BY <1>1, <3>1, SubSeqProperties
  <2>2. /\ back \in Seq(S) /\ Len(back) = Len(q) - i
        /\ \A k \in 1 .. Len(q) - i : back[k] = q[i + k]
    <3>1. \A k \in i + 1 .. Len(q) : q[k] \in S
      BY <1>1, ElementOfSeq
    <3>2. /\ back \in Seq(S)
          /\ Len(back) = IF i + 1 <= Len(q) THEN Len(q) - (i + 1) + 1 ELSE 0
          /\ \A k \in 1 .. Len(q) - (i + 1) + 1 : back[k] = q[(i + 1) + k - 1]
      BY <1>1, <3>1, SubSeqProperties
    <3>3. \A k \in 1 .. Len(q) - i : (i + 1) + k - 1 = i + k
      BY <1>1
    <3>4. Len(q) - (i + 1) + 1 = Len(q) - i /\ (~(i + 1 <= Len(q)) => Len(q) - i = 0)
      <4>1. i \in Int /\ Len(q) \in Int /\ i <= Len(q)
        BY <1>1
      <4>2. \A n, m \in Int : m - (n + 1) + 1 = m - n /\ (n <= m /\ ~(n + 1 <= m) => m - n = 0)
        OBVIOUS
      <4> QED  BY <4>1, <4>2
    <3> HIDE DEF back
    <3> QED  BY <3>2, <3>3, <3>4
  <2> HIDE DEF front, back
  <2>3. r = front \o back
    BY DEF RemoveAt, front, back
  <2>4. /\ front \o back \in Seq(S)
        /\ Len(front \o back) = Len(q) - 1
        /\ \A k \in 1 .. Len(q) - 1 : (front \o back)[k] =
             IF k <= i - 1 THEN front[k] ELSE back[k - (i - 1)]
    <3>1. /\ front \o back \in Seq(S)
          /\ Len(front \o back) = Len(front) + Len(back)
          /\ \A k \in 1 .. Len(front) + Len(back) : (front \o back)[k] =
               IF k <= Len(front) THEN front[k] ELSE back[k - Len(front)]
      BY <2>1, <2>2, ConcatProperties
    <3>2. Len(front) + Len(back) = Len(q) - 1
      BY <1>1, <2>1, <2>2
    <3> QED  BY <2>1, <3>1, <3>2
  <2>5. ASSUME NEW k \in 1 .. Len(q) - 1
        PROVE  (front \o back)[k] = IF k < i THEN q[k] ELSE q[k + 1]
    <3>1. CASE k < i
      BY <1>1, <2>1, <2>4, <3>1
    <3>2. CASE ~(k < i)
      <4>1. k - (i - 1) \in 1 .. Len(q) - i /\ i + (k - (i - 1)) = k + 1
        BY <1>1, <3>2
      <4>2. (front \o back)[k] = back[k - (i - 1)]
        <5>1. ~(k <= i - 1)
          BY <1>1, <3>2
        <5> QED  BY <2>4, <5>1
      <4>3. back[k - (i - 1)] = q[i + (k - (i - 1))]
        BY <2>2, <4>1
      <4> QED  BY <3>2, <4>1, <4>2, <4>3
    <3> QED  BY <3>1, <3>2
  <2> QED  BY <1>1, <2>3, <2>4, <2>5
<1> QED  BY <1>1, <1>2, <1>3

\* list_del takes exactly the thread off, whatever its place.
LEMMA DropList ==
    ASSUME NEW S, NEW q \in Seq(S), NEW t, IsInjective(q)
    PROVE  /\ Drop(q, t) \in Seq(S)
           /\ IsInjective(Drop(q, t))
           /\ ToSet(Drop(q, t)) = ToSet(q) \ {t}
<1>1. CASE t \notin ToSet(q)
  BY <1>1 DEF Drop
<1>2. CASE t \in ToSet(q)
  <2> DEFINE r == Drop(q, t)
  <2>1. PICK i \in 1 .. Len(q) :
          /\ q[i] = t /\ r \in Seq(S) /\ Len(r) = Len(q) - 1
          /\ \A k \in 1 .. Len(q) - 1 : r[k] = IF k < i THEN q[k] ELSE q[k + 1]
    BY <1>2, DropMember
  <2>2. DOMAIN q = 1 .. Len(q) /\ Len(q) \in Nat
    OBVIOUS
  <2> HIDE DEF r
  <2>3. DOMAIN r = 1 .. Len(q) - 1
    BY <2>1, <2>2
  <2>4. IsInjective(r)
    <3>1. SUFFICES ASSUME NEW a \in 1 .. Len(q) - 1, NEW b \in 1 .. Len(q) - 1, r[a] = r[b]
                   PROVE  a = b
      BY <2>3 DEF IsInjective
    <3> DEFINE old(k) == IF k < i THEN k ELSE k + 1
    <3>2. \A k \in 1 .. Len(q) - 1 : old(k) \in DOMAIN q /\ r[k] = q[old(k)]
      BY <2>1, <2>2
    <3>3. old(a) = old(b)
      BY <3>1, <3>2 DEF IsInjective
    <3> QED  BY <2>1, <3>3
  <2>5. ToSet(r) = ToSet(q) \ {t}
    <3>1. ASSUME NEW x \in ToSet(r)  PROVE x \in ToSet(q) /\ x # t
      BY <2>1, <2>2, <2>3, <3>1 DEF ToSet, IsInjective
    <3>2. ASSUME NEW x \in ToSet(q), x # t  PROVE x \in ToSet(r)
      <4>1. PICK k \in 1 .. Len(q) : q[k] = x
        BY <2>1 DEF ToSet
      <4>2. CASE k < i
        BY <2>1, <2>2, <2>3, <4>1, <4>2 DEF ToSet
      <4>3. CASE k > i
        <5>1. k - 1 \in 1 .. Len(q) - 1 /\ ~(k - 1 < i) /\ (k - 1) + 1 = k
          BY <2>1, <4>1, <4>3
        <5> QED  BY <2>1, <2>2, <2>3, <4>1, <5>1 DEF ToSet
      <4> QED  BY <2>1, <3>2, <4>1, <4>2, <4>3
    <3> QED  BY <3>1, <3>2
  <2> QED  BY <2>1, <2>4, <2>5 DEF r
<1> QED  BY <1>1, <1>2

\* list_del shortens the list by the one thread, if it is there.
LEMMA DropLength ==
    ASSUME NEW S, NEW q \in Seq(S), NEW t
    PROVE  Len(Drop(q, t)) = IF t \in ToSet(q) THEN Len(q) - 1 ELSE Len(q)
<1>1. CASE t \in ToSet(q)
  BY <1>1, DropMember
<1>2. CASE t \notin ToSet(q)
  BY <1>2 DEF Drop
<1> QED  BY <1>1, <1>2

\* The walk of a list without repetitions goes to another thread or ends.
LEMMA SuccList ==
    ASSUME NEW S, NEW q \in Seq(S), NEW t \in ToSet(q), IsInjective(q)
    PROVE  Succ(q, t) \in (ToSet(q) \ {t}) \cup {NULL}
<1> DEFINE i == CHOOSE j \in DOMAIN q : q[j] = t
<1>1. i \in 1 .. Len(q) /\ q[i] = t /\ DOMAIN q = 1 .. Len(q) /\ Len(q) \in Nat
  BY DEF ToSet
<1> HIDE DEF i
<1>2. CASE i < Len(q)
  <2>1. i + 1 \in DOMAIN q /\ i + 1 # i
    BY <1>1, <1>2
  <2>2. q[i + 1] # t
    BY <1>1, <2>1 DEF IsInjective
  <2>3. Succ(q, t) = q[i + 1]
    BY <1>2 DEF Succ, i
  <2> QED  BY <2>1, <2>2, <2>3 DEF ToSet
<1>3. CASE ~(i < Len(q))
  BY <1>3 DEF Succ, i
<1> QED  BY <1>2, <1>3

-----------------------------------------------------------------------------
(* Priorities and the two levels of the bitmap.                             *)

\* Splitting a priority into a byte and a bit loses nothing, and the two parts
\* put together are a priority again.
LEMMA PrioParts ==
    /\ \A p \in Prios : p \div W \in 0 .. W - 1 /\ p % W \in 0 .. W - 1
                      /\ (p \div W) * W + (p % W) = p
    /\ \A y, x \in 0 .. W - 1 :
         y * W + x \in Prios /\ (y * W + x) \div W = y /\ (y * W + x) % W = x
<1>1. W \in Nat /\ W > 0
  BY ListAssumption
<1>2. ASSUME NEW p \in Prios
      PROVE  /\ p \div W \in 0 .. W - 1 /\ p % W \in 0 .. W - 1
             /\ (p \div W) * W + (p % W) = p
  BY <1>1 DEF Prios
<1>3. ASSUME NEW y \in 0 .. W - 1, NEW x \in 0 .. W - 1
      PROVE  y * W + x \in Prios /\ (y * W + x) \div W = y /\ (y * W + x) % W = x
  BY <1>1 DEF Prios
<1> QED  BY <1>2, <1>3

\* A smaller byte, or a smaller bit of the same byte, is a smaller priority.
LEMMA PrioOrder ==
    ASSUME NEW y \in 0 .. W - 1, NEW x \in 0 .. W - 1, NEW p \in Prios,
           y <= p \div W, y = p \div W => x <= p % W
    PROVE  y * W + x <= p
<1>1. PICK z \in 0 .. W - 1, b \in 0 .. W - 1 : z = p \div W /\ b = p % W /\ z * W + b = p
  BY PrioParts
<1>2. W \in Nat /\ W > 0
  BY ListAssumption
<1>3. CASE y = z
  BY <1>1, <1>2, <1>3
<1>4. CASE y < z
  <2>1. (y + 1) * W <= z * W
    <3>1. PICK d \in Nat : z = (y + 1) + d
      <4>1. z - (y + 1) \in Nat /\ z = (y + 1) + (z - (y + 1))
        BY <1>2, <1>4
      <4> QED  BY <4>1
    <3>2. z * W = (y + 1) * W + d * W /\ d * W \in Nat /\ (y + 1) * W \in Nat
      BY <1>2, <3>1
    <3> QED  BY <3>2
  <2>2. (y + 1) * W = y * W + W
    BY <1>2
  <2>3. y * W \in Int /\ z * W \in Int
    BY <1>2
  <2> QED  BY <1>1, <1>2, <2>1, <2>2, <2>3
<1>5. y = z \/ y < z
  <2>1. y <= z /\ y \in Int /\ z \in Int
    BY <1>1, <1>2
  <2> QED  BY <2>1
<1> QED  BY <1>3, <1>4, <1>5

\* The list heads are all different.
LEMMA HeadsDiffer ==
    /\ \A p \in Prios : Run(p) \in Heads /\ Run(p) \notin TaskQueues
    /\ \A p, q \in Prios : Run(p) = Run(q) => p = q
    /\ Sleep \in TaskQueues /\ Zombie \in TaskQueues /\ Sleep # Zombie
    /\ TaskQueues \subseteq Heads /\ TaskQueues \subseteq Queues
    /\ \A s \in Sems : SemQ(s) \in TaskQueues /\ SemQ(s) \notin {Sleep, Zombie}
    /\ \A s, r \in Sems : SemQ(s) = SemQ(r) => s = r
    /\ \A h \in Heads : \/ h \in {Run(p) : p \in Prios}
                        \/ h \in {Sleep, Zombie}
                        \/ h \in {SemQ(s) : s \in Sems}
BY DEF Run, Heads, TaskQueues, Sleep, Zombie, SemQ, Queues

-----------------------------------------------------------------------------
(* What the operations do to the lists.                                     *)

NoRepeats == \A h \in Heads : IsInjective(list[h])

\* list_del, wherever the thread is linked.
LEMMA TakeOff ==
    ASSUME QueuesType, NoRepeats, NEW t \in Tasks, list' = list_del(t)
    PROVE  /\ list' \in [Heads -> Seq(Tasks)]
           /\ NoRepeats'
           /\ \A h \in Heads : On(h)' = On(h) \ {t}
           /\ \A h \in Heads : t \notin On(h) => list'[h] = list[h]
<1>1. ASSUME NEW h \in Heads
      PROVE  /\ list'[h] = Drop(list[h], t)
             /\ list'[h] \in Seq(Tasks) /\ IsInjective(list'[h])
             /\ ToSet(list'[h]) = ToSet(list[h]) \ {t}
             /\ t \notin ToSet(list[h]) => list'[h] = list[h]
  <2>1. list[h] \in Seq(Tasks) /\ IsInjective(list[h])
    BY DEF QueuesType, NoRepeats
  <2>2. list'[h] = Drop(list[h], t)
    BY DEF list_del
  <2>3. t \notin ToSet(list[h]) => Drop(list[h], t) = list[h]
    BY DEF Drop
  <2> QED  BY <2>1, <2>2, <2>3, DropList
<1>2. list' = [h \in Heads |-> list'[h]]
  BY DEF list_del
<1> QED  BY <1>1, <1>2 DEF NoRepeats, On

\* list_add_tail of a thread the list does not hold.
LEMMA PutOn ==
    ASSUME QueuesType, NoRepeats, NEW t \in Tasks, NEW g \in Heads, t \notin On(g),
           list' = list_add_tail(t, g)
    PROVE  /\ list' \in [Heads -> Seq(Tasks)]
           /\ NoRepeats'
           /\ On(g)' = On(g) \cup {t} /\ list'[g] # <<>>
           /\ \A h \in Heads \ {g} : list'[h] = list[h] /\ On(h)' = On(h)
<1>1. list[g] \in Seq(Tasks) /\ IsInjective(list[g]) /\ t \notin ToSet(list[g])
  BY DEF QueuesType, NoRepeats, On
<1>2. /\ Append(list[g], t) \in Seq(Tasks)
      /\ Append(list[g], t) # <<>>
      /\ ToSet(Append(list[g], t)) = ToSet(list[g]) \cup {t}
      /\ IsInjective(Append(list[g], t))
  BY <1>1, AppendList
<1>3. /\ list \in [Heads -> Seq(Tasks)]
      /\ list' = [list EXCEPT ![g] = Append(@, t)]
  BY DEF QueuesType, list_add_tail
<1>4. list'[g] = Append(list[g], t) /\ \A h \in Heads \ {g} : list'[h] = list[h]
  BY <1>3
<1>5. list' \in [Heads -> Seq(Tasks)]
  BY <1>2, <1>3
<1> QED  BY <1>2, <1>4, <1>5 DEF NoRepeats, On

\* rr_enqueue sets both bits of the queue it fills.
LEMMA RrEnqueue ==
    ASSUME QueuesType, BitmapsExact, NoRepeats,
           NEW t \in Tasks, NEW p \in Prios, t \notin On(Run(p)), rr_enqueue(t, p)
    PROVE  /\ QueuesType' /\ BitmapsExact' /\ NoRepeats'
           /\ On(Run(p))' = On(Run(p)) \cup {t}
           /\ \A h \in Heads \ {Run(p)} : list'[h] = list[h] /\ On(h)' = On(h)
<1> DEFINE y == p \div W
           x == p % W
<1>1. y \in 0 .. W - 1 /\ x \in 0 .. W - 1
  BY PrioParts
<1>2. /\ list' = list_add_tail(t, Run(p))
      /\ n_tasks' = [n_tasks EXCEPT ![RR] = @ + 1]
      /\ bit_tbl' = [bit_tbl EXCEPT ![y] = @ \cup {x}]
      /\ bit_grp' = bit_grp \cup {y}
  BY DEF rr_enqueue
<1>3. /\ list' \in [Heads -> Seq(Tasks)]
      /\ NoRepeats'
      /\ On(Run(p))' = On(Run(p)) \cup {t} /\ list'[Run(p)] # <<>>
      /\ \A h \in Heads \ {Run(p)} : list'[h] = list[h] /\ On(h)' = On(h)
  BY <1>2, PutOn, HeadsDiffer
<1>4. QueuesType'
  <2>1. n_tasks' \in [Queues -> Int]
    BY <1>2 DEF QueuesType, Queues
  <2>2. bit_tbl' \in [0 .. W - 1 -> SUBSET (0 .. W - 1)] /\ bit_grp' \in SUBSET (0 .. W - 1)
    BY <1>1, <1>2 DEF QueuesType
  <2> QED  BY <1>3, <2>1, <2>2 DEF QueuesType
<1>5. \A q \in Prios : list'[Run(q)] # <<>> <=> q % W \in bit_tbl'[q \div W]
  <2>1. SUFFICES ASSUME NEW q \in Prios
                 PROVE  list'[Run(q)] # <<>> <=> q % W \in bit_tbl'[q \div W]
    OBVIOUS
  <2>2. q \div W \in 0 .. W - 1 /\ (q \div W = y /\ q % W = x => q = p)
    BY PrioParts
  <2>3. CASE q = p
    BY <1>1, <1>2, <1>3, <2>3 DEF QueuesType
  <2>4. CASE q # p
    <3>1. list'[Run(q)] = list[Run(q)]
      BY <1>3, <2>4, HeadsDiffer
    <3>2. q % W \in bit_tbl'[q \div W] <=> q % W \in bit_tbl[q \div W]
      BY <1>1, <1>2, <2>2, <2>4 DEF QueuesType
    <3> QED  BY <3>1, <3>2 DEF BitmapsExact
  <2> QED  BY <2>3, <2>4
<1>6. \A z \in 0 .. W - 1 : z \in bit_grp' <=> bit_tbl'[z] # {}
  BY <1>1, <1>2 DEF QueuesType, BitmapsExact
<1> QED  BY <1>3, <1>4, <1>5, <1>6 DEF BitmapsExact

\* rr_dequeue keeps the bitmaps right if the thread is on no other run queue
\* than that of the priority it is dequeued with.
LEMMA RrDequeue ==
    ASSUME QueuesType, BitmapsExact, NoRepeats,
           NEW t \in Tasks, NEW p \in Prios, rr_dequeue(t, p),
           \A q \in Prios \ {p} : t \notin On(Run(q))
    PROVE  /\ QueuesType' /\ BitmapsExact' /\ NoRepeats'
           /\ \A h \in Heads : On(h)' = On(h) \ {t}
           /\ \A h \in Heads : t \notin On(h) => list'[h] = list[h]
<1> DEFINE y == p \div W
           x == p % W
           byte == bit_tbl[y] \ {x}
<1>1. y \in 0 .. W - 1 /\ x \in 0 .. W - 1
  BY PrioParts
<1>2. /\ list' = list_del(t)
      /\ n_tasks' = [n_tasks EXCEPT ![RR] = @ - 1]
      /\ IF list'[Run(p)] = <<>>
         THEN /\ bit_tbl' = [bit_tbl EXCEPT ![y] = byte]
              /\ bit_grp' = IF byte = {} THEN bit_grp \ {y} ELSE bit_grp
         ELSE UNCHANGED <<bit_tbl, bit_grp>>
  BY DEF rr_dequeue
<1>3. /\ list' \in [Heads -> Seq(Tasks)]
      /\ NoRepeats'
      /\ \A h \in Heads : On(h)' = On(h) \ {t}
      /\ \A h \in Heads : t \notin On(h) => list'[h] = list[h]
  BY <1>2, TakeOff
<1>4. QueuesType'
  <2>1. n_tasks' \in [Queues -> Int]
    BY <1>2 DEF QueuesType, Queues
  <2>2. bit_tbl' \in [0 .. W - 1 -> SUBSET (0 .. W - 1)] /\ bit_grp' \in SUBSET (0 .. W - 1)
    BY <1>1, <1>2 DEF QueuesType
  <2> QED  BY <1>3, <2>1, <2>2 DEF QueuesType
<1>5. \A q \in Prios \ {p} : list'[Run(q)] = list[Run(q)]
  BY <1>3, HeadsDiffer
<1>6. list'[Run(p)] # <<>> => list[Run(p)] # <<>>
  <2>1. list[Run(p)] \in Seq(Tasks) /\ list'[Run(p)] \in Seq(Tasks)
    BY <1>3, HeadsDiffer DEF QueuesType
  <2>2. On(Run(p))' \subseteq On(Run(p))
    BY <1>3, HeadsDiffer
  <2> QED  BY <2>1, <2>2, EmptyList DEF On
<1>7. \A q \in Prios : list'[Run(q)] # <<>> <=> q % W \in bit_tbl'[q \div W]
  <2>1. SUFFICES ASSUME NEW q \in Prios
                 PROVE  list'[Run(q)] # <<>> <=> q % W \in bit_tbl'[q \div W]
    OBVIOUS
  <2>2. q \div W \in 0 .. W - 1 /\ (q \div W = y /\ q % W = x => q = p)
    BY PrioParts
  <2>3. list[Run(q)] # <<>> <=> q % W \in bit_tbl[q \div W]
    BY DEF BitmapsExact
  <2>4. CASE q = p
    BY <1>1, <1>2, <1>6, <2>3, <2>4 DEF QueuesType
  <2>5. CASE q # p
    <3>1. q % W \in bit_tbl'[q \div W] <=> q % W \in bit_tbl[q \div W]
      BY ZenonT(40), <1>1, <1>2, <2>2, <2>5 DEF QueuesType
    <3> QED  BY <1>5, <2>3, <2>5, <3>1
  <2> QED  BY <2>4, <2>5
<1>8. \A z \in 0 .. W - 1 : z \in bit_grp' <=> bit_tbl'[z] # {}
  <2>1. CASE list'[Run(p)] = <<>>
    BY <1>1, <1>2, <2>1 DEF QueuesType, BitmapsExact
  <2>2. CASE list'[Run(p)] # <<>>
    BY <1>2, <2>2 DEF BitmapsExact
  <2> QED  BY <2>1, <2>2
<1> QED  BY <1>3, <1>4, <1>7, <1>8 DEF BitmapsExact

\* The lookup table gives the lowest set bit when there is one.
LEMMA UnmapMember ==
    ASSUME NEW bits \in SUBSET (0 .. W - 1), bits # {}
    PROVE  rr_unmap(bits) \in bits /\ \A b \in bits : rr_unmap(bits) <= b
<1>1. bits \subseteq Nat
  OBVIOUS
<1>2. PICK a \in bits : \A b \in bits : <<b, a>> \notin OpToRel(<, Nat)
  BY <1>1, WFMin, NatLessThanWellFounded
<1>3. ASSUME NEW b \in bits, b < a  PROVE FALSE
  <2>1. <<b, a>> \in Nat \X Nat /\ <<b, a>>[1] = b /\ <<b, a>>[2] = a
    BY <1>1
  <2>2. <<b, a>> \in OpToRel(<, Nat)
    BY <1>3, <2>1 DEF OpToRel
  <2> QED  BY <1>2, <2>2
<1>4. \A b \in bits : a <= b
  BY <1>1, <1>3
<1> QED  BY <1>4 DEF rr_unmap

\* With exact bitmaps and some thread on a run queue the search finds a
\* non-empty queue, and the one of the smallest priority number: rr_pick_next
\* never takes a list head for a thread.
LEMMA PickFinds ==
    ASSUME QueuesType, BitmapsExact, NEW p \in Prios, list[Run(p)] # <<>>
    PROVE  /\ PickPrio \in Prios
           /\ PickHead \in On(Run(PickPrio))
           /\ \A q \in Prios : list[Run(q)] # <<>> => PickPrio <= q
<1> DEFINE y == rr_unmap(bit_grp)
           x == rr_unmap(bit_tbl[y])
<1>1. p \div W \in bit_grp
  BY PrioParts DEF BitmapsExact
<1>2. y \in bit_grp /\ y \in 0 .. W - 1
  BY <1>1, UnmapMember DEF QueuesType
<1>3. bit_tbl[y] # {} /\ bit_tbl[y] \in SUBSET (0 .. W - 1)
  BY <1>2 DEF QueuesType, BitmapsExact
<1>4. /\ x \in bit_tbl[y] /\ x \in 0 .. W - 1
      /\ \A b \in bit_grp : y <= b
      /\ \A b \in bit_tbl[y] : x <= b
  BY <1>1, <1>3, UnmapMember DEF QueuesType
<1> HIDE DEF x, y
<1>5. PickPrio = y * W + x
  BY DEF PickPrio, x, y
<1>6. PickPrio \in Prios /\ PickPrio \div W = y /\ PickPrio % W = x
  BY <1>2, <1>4, <1>5, PrioParts
<1>7. list[Run(PickPrio)] # <<>> /\ list[Run(PickPrio)] \in Seq(Tasks)
  BY <1>4, <1>6, HeadsDiffer DEF BitmapsExact, QueuesType
<1>8. ASSUME NEW q \in Prios, list[Run(q)] # <<>>  PROVE PickPrio <= q
  <2>1. q % W \in bit_tbl[q \div W] /\ q \div W \in 0 .. W - 1
    BY <1>8, PrioParts DEF BitmapsExact
  <2>2. q \div W \in bit_grp
    BY <2>1 DEF BitmapsExact
  <2> QED  BY <1>2, <1>4, <1>5, <2>1, <2>2, PrioOrder
<1> QED  BY <1>6, <1>7, <1>8, EmptyList DEF PickHead, On

\* The rotation of rr_pick_next changes no list's threads.
LEMMA RrPickNext ==
    ASSUME QueuesType, BitmapsExact, NoRepeats,
           NEW p \in Prios, list[Run(p)] # <<>>, rr_pick_next
    PROVE  /\ QueuesType' /\ BitmapsExact' /\ NoRepeats'
           /\ \A h \in Heads : On(h)' = On(h)
<1> DEFINE g == Run(PickPrio)
           t == PickHead
<1>1. g \in Heads /\ t \in On(g)
  BY PickFinds, HeadsDiffer
<1> HIDE DEF g, t
<1>2. list[g] \in Seq(Tasks) /\ IsInjective(list[g]) /\ t \in ToSet(list[g])
  BY <1>1 DEF QueuesType, NoRepeats, On
<1>3. t \in Tasks
  BY <1>2, EmptyList
<1>4. /\ Drop(list[g], t) \in Seq(Tasks) /\ IsInjective(Drop(list[g], t))
      /\ ToSet(Drop(list[g], t)) = ToSet(list[g]) \ {t}
  BY <1>2, DropList
<1> DEFINE q == Append(Drop(list[g], t), t)
<1>5. q \in Seq(Tasks) /\ q # <<>> /\ IsInjective(q) /\ ToSet(q) = ToSet(list[g])
  <2>1. t \notin ToSet(Drop(list[g], t))
    BY <1>4
  <2>2. /\ q \in Seq(Tasks) /\ q # <<>> /\ IsInjective(q)
        /\ ToSet(q) = ToSet(Drop(list[g], t)) \cup {t}
    BY <1>3, <1>4, <2>1, AppendList
  <2> QED  BY <1>2, <1>4, <2>2
<1> HIDE DEF q
<1>6. list' = [list EXCEPT ![g] = q] /\ UNCHANGED <<bit_tbl, bit_grp, n_tasks>>
  BY DEF rr_pick_next, g, t, q
<1>7. list[g] # <<>>
  BY <1>2, EmptyList
<1>8. list \in [Heads -> Seq(Tasks)]
  BY DEF QueuesType
<1>9. list'[g] = q /\ \A h \in Heads \ {g} : list'[h] = list[h]
  BY <1>1, <1>6, <1>8
<1>10. QueuesType'
  BY <1>5, <1>6, <1>8 DEF QueuesType
<1>11. BitmapsExact'
  <2>1. \A r \in Prios : list'[Run(r)] # <<>> <=> list[Run(r)] # <<>>
    BY <1>5, <1>7, <1>9, HeadsDiffer
  <2> QED  BY <1>6, <2>1 DEF BitmapsExact
<1> QED  BY <1>1, <1>5, <1>9, <1>10, <1>11 DEF NoRepeats, On

\* The task queues have no bitmap.
LEMMA TqEnqueue ==
    ASSUME QueuesType, BitmapsExact, NoRepeats,
           NEW t \in Tasks, NEW q \in TaskQueues, t \notin On(q), tq_enqueue(q, t)
    PROVE  /\ QueuesType' /\ BitmapsExact' /\ NoRepeats'
           /\ On(q)' = On(q) \cup {t}
           /\ \A h \in Heads \ {q} : list'[h] = list[h] /\ On(h)' = On(h)
<1>1. /\ list' = list_add_tail(t, q)
      /\ n_tasks' = [n_tasks EXCEPT ![q] = @ + 1]
      /\ UNCHANGED <<bit_tbl, bit_grp>>
  BY DEF tq_enqueue
<1>2. /\ list' \in [Heads -> Seq(Tasks)]
      /\ NoRepeats'
      /\ On(q)' = On(q) \cup {t}
      /\ \A h \in Heads \ {q} : list'[h] = list[h] /\ On(h)' = On(h)
  BY <1>1, PutOn, HeadsDiffer
<1>3. n_tasks' \in [Queues -> Int]
  BY <1>1, HeadsDiffer DEF QueuesType
<1>4. QueuesType'
  BY <1>1, <1>2, <1>3 DEF QueuesType
<1>5. BitmapsExact'
  BY <1>1, <1>2, HeadsDiffer DEF BitmapsExact
<1> QED  BY <1>2, <1>4, <1>5

\* tq_dequeue (task_queue.c:19) takes one thread off its list, moves no other
\* and leaves the bitmaps exact.
LEMMA TqDequeue ==
    ASSUME QueuesType, BitmapsExact, NoRepeats,
           NEW t \in Tasks, NEW q \in TaskQueues, tq_dequeue(q, t),
           \A p \in Prios : t \notin On(Run(p))
    PROVE  /\ QueuesType' /\ BitmapsExact' /\ NoRepeats'
           /\ \A h \in Heads : On(h)' = On(h) \ {t}
           /\ \A h \in Heads : t \notin On(h) => list'[h] = list[h]
<1>1. /\ list' = list_del(t)
      /\ n_tasks' = [n_tasks EXCEPT ![q] = @ - 1]
      /\ UNCHANGED <<bit_tbl, bit_grp>>
  BY DEF tq_dequeue
<1>2. /\ list' \in [Heads -> Seq(Tasks)]
      /\ NoRepeats'
      /\ \A h \in Heads : On(h)' = On(h) \ {t}
      /\ \A h \in Heads : t \notin On(h) => list'[h] = list[h]
  BY <1>1, TakeOff
<1>3. n_tasks' \in [Queues -> Int]
  BY <1>1, HeadsDiffer DEF QueuesType
<1>4. QueuesType'
  BY <1>1, <1>2, <1>3 DEF QueuesType
<1>5. BitmapsExact'
  BY <1>1, <1>2, HeadsDiffer DEF BitmapsExact
<1> QED  BY <1>2, <1>4, <1>5

\* rr_init and the first rr_enqueue.
LEMMA InitQueues ==
    ASSUME NEW t \in Tasks, QueuesInit(t)
    PROVE  /\ QueuesType /\ BitmapsExact /\ NoRepeats
           /\ On(Run(W * W - 1)) = {t} /\ W * W - 1 \in Prios
           /\ \A h \in Heads \ {Run(W * W - 1)} : list[h] = <<>> /\ On(h) = {}
<1> DEFINE p == W * W - 1
<1>1. W \in Nat /\ W > 0
  BY ListAssumption
<1>2. p \in Prios /\ p = (W - 1) * W + (W - 1) /\ W - 1 \in 0 .. W - 1
  BY <1>1 DEF Prios
<1>3. p \div W = W - 1 /\ p % W = W - 1
  BY <1>2, PrioParts
<1> HIDE DEF p
<1>4. /\ list = [h \in Heads |-> IF h = Run(p) THEN <<t>> ELSE <<>>]
      /\ bit_tbl = [y \in 0 .. W - 1 |-> IF y = W - 1 THEN {W - 1} ELSE {}]
      /\ bit_grp = {W - 1}
      /\ n_tasks = [q \in Queues |-> IF q = RR THEN 1 ELSE 0]
  BY DEF QueuesInit, p
<1>5. QueuesType
  BY <1>2, <1>4 DEF QueuesType
<1>6. Run(p) \in Heads
  BY <1>2, HeadsDiffer
<1>7. /\ list[Run(p)] = <<t>>
      /\ \A h \in Heads \ {Run(p)} : list[h] = <<>>
  BY <1>4, <1>6
<1>8. ToSet(<<t>>) = {t} /\ ToSet(<<>>) = {} /\ IsInjective(<<t>>) /\ IsInjective(<<>>)
  BY DEF ToSet, IsInjective
<1>9. NoRepeats /\ On(Run(p)) = {t} /\ \A h \in Heads \ {Run(p)} : On(h) = {}
  BY <1>6, <1>7, <1>8 DEF NoRepeats, On
<1>10. BitmapsExact
  <2>1. ASSUME NEW q \in Prios
        PROVE  list[Run(q)] # <<>> <=> q % W \in bit_tbl[q \div W]
    <3>1. q \div W \in 0 .. W - 1 /\ (q \div W = W - 1 /\ q % W = W - 1 => q = p)
      BY <1>2, <1>3, PrioParts
    <3>2. CASE q = p
      <4>1. list[Run(q)] # <<>>
        BY <1>7, <3>2
      <4>2. bit_tbl[W - 1] = {W - 1}
        BY <1>2, <1>4
      <4> QED  BY <1>3, <3>2, <4>1, <4>2
    <3>3. CASE q # p
      <4>1. list[Run(q)] = <<>>
        BY <1>2, <1>7, <3>3, HeadsDiffer
      <4> QED  BY <1>4, <3>1, <3>3, <4>1
    <3> QED  BY <3>2, <3>3
  <2>2. \A y \in 0 .. W - 1 : y \in bit_grp <=> bit_tbl[y] # {}
    BY <1>4
  <2> QED  BY <2>1, <2>2 DEF BitmapsExact
<1> QED  BY <1>2, <1>5, <1>7, <1>9, <1>10 DEF p

-----------------------------------------------------------------------------
(* The steps of the scheduler.                                              *)

\* The part of the invariant that does not look inside the lists.
Where ==
    /\ WindowsUnlinked
    /\ StatPoints
    /\ Running
    /\ HandsOff
    /\ WaitersFit
    /\ PointersSet
    /\ ReaperFits
    /\ IdleFits
    /\ TickFits

IdlePoints == ForkPoints \cup {"boot", "fork_sched", "fork_ret", "run"}

\* A move that lets go of nobody, and one on the way to a semaphore's queue
\* goes there and on.
SemHarmless(from, to) ==
    /\ from \in ForkPoints \cup WakePoints => to \in ForkPoints \cup WakePoints
    /\ to \in NamedPoints => from \in NamedPoints \cup {"semw_for"}
    /\ from \in {"semw_unlock", "semw_sched"} => to \in {"semw_sched", "run"}
    /\ to = "semw_for" => from = "semw_for"
    /\ to \in {"semw_tq", "semw_add"} => from \in {"semw_for", "semw_tq", "semw_add"}

\* A move of the running thread from one statement to another that breaks
\* nothing by itself: it enters no window, and picks nothing up.
Harmless(from, to) ==
    /\ to \in Places
    /\ to \in Windows => from \in Windows
    /\ from \in DeadPoints => to \in DeadPoints
    /\ to \in ForkPoints \cup WakePoints => from \in ForkPoints \cup WakePoints
    /\ to \in PostedPoints <=> from \in PostedPoints
    /\ to \in ReapPoints => from \in ReapPoints
    /\ to \in TakenPoints => from \in TakenPoints
    /\ SemHarmless(from, to)

\* What the proofs use of the constants' assumptions.
LEMMA Constants ==
    /\ NULL \notin Tasks /\ NULL \notin Sems /\ Idle \in Tasks /\ Reaper \in Tasks
    /\ Idle # Reaper /\ Idle \notin Workers /\ Workers \subseteq Tasks
    /\ InitPrio \in Prios /\ DaemonPrio \in Prios /\ Levels \subseteq Prios
    /\ IdlePrio \in Prios /\ Run(IdlePrio) \in Heads
<1>1. IdlePrio \in Prios
  BY ListAssumption DEF IdlePrio, Prios
<1> QED  BY <1>1, ListAssumption, SchedAssumption, HeadsDiffer

\* Steps that change the running thread's pc and perhaps its pointer, and that
\* move no thread from one list to another.
LEMMA ControlStep ==
    ASSUME GInv, irq = "none", irq' = "none", NEW to,
           Harmless(pc[current], to), StatFits(stat[current], to),
           current = Idle => to \in IdlePoints,
           pc' = [pc EXCEPT ![current] = to],
           \A u \in Tasks \ {current} : arg'[u] = arg[u],
           to \in ForkPoints \cup WakePoints \cup TakenPoints => arg'[current] = arg[current],
           to \in PickedPoints => arg'[current] \in On(Zombie),
           to \in ForkPoints \cup ParentPoints => arg'[current] \in Tasks,
           \A t \in live \ {Idle} : parent'[t] = NULL =>
             /\ parent[t] = NULL
             /\ pc[current] \in NewChildPoints /\ arg[current] = t =>
                  to \in NewChildPoints /\ arg'[current] = t,
           \A h \in Heads : On(h)' = On(h),
           UNCHANGED <<live, stat>>,
           \A t \in Tasks \ {current} : stat[t] = "WAITING" => wait_for'[t] = wait_for[t],
           IF pc[current] = "semw_for" THEN wait_for'[current] \in Sems
                                       ELSE wait_for'[current] = wait_for[current],
           current' \in live, current' = current \/ Linked(current'),
           pc'[current'] = "run" => stat[current'] = "READY"
    PROVE  Where'
<1> USE DEF GInv
<1>1. \A t : Linked(t)' <=> Linked(t)
  BY DEF Linked
<1>2. /\ current \in Tasks /\ live \subseteq Tasks
      /\ pc \in [Tasks -> Places] /\ stat \in [Tasks -> Stats]
  BY DEF Typed
<1>3. pc'[current] = to /\ \A t \in Tasks \ {current} : pc'[t] = pc[t]
  BY <1>2
<1>4. \A u, t \in Tasks : InHand(u, t)' <=> InHand(u, t)
  BY <1>3 DEF InHand, Harmless, SemHarmless
<1>5. WindowsUnlinked'
  BY <1>1, <1>2, <1>3 DEF WindowsUnlinked, Harmless
<1>6. StatPoints'
  BY <1>2, <1>3 DEF StatPoints
<1>7. Running'
  BY <1>2, <1>3 DEF Running, Harmless
<1>8. HandsOff'
  <2>1. \A u \in Tasks : pc'[u] \in PostedPoints <=> pc[u] \in PostedPoints
    BY <1>3 DEF Harmless
  <2>2. ASSUME NEW u \in Tasks, NEW t \in Tasks, InHand(u, t)'
        PROVE  /\ t \in live' /\ ~Linked(t)'
               /\ stat'[t] = IF pc'[u] \in PostedPoints THEN "WAITING" ELSE "READY"
               /\ pc'[u] \in PostedPoints => wait_for'[t] \in Sems
               /\ pc'[t] \in {"run", "reap_tq", "wait_sched", "semw_for", "semw_sched"}
               /\ t # current'
               /\ \A v \in Tasks : InHand(v, t)' => v = u
    BY <1>1, <1>2, <1>3, <1>4, <2>1, <2>2 DEF HandsOff
  <2> QED  BY <2>2 DEF HandsOff
<1>13. WaitersFit'
  <2>1. ASSUME NEW s \in Sems, NEW t \in On(SemQ(s))'
        PROVE  wait_for'[t] = s /\ pc'[t] \in {"semw_unlock", "semw_sched", "run"}
    <3>1. t \in On(SemQ(s)) /\ t \in Tasks
      BY <2>1, HeadsDiffer DEF ListsExact, Typed
    <3>2. stat[t] = "WAITING" /\ wait_for[t] = s /\ pc[t] \in {"semw_unlock", "semw_sched", "run"}
      BY <3>1 DEF SemsWait, WaitersFit
    <3>3. t = current => pc[t] \in {"semw_unlock", "semw_sched"}
      BY <3>2 DEF Running
    <3>4. to \in {"semw_sched", "run"} \/ t # current
      BY <3>3 DEF Harmless, SemHarmless
    <3> QED  BY <1>3, <3>1, <3>2, <3>3, <3>4
  <2>2. ASSUME NEW t \in Tasks, stat'[t] = "WAITING", pc'[t] \in NamedPoints
        PROVE  wait_for'[t] \in Sems
    <3>1. stat[t] = "WAITING" /\ pc[t] \in NamedPoints \cup {"semw_for"}
      BY <1>3, <2>2 DEF Harmless, SemHarmless
    <3>2. CASE t # current
      BY <1>3, <2>2, <3>1, <3>2 DEF WaitersFit
    <3>3. CASE t = current
      BY <3>1, <3>3 DEF WaitersFit, NamedPoints
    <3> QED  BY <3>2, <3>3
  <2>3. ASSUME NEW t \in Tasks, pc'[t] \in {"semw_for", "semw_tq", "semw_add"}
        PROVE  stat'[t] = "WAITING" \/ Linked(t)' \/ \E u \in Tasks : InHand(u, t)'
    <3>1. pc[t] \in {"semw_for", "semw_tq", "semw_add"}
      BY <1>3, <2>3 DEF Harmless, SemHarmless
    <3> QED  BY <1>1, <1>4, <3>1 DEF WaitersFit
  <2> QED  BY <2>1, <2>2, <2>3 DEF WaitersFit
<1>9. PointersSet'
  <2>1. \A u \in Tasks : pc'[u] \in ForkPoints \cup ParentPoints => arg'[u] \in Tasks
    BY <1>2, <1>3 DEF PointersSet
  <2>2. ASSUME NEW t \in live \ {Idle}, parent'[t] = NULL
        PROVE  \E u \in Tasks : pc'[u] \in NewChildPoints /\ arg'[u] = t
    <3>1. PICK u \in Tasks : pc[u] \in NewChildPoints /\ arg[u] = t
      BY <2>2 DEF PointersSet, NewChildPoints
    <3> QED  BY <1>2, <1>3, <2>2, <3>1
  <2> QED  BY <2>1, <2>2 DEF PointersSet, NewChildPoints
<1>10. ReaperFits'
  <2>1. On(Zombie)' = On(Zombie)
    BY HeadsDiffer
  <2>2. ASSUME NEW u \in Tasks
        PROVE  /\ pc'[u] \in ReapPoints => u = Reaper
               /\ pc'[u] \in PickedPoints => arg'[u] \in On(Zombie)
    BY <1>2, <1>3 DEF ReaperFits, Harmless, PickedPoints
  <2>3. ASSUME NEW u \in Tasks, pc'[u] \in TakenPoints
        PROVE  /\ arg'[u] \in live /\ ~Linked(arg'[u])
               /\ stat[arg'[u]] = "ZOMBIE" /\ pc'[arg'[u]] \in DeadPoints
    <3>1. pc[u] \in TakenPoints /\ arg'[u] = arg[u]
      BY <1>2, <1>3, <2>3 DEF Harmless
    <3>2. /\ arg[u] \in live /\ ~Linked(arg[u])
          /\ stat[arg[u]] = "ZOMBIE" /\ pc[arg[u]] \in DeadPoints
      BY <3>1 DEF ReaperFits, TakenPoints
    <3> QED  BY <1>2, <1>3, <3>1, <3>2 DEF Harmless
  <2> QED  BY <1>1, <2>1, <2>2, <2>3 DEF ReaperFits, PickedPoints, TakenPoints
<1>11. IdleFits'
  BY <1>2, <1>3, Constants DEF IdleFits, IdlePoints
<1>12. TickFits'
  BY DEF TickFits
<1> QED  BY <1>5, <1>6, <1>7, <1>8, <1>9, <1>10, <1>11, <1>12, <1>13 DEF Where

-----------------------------------------------------------------------------
(* Steps of the running thread that touch neither a list nor a stat.        *)

\* A plain move: it stays on the same side of every other window too.
Plain(from, to) ==
    /\ Harmless(from, to)
    /\ to # "run"
    /\ to \in PickedPoints => from \in PickedPoints
    /\ to \in ForkPoints \cup ParentPoints => from \in ForkPoints \cup ParentPoints
    /\ from \in NewChildPoints => to \in NewChildPoints
    /\ from \in IdlePoints \ {"run"} => to \in IdlePoints
    /\ from # "semw_for"
    /\ \A s \in Stats : StatFits(s, from) /\ (from = "run" => s = "READY") => StatFits(s, to)

\* The pairs of consecutive statements between which nothing happens but a
\* lock taken or freed, or a field of the family tree set.
LEMMA PlainMoves ==
    /\ Plain("fork_lock", "fork_adopt")
    /\ Plain("fork_rr", "fork_enqueue")
    /\ Plain("sleep_rr", "sleep_dequeue")
    /\ Plain("sleep_tq", "sleep_add")
    /\ Plain("sleep_half", "sleep_unlock")
    /\ Plain("sleep_unlock", "sleep_sched")
    /\ Plain("wait_rr", "wait_dequeue")
    /\ Plain("prio_lock", "prio_rr")
    /\ Plain("prio_rr", "prio_dequeue")
    /\ Plain("prio_rr2", "prio_enqueue")
    /\ Plain("prio_unlock", "prio_sched")
    /\ Plain("exit_rr", "exit_dequeue")
    /\ Plain("exit_unlink", "exit_lock")
    /\ Plain("exit_lock", "exit_reparent")
    /\ Plain("exit_reparent", "exit_check")
    /\ Plain("exit_wake", "exit_enqueue")
    /\ Plain("exit_unlock", "exit_unlockp")
    /\ Plain("exit_unlockp", "exit_mark")
    /\ Plain("exit_tq", "exit_link")
    /\ Plain("exit_tqunlock", "exit_sched")
    /\ Plain("reap_tq", "reap_pick")
    /\ Plain("reap_tq2", "reap_unlink")
    /\ Plain("reap_unlock", "reap_kill")
    /\ Plain("run", "sleep_rr")
    /\ Plain("run", "wait_rr")
    /\ Plain("run", "yield_sched")
    /\ Plain("run", "prio_lock")
    /\ Plain("run", "exit_rr")
<1>1. /\ Plain("fork_lock", "fork_adopt")
      /\ Plain("fork_rr", "fork_enqueue")
      /\ Plain("sleep_rr", "sleep_dequeue")
      /\ Plain("sleep_tq", "sleep_add")
      /\ Plain("sleep_half", "sleep_unlock")
      /\ Plain("sleep_unlock", "sleep_sched")
      /\ Plain("wait_rr", "wait_dequeue")
  BY ZenonT(40) DEF Plain, Harmless, SemHarmless, NamedPoints, PostedPoints, Places, Points, SemPoints,
     Stats, StatFits, Windows, Unlinked, DeadPoints, ForkPoints, WakePoints, ReapPoints,
     TakenPoints, PickedPoints, ParentPoints, NewChildPoints, IdlePoints, SleepPoints
<1>2. /\ Plain("prio_lock", "prio_rr")
      /\ Plain("prio_rr", "prio_dequeue")
      /\ Plain("prio_rr2", "prio_enqueue")
      /\ Plain("prio_unlock", "prio_sched")
      /\ Plain("exit_rr", "exit_dequeue")
      /\ Plain("exit_unlink", "exit_lock")
      /\ Plain("exit_lock", "exit_reparent")
  BY ZenonT(40) DEF Plain, Harmless, SemHarmless, NamedPoints, PostedPoints, Places, Points, SemPoints,
     Stats, StatFits, Windows, Unlinked, DeadPoints, ForkPoints, WakePoints, ReapPoints,
     TakenPoints, PickedPoints, ParentPoints, NewChildPoints, IdlePoints, SleepPoints
<1>3. /\ Plain("exit_reparent", "exit_check")
      /\ Plain("exit_wake", "exit_enqueue")
      /\ Plain("exit_unlock", "exit_unlockp")
      /\ Plain("exit_unlockp", "exit_mark")
      /\ Plain("exit_tq", "exit_link")
      /\ Plain("exit_tqunlock", "exit_sched")
      /\ Plain("reap_tq", "reap_pick")
  BY ZenonT(40) DEF Plain, Harmless, SemHarmless, NamedPoints, PostedPoints, Places, Points, SemPoints,
     Stats, StatFits, Windows, Unlinked, DeadPoints, ForkPoints, WakePoints, ReapPoints,
     TakenPoints, PickedPoints, ParentPoints, NewChildPoints, IdlePoints, SleepPoints
<1>4. /\ Plain("reap_tq2", "reap_unlink")
      /\ Plain("reap_unlock", "reap_kill")
      /\ Plain("run", "sleep_rr")
      /\ Plain("run", "wait_rr")
      /\ Plain("run", "yield_sched")
      /\ Plain("run", "prio_lock")
      /\ Plain("run", "exit_rr")
  BY ZenonT(40) DEF Plain, Harmless, SemHarmless, NamedPoints, PostedPoints, Places, Points, SemPoints,
     Stats, StatFits, Windows, Unlinked, DeadPoints, ForkPoints, WakePoints, ReapPoints,
     TakenPoints, PickedPoints, ParentPoints, NewChildPoints, IdlePoints, SleepPoints
<1> QED  BY <1>1, <1>2, <1>3, <1>4

\* What only depends on the lists, live, stat and prio.
LEMMA ListsUnchanged ==
    ASSUME GInv, UNCHANGED <<queues, live, stat, prio>>
    PROVE  QueuesType' /\ BitmapsExact' /\ ListsExact' /\ SemsWait'
           /\ \A h \in Heads : On(h)' = On(h)
BY DEF GInv, Typed, queues, QueuesType, BitmapsExact, ListsExact, SemsWait, On

\* A step that only moves the running thread from one harmless point to
\* another and touches no list, stat or local pointer keeps all parts but Typed.
LEMMA PlainStep ==
    ASSUME GInv, irq = "none", NEW to, Plain(pc[current], to), Goto(to),
           pc[current] = "run" => current \in Workers,
           UNCHANGED <<queues, current, arg, live, stat, prio, wait_for, parent, irq>>
    PROVE  BitmapsExact' /\ ListsExact' /\ SemsWait' /\ Where'
<1>1. /\ QueuesType' /\ BitmapsExact' /\ ListsExact' /\ SemsWait'
      /\ \A h \in Heads : On(h)' = On(h)
  BY ListsUnchanged
<1>2. current \in Tasks /\ current \in live /\ pc \in [Tasks -> Places] /\ stat[current] \in Stats
  BY DEF GInv, Typed, Running
<1>3. StatFits(stat[current], to)
  BY <1>2 DEF GInv, StatPoints, Running, Plain
<1>4. to \in PickedPoints => arg[current] \in On(Zombie)
  BY <1>2 DEF GInv, ReaperFits, Plain, PickedPoints
<1>5. to \in ForkPoints \cup ParentPoints => arg[current] \in Tasks
  BY <1>2 DEF GInv, PointersSet, Plain
<1>6. /\ Harmless(pc[current], to) /\ to # "run" /\ pc[current] # "semw_for"
      /\ pc[current] \in NewChildPoints => to \in NewChildPoints
  BY DEF Plain
<1>7. pc' = [pc EXCEPT ![current] = to] /\ pc'[current] = to
  BY <1>2 DEF Goto
<1>8. current = Idle => to \in IdlePoints
  BY Constants DEF GInv, IdleFits, Plain, IdlePoints
<1>9. Where'
  BY <1>1, <1>2, <1>3, <1>4, <1>5, <1>6, <1>7, <1>8, ControlStep
<1> QED  BY <1>1, <1>9

\* spin_lock (spinlock.h:23) keeps the invariant.
LEMMA AcquireStep ==
    ASSUME GInv, NEW l, NEW from, NEW to, Acquire(l, from, to), Plain(from, to), from # "run"
    PROVE  GInv'
<1>1. Typed'
  BY DEF GInv, Typed, QueuesType, Acquire, Goto, Plain, Harmless, queues, family, fields, ticks,
     cpu
<1>2. BitmapsExact' /\ ListsExact' /\ SemsWait' /\ Where'
  BY PlainStep DEF Acquire, At, family, fields, cpu
<1> QED  BY <1>1, <1>2 DEF GInv, Where

\* spin_unlock (spinlock.h:35) keeps the invariant.
LEMMA UnlockStep ==
    ASSUME GInv, NEW l, NEW from, NEW to, Unlock(l, from, to), Plain(from, to), from # "run"
    PROVE  GInv'
<1>1. Typed'
  BY DEF GInv, Typed, QueuesType, Unlock, Release, Goto, Plain, Harmless, queues, family, fields,
     ticks, cpu
<1>2. BitmapsExact' /\ ListsExact' /\ SemsWait' /\ Where'
  BY PlainStep DEF Unlock, At, family, fields, cpu
<1> QED  BY <1>1, <1>2 DEF GInv, Where

\* A worker entering a service keeps the invariant.
LEMMA CallStep ==
    ASSUME GInv, NEW name, NEW to, Call(name, to), Plain("run", to)
    PROVE  GInv'
<1>1. Typed'
  BY DEF GInv, Typed, QueuesType, Call, Goto, Plain, Harmless, queues, family, fields, ticks, cpu
<1>2. BitmapsExact' /\ ListsExact' /\ SemsWait' /\ Where'
  BY PlainStep DEF Call, At, family, fields, cpu
<1> QED  BY <1>1, <1>2 DEF GInv, Where

\* The second half of list_add_tail in sleep (list.h:26) keeps the invariant.
LEMMA FinishLinkStep ==
    ASSUME GInv, FinishLink  PROVE GInv'
<1>1. Plain("sleep_half", "sleep_unlock")
  BY PlainMoves
<1>2. Typed'
  BY <1>1 DEF GInv, Typed, QueuesType, FinishLink, Goto, Plain, Harmless, queues, family, fields,
     ticks, cpu
<1>3. BitmapsExact' /\ ListsExact' /\ SemsWait' /\ Where'
  BY <1>1, PlainStep DEF FinishLink, At, family, fields, cpu
<1> QED  BY <1>2, <1>3 DEF GInv, Where

\* task_reset_prio always finds the running thread ready.
LEMMA LockSelfStep ==
    ASSUME GInv, LockSelf  PROVE GInv'
<1>1. current \in Tasks /\ stat \in [Tasks -> Stats]
  BY DEF GInv, Typed
<1>2. stat[current] = "READY"
  BY <1>1 DEF LockSelf, At, GInv, StatPoints, Stats, StatFits, SleepPoints, DeadPoints
<1>3. Goto("prio_rr") /\ pc[current] = "prio_lock"
  BY <1>2 DEF LockSelf, At
<1>4. Plain("prio_lock", "prio_rr")
  BY PlainMoves
<1>5. Typed'
  BY <1>3, <1>4 DEF GInv, Typed, QueuesType, LockSelf, Goto, Plain, Harmless, queues, family,
     fields, ticks, cpu
<1>6. BitmapsExact' /\ ListsExact' /\ SemsWait' /\ Where'
  BY <1>3, <1>4, PlainStep DEF LockSelf, At, family, fields, cpu
<1> QED  BY <1>5, <1>6 DEF GInv, Where

\* task_exit: the exiting thread has a parent, and locks it.
LEMMA LockParentStep ==
    ASSUME GInv, LockParent  PROVE GInv'
<1>1. /\ current \in Tasks /\ current \in live /\ pc[current] = "exit_lockp" /\ irq = "none"
      /\ pc \in [Tasks -> Places] /\ arg \in [Tasks -> Tasks \cup {NULL}]
      /\ parent \in [Tasks -> Tasks \cup {NULL}] /\ stat[current] \in Stats
  BY DEF GInv, Typed, Running, LockParent, At
<1>2. parent[current] \in Tasks
  <2>1. current # Idle
    BY <1>1 DEF GInv, IdleFits, ForkPoints
  <2>2. ASSUME parent[current] = NULL  PROVE FALSE
    <3>1. PICK u \in Tasks : pc[u] \in NewChildPoints /\ arg[u] = current
      BY <1>1, <2>1, <2>2 DEF GInv, PointersSet, NewChildPoints
    <3>2. InHand(u, current)
      BY <3>1 DEF InHand, NewChildPoints, ForkPoints
    <3> QED  BY <1>1, <3>2 DEF GInv, HandsOff
  <2> QED  BY <1>1, <2>2
<1>3. /\ pc' = [pc EXCEPT ![current] = "exit_unlink"]
      /\ arg' = [arg EXCEPT ![current] = parent[current]]
      /\ UNCHANGED <<queues, current, live, stat, prio, wait_for, parent, irq>>
  BY DEF LockParent, Goto, family, fields, cpu
<1>4. Typed'
  BY ZenonT(40), <1>1, <1>2, <1>3 DEF GInv, Typed, QueuesType, LockParent, Places, Points, SemPoints, queues,
     family, fields, ticks, cpu
<1>5. BitmapsExact' /\ ListsExact' /\ SemsWait' /\ \A h \in Heads : On(h)' = On(h)
  BY <1>3, ListsUnchanged
<1>7. Harmless("exit_lockp", "exit_unlink") /\ StatFits(stat[current], "exit_unlink")
  BY <1>1 DEF GInv, StatPoints, Stats, StatFits, Harmless, SemHarmless, NamedPoints,
     PostedPoints, Places, Points, SemPoints, Windows, Unlinked, DeadPoints, ForkPoints,
              WakePoints, ReapPoints, TakenPoints, SleepPoints
<1>8. "exit_unlink" \notin ForkPoints \cup WakePoints \cup TakenPoints \cup PickedPoints
      /\ pc[current] \notin NewChildPoints /\ current # Idle
  BY <1>1 DEF ForkPoints, WakePoints, TakenPoints, PickedPoints, NewChildPoints, GInv, IdleFits
<1>9. Where'
  BY <1>1, <1>2, <1>3, <1>5, <1>7, <1>8, ControlStep
<1> QED  BY <1>4, <1>5, <1>9 DEF GInv, Where

\* What ControlStep needs of a plain move.
LEMMA PlainFacts ==
    ASSUME GInv, NEW to, Plain(pc[current], to)
    PROVE  /\ Harmless(pc[current], to) /\ to # "run"
           /\ pc[current] # "run" => StatFits(stat[current], to) /\ (current = Idle => to \in IdlePoints)
           /\ to \in PickedPoints => arg[current] \in On(Zombie)
           /\ to \in ForkPoints \cup ParentPoints => arg[current] \in Tasks
           /\ pc[current] \in NewChildPoints => to \in NewChildPoints
           /\ pc[current] # "semw_for"
<1>1. current \in Tasks /\ stat[current] \in Stats
  BY DEF GInv, Typed
<1> QED  BY <1>1, Constants DEF GInv, StatPoints, IdleFits, ReaperFits, PointersSet, Plain,
            PickedPoints, IdlePoints

\* list_del of the sibling node (sched.c:52) keeps the invariant.
LEMMA UnlinkSiblingStep ==
    ASSUME GInv, UnlinkSibling  PROVE GInv'
<1>1. Plain("exit_unlink", "exit_lock")
  BY PlainMoves
<1>2. Typed'
  BY <1>1 DEF GInv, Typed, QueuesType, UnlinkSibling, Goto, Plain, Harmless, queues, fields,
     ticks, cpu
<1>3. BitmapsExact' /\ ListsExact' /\ SemsWait' /\ Where'
  BY <1>1, PlainStep DEF UnlinkSibling, At, fields, cpu
<1> QED  BY <1>2, <1>3 DEF GInv, Where

\* The children's new parent is not null.
LEMMA ReparentStep ==
    ASSUME GInv, Reparent  PROVE GInv'
<1>1. Plain("exit_reparent", "exit_check")
  BY PlainMoves
<1>2. /\ irq = "none" /\ pc[current] = "exit_reparent"
      /\ pc' = [pc EXCEPT ![current] = "exit_check"]
      /\ UNCHANGED <<queues, current, arg, live, stat, prio, wait_for, irq>>
      /\ parent' = [t \in Tasks |-> IF t \in children[current] THEN arg[current] ELSE parent[t]]
  BY DEF Reparent, At, Goto, fields, cpu
<1>3. current \in Tasks /\ current \in live /\ arg[current] \in Tasks /\ pc \in [Tasks -> Places]
      /\ live \subseteq Tasks
  BY <1>2 DEF GInv, Typed, Running, PointersSet, ParentPoints
<1>4. Typed'
  BY <1>1, <1>3 DEF GInv, Typed, QueuesType, Reparent, Goto, Plain, Harmless, queues, fields,
     ticks, cpu
<1>5. BitmapsExact' /\ ListsExact' /\ SemsWait' /\ \A h \in Heads : On(h)' = On(h)
  BY <1>2, ListsUnchanged
<1>6. \A t \in live : parent'[t] = NULL => parent[t] = NULL
  BY <1>2, <1>3, Constants
<1>7. Where'
  BY <1>1, <1>2, <1>3, <1>5, <1>6, PlainFacts, ControlStep
<1> QED  BY <1>4, <1>5, <1>7 DEF GInv, Where

\* The new child has its parent from here on.
LEMMA AdoptStep ==
    ASSUME GInv, Adopt  PROVE GInv'
<1>1. /\ irq = "none" /\ pc[current] = "fork_adopt"
      /\ pc' = [pc EXCEPT ![current] = "fork_rr"]
      /\ UNCHANGED <<queues, current, arg, live, stat, prio, wait_for, irq>>
      /\ parent' = [parent EXCEPT ![arg[current]] = current]
  BY DEF Adopt, At, Goto, fields, cpu
<1>2. /\ current \in Tasks /\ current \in live /\ arg[current] \in Tasks /\ pc \in [Tasks -> Places]
      /\ live \subseteq Tasks /\ stat[current] \in Stats /\ parent \in [Tasks -> Tasks \cup {NULL}]
  BY <1>1 DEF GInv, Typed, Running, PointersSet, ForkPoints
<1>3. Typed'
  <2>1. children' \in [Tasks -> SUBSET Tasks]
    BY <1>2 DEF GInv, Typed, Adopt
  <2>2. pc' \in [Tasks -> Places] /\ parent' \in [Tasks -> Tasks \cup {NULL}]
    BY <1>1, <1>2 DEF Places, Points, SemPoints
  <2>3. lock' \in [Locks -> Tasks \cup {NULL}]
    BY DEF GInv, Typed, Adopt, Release
  <2>4. UNCHANGED <<queues, current, arg, live, fields, ticks, cpu>>
    BY DEF Adopt
  <2> QED  BY <2>1, <2>2, <2>3, <2>4 DEF GInv, Typed, QueuesType, queues, fields, ticks, cpu
<1>4. BitmapsExact' /\ ListsExact' /\ SemsWait' /\ \A h \in Heads : On(h)' = On(h)
  BY <1>1, ListsUnchanged
<1>5. \A t \in live : parent'[t] = NULL => parent[t] = NULL /\ arg[current] # t
  BY <1>1, <1>2, Constants
<1>6. /\ Harmless("fork_adopt", "fork_rr") /\ "fork_rr" \in IdlePoints
      /\ "fork_rr" \notin PickedPoints /\ StatFits(stat[current], "fork_rr")
  BY <1>1, <1>2 DEF GInv, StatPoints, Harmless, SemHarmless, NamedPoints, PostedPoints, Places,
     Points, SemPoints, Stats, StatFits, Windows, Unlinked, DeadPoints,
     ForkPoints, WakePoints, ReapPoints, TakenPoints, PickedPoints, IdlePoints, SleepPoints
<1>7. Where'
  BY <1>1, <1>2, <1>4, <1>5, <1>6, ControlStep
<1> QED  BY <1>3, <1>4, <1>7 DEF GInv, Where

\* kkill_zombie picks a thread of the zombie queue, or none.
LEMMA PickZombieStep ==
    ASSUME GInv, PickZombie  PROVE GInv'
<1> DEFINE z == tq_pick_next(Zombie)
           to == IF z \in {current, NULL} THEN "reap_sched" ELSE "reap_tq2"
<1>1. /\ irq = "none" /\ pc[current] = "reap_pick"
      /\ pc' = [pc EXCEPT ![current] = to]
      /\ arg' = [arg EXCEPT ![current] = z]
      /\ UNCHANGED <<queues, current, live, stat, prio, wait_for, parent, irq>>
  BY DEF PickZombie, At, Goto, family, fields, cpu
<1>2. /\ current \in Tasks /\ current \in live /\ pc \in [Tasks -> Places]
      /\ arg \in [Tasks -> Tasks \cup {NULL}] /\ stat[current] \in Stats
  BY DEF GInv, Typed, Running
<1>3. z \in On(Zombie) \cup {NULL} /\ z \in Tasks \cup {NULL}
  <2>1. list[Zombie] \in Seq(Tasks)
    BY HeadsDiffer DEF GInv, Typed, QueuesType
  <2>2. ToSet(list[Zombie]) \subseteq Tasks
        /\ (list[Zombie] # <<>> => First(list[Zombie]) \in ToSet(list[Zombie]))
    BY <2>1, EmptyList
  <2> QED  BY <2>2 DEF tq_pick_next, First, On
<1> HIDE DEF z
<1>4. Typed'
  <2>1. /\ lock' = [lock EXCEPT ![Zombie] = NULL]
        /\ UNCHANGED <<queues, current, family, fields, ticks, cpu>>
    BY DEF PickZombie, Release
  <2>2. to \in Places
    BY DEF Places, Points, SemPoints
  <2> HIDE DEF to
  <2>3. pc' \in [Tasks -> Places] /\ arg' \in [Tasks -> Tasks \cup {NULL}]
    BY <1>1, <1>2, <1>3, <2>2
  <2> QED  BY <2>1, <2>3 DEF GInv, Typed, QueuesType, queues, family, fields, ticks, cpu
<1>5. BitmapsExact' /\ ListsExact' /\ SemsWait' /\ \A h \in Heads : On(h)' = On(h)
  BY <1>1, ListsUnchanged
<1>6. /\ Harmless("reap_pick", to) /\ current # Idle /\ to # "run"
      /\ to \notin ForkPoints \cup WakePoints \cup TakenPoints \cup ParentPoints
      /\ "reap_pick" \notin NewChildPoints /\ StatFits(stat[current], to)
      /\ (to \in PickedPoints => z \in On(Zombie))
  BY <1>1, <1>2, <1>3 DEF GInv, StatPoints, IdleFits, Harmless, SemHarmless, NamedPoints,
     PostedPoints, Places, Points, SemPoints, Stats, StatFits, Windows, Unlinked, DeadPoints,
     ForkPoints, WakePoints, ReapPoints, TakenPoints, PickedPoints, ParentPoints, NewChildPoints,
     SleepPoints
<1> HIDE DEF to
<1>7. Where'
  BY <1>1, <1>2, <1>5, <1>6, ControlStep
<1> QED  BY <1>4, <1>5, <1>7 DEF GInv, Where

\* kernel_thread returns (sched.c:229) and leaves its pointer behind.
LEMMA ReturnPidStep ==
    ASSUME GInv, ReturnPid  PROVE GInv'
<1>1. /\ irq = "none" /\ pc[current] = "fork_ret"
      /\ pc' = [pc EXCEPT ![current] = "run"]
      /\ arg' = [arg EXCEPT ![current] = NULL]
      /\ UNCHANGED <<queues, current, live, stat, prio, wait_for, parent, irq>>
  BY DEF ReturnPid, At, Goto, family, fields, cpu
<1>2. /\ current \in Tasks /\ current \in live /\ pc \in [Tasks -> Places]
      /\ arg \in [Tasks -> Tasks \cup {NULL}] /\ stat[current] \in Stats
  BY DEF GInv, Typed, Running
<1>3. Typed'
  <2>1. UNCHANGED <<queues, lock, current, family, fields, ticks, cpu>>
    BY DEF ReturnPid
  <2>2. "run" \in Places
    BY DEF Places, Points
  <2>3. pc' \in [Tasks -> Places] /\ arg' \in [Tasks -> Tasks \cup {NULL}]
    BY <1>1, <1>2, <2>2
  <2> QED  BY <2>1, <2>3 DEF GInv, Typed, QueuesType, queues, family, fields, ticks, cpu
<1>4. BitmapsExact' /\ ListsExact' /\ SemsWait' /\ \A h \in Heads : On(h)' = On(h)
  BY <1>1, ListsUnchanged
<1>5. /\ Harmless("fork_ret", "run") /\ stat[current] = "READY" /\ StatFits("READY", "run")
      /\ "run" \in IdlePoints
      /\ "run" \notin ForkPoints \cup WakePoints \cup TakenPoints \cup PickedPoints \cup ParentPoints
      /\ "fork_ret" \notin NewChildPoints
  BY <1>1, <1>2 DEF GInv, StatPoints, Harmless, SemHarmless, NamedPoints,
     PostedPoints, Places, Points, SemPoints, Stats, StatFits, Windows, Unlinked, DeadPoints,
     ForkPoints, WakePoints, ReapPoints, TakenPoints, PickedPoints, ParentPoints, NewChildPoints,
     SleepPoints, IdlePoints
<1>6. Where'
  BY <1>1, <1>2, <1>4, <1>5, ControlStep
<1> QED  BY <1>3, <1>4, <1>6 DEF GInv, Where

-----------------------------------------------------------------------------
(* schedule(), called by a thread or by the interrupt.                      *)

\* What the invariant says of the lists, for the lemmas about the list operations.
LEMMA ListFacts ==
    ASSUME GInv
    PROVE  /\ QueuesType /\ BitmapsExact /\ NoRepeats
           /\ list[Run(IdlePrio)] # <<>>
           /\ \A h \in Heads : On(h) \subseteq live
           /\ \A t, h : h \in Heads /\ t \in On(h) => Linked(t)
<1>1. list[Run(IdlePrio)] # <<>>
  BY Constants, EmptyList DEF GInv, Typed, QueuesType, IdleFits, On
<1> QED  BY <1>1 DEF GInv, Typed, ListsExact, NoRepeats, Linked

\* The picked thread is live and ready, and the rotation moves no thread to
\* another list.
LEMMA PickedIsReady ==
    ASSUME GInv, rr_pick_next, UNCHANGED <<live, stat, prio>>
    PROVE  /\ QueuesType' /\ BitmapsExact' /\ ListsExact' /\ SemsWait'
           /\ \A h \in Heads : On(h)' = On(h)
           /\ PickHead \in live /\ Linked(PickHead) /\ stat[PickHead] = "READY"
<1>1. /\ QueuesType' /\ BitmapsExact' /\ NoRepeats'
      /\ \A h \in Heads : On(h)' = On(h)
  BY ListFacts, Constants, RrPickNext
<1>2. PickPrio \in Prios /\ PickHead \in On(Run(PickPrio))
  BY ListFacts, Constants, PickFinds
<1>3. PickHead \in live /\ Linked(PickHead) /\ stat[PickHead] = "READY"
  BY <1>2, HeadsDiffer DEF GInv, ListsExact, Linked
<1>4. ListsExact'
  BY <1>1 DEF GInv, ListsExact, NoRepeats
<1>5. SemsWait'
  BY <1>1, HeadsDiffer DEF GInv, SemsWait
<1> QED  BY <1>1, <1>3, <1>4, <1>5

ScheduleMoves ==
    ({"sleep_sched", "wait_sched", "yield_sched", "prio_sched", "semw_sched"} \X {"run"})
      \cup {<<"fork_sched", "fork_ret">>, <<"exit_sched", "dead">>, <<"reap_sched", "reap_tq">>}

\* schedule() called by a thread (sched.c:118) keeps the invariant: what the
\* switched out thread still points to is in nobody's hands because of it, and
\* the one picked is live and ready.
LEMMA ScheduleStep ==
    ASSUME GInv, NEW from, NEW to, <<from, to>> \in ScheduleMoves, Schedule(from, to)
    PROVE  GInv'
<1>1. /\ irq = "none" /\ pc[current] = from
      /\ rr_pick_next /\ current' = PickHead
      /\ pc' = [pc EXCEPT ![current] = to]
      /\ arg' = [arg EXCEPT ![current] = IF to = "fork_ret" THEN @ ELSE NULL]
      /\ UNCHANGED <<lock, family, fields, ticks, cpu>>
      /\ UNCHANGED <<live, stat, prio, wait_for, parent, irq>>
  BY DEF Schedule, At, Goto, family, fields, cpu
<1>2. /\ current \in Tasks /\ stat[current] \in Stats /\ live \subseteq Tasks
      /\ pc \in [Tasks -> Places] /\ arg \in [Tasks -> Tasks \cup {NULL}]
  BY DEF GInv, Typed
<1>3. /\ QueuesType' /\ BitmapsExact' /\ ListsExact' /\ SemsWait'
      /\ \A h \in Heads : On(h)' = On(h)
      /\ PickHead \in live /\ Linked(PickHead) /\ stat[PickHead] = "READY"
  BY <1>1, PickedIsReady
<1>4. /\ Harmless(from, to) /\ StatFits(stat[current], to)
      /\ current = Idle => to \in IdlePoints
      /\ to \notin ForkPoints \cup WakePoints \cup TakenPoints \cup PickedPoints \cup ParentPoints
      /\ from \notin NewChildPoints \cup {"semw_for"}
  <2>1. StatFits(stat[current], from) /\ (current = Idle => from \in IdlePoints)
    BY <1>1, <1>2 DEF GInv, StatPoints, IdleFits, IdlePoints
  <2> USE DEF Harmless, SemHarmless, NamedPoints, PostedPoints, Places, Points, SemPoints, Stats,
              StatFits, Windows, Unlinked, DeadPoints, ForkPoints, WakePoints,
       ReapPoints, TakenPoints, PickedPoints, ParentPoints, NewChildPoints, IdlePoints,
       SleepPoints
  <2>2. CASE from = "exit_sched" /\ to = "dead"
    BY <1>2, <2>1, <2>2
  <2>3. CASE from = "reap_sched" /\ to = "reap_tq"
    BY <1>2, <2>1, <2>3
  <2>4. CASE /\ from \in {"sleep_sched", "wait_sched", "yield_sched", "prio_sched", "semw_sched"}
             /\ to = "run"
    BY <1>2, <2>1, <2>4
  <2>5. CASE from = "fork_sched" /\ to = "fork_ret"
    BY <1>2, <2>1, <2>5
  <2> QED  BY <2>2, <2>3, <2>4, <2>5 DEF ScheduleMoves
<1>5. Typed'
  BY <1>1, <1>2, <1>3, <1>4 DEF GInv, Typed, Harmless, family, fields, ticks, cpu
<1>6. Where'
  BY <1>1, <1>2, <1>3, <1>4, ControlStep
<1> QED  BY <1>3, <1>5, <1>6 DEF GInv, Where

\* The switch at the end of sched_tick (sched.c:152) keeps the invariant.
LEMMA TickSwitchStep ==
    ASSUME GInv, TickSwitch  PROVE GInv'
<1>1. /\ irq' = "none" /\ need' = FALSE
      /\ rr_pick_next /\ current' = PickHead
      /\ UNCHANGED <<lock, pc, arg, family, fields, ticks, cursor, temp>>
      /\ UNCHANGED <<live, stat, prio, wait_for, parent>>
  BY DEF TickSwitch, family, fields
<1>2. /\ QueuesType' /\ BitmapsExact' /\ ListsExact' /\ SemsWait'
      /\ \A h \in Heads : On(h)' = On(h)
      /\ PickHead \in live /\ Linked(PickHead) /\ stat[PickHead] = "READY"
  BY <1>1, PickedIsReady
<1>3. Typed'
  BY <1>1, <1>2 DEF GInv, Typed, family, fields, ticks
<1>4. \A t : Linked(t)' <=> Linked(t)
  BY <1>2 DEF Linked
<1>5. \A u, t : InHand(u, t)' <=> InHand(u, t)
  BY <1>1 DEF InHand
<1>6. WindowsUnlinked' /\ StatPoints' /\ PointersSet'
  BY <1>1, <1>4 DEF GInv, WindowsUnlinked, StatPoints, PointersSet
<1>7. Running' /\ TickFits'
  BY <1>1, <1>2 DEF GInv, Running, TickFits
<1>8. HandsOff'
  BY <1>1, <1>2, <1>4, <1>5 DEF GInv, HandsOff
<1>9. ReaperFits' /\ IdleFits'
  BY <1>1, <1>2, <1>4, Constants, HeadsDiffer DEF GInv, ReaperFits, IdleFits
<1>10. WaitersFit'
  BY <1>1, <1>2, <1>4, <1>5, HeadsDiffer DEF GInv, WaitersFit
<1> QED  BY <1>2, <1>3, <1>6, <1>7, <1>8, <1>9, <1>10 DEF GInv

-----------------------------------------------------------------------------
(* The other steps of sched_tick.                                           *)

\* Steps that change nothing but the handler's own variables and the counters.
LEMMA HandlerStep ==
    ASSUME GInv, UNCHANGED <<queues, current, pc, arg, live, stat, prio, wait_for, parent>>, Typed', TickFits'
    PROVE  GInv'
<1>1. /\ BitmapsExact' /\ ListsExact' /\ SemsWait'
      /\ \A h \in Heads : On(h)' = On(h)
  BY ListsUnchanged
<1>2. \A t : Linked(t)' <=> Linked(t)
  BY <1>1 DEF Linked
<1>3. \A u, t : InHand(u, t)' <=> InHand(u, t)
  BY DEF InHand
<1>4. WindowsUnlinked' /\ StatPoints' /\ PointersSet' /\ Running' /\ HandsOff'
  BY <1>2, <1>3 DEF GInv, WindowsUnlinked, StatPoints, PointersSet, Running, HandsOff
<1>5. ReaperFits' /\ IdleFits'
  BY <1>1, <1>2, Constants, HeadsDiffer DEF GInv, ReaperFits, IdleFits
<1>6. WaitersFit'
  BY <1>1, <1>2, <1>3, HeadsDiffer DEF GInv, WaitersFit
<1> QED  BY <1>1, <1>4, <1>5, <1>6 DEF GInv

\* The same threads are seen through unchanged lists.
LEMMA SameView ==
    ASSUME UNCHANGED <<list, pc, arg>>
    PROVE  /\ \A h \in Heads : On(h)' = On(h)
           /\ \A t : Linked(t)' <=> Linked(t)
           /\ \A u, t : InHand(u, t)' <=> InHand(u, t)
<1>1. \A h \in Heads : On(h)' = On(h)
  BY DEF On
<1> QED  BY <1>1 DEF Linked, InHand

\* The arrival of the clock interrupt (sched.c:131) keeps the invariant.
LEMMA TickStep ==
    ASSUME GInv, Tick  PROVE GInv'
<1>1. /\ irq' = "scan" /\ cursor' = First(list[Sleep]) /\ temp' = temp
      /\ UNCHANGED <<queues, current, pc, arg, live, stat, prio, wait_for, parent>>
      /\ UNCHANGED list
  BY DEF Tick, family, fields, queues
<1>2. list[Sleep] \in Seq(Tasks) /\ current \in Tasks
  BY HeadsDiffer DEF GInv, Typed, QueuesType
<1>3. cursor' \in On(Sleep) \cup {NULL} /\ cursor' \in Tasks \cup {NULL}
  BY <1>1, <1>2, EmptyList DEF First, On
<1>4. Typed'
  <2>1. rest_ticks' \in [Tasks -> 1 .. W * W]
    <3>1. Charged(current) \in 1 .. W * W
      <4>1. rest_ticks[current] \in 1 .. W * W /\ prio[current] \in 0 .. W * W - 1 /\ W * W \in Int
        BY <1>2, ListAssumption DEF GInv, Typed, Prios
      <4> QED  BY <4>1 DEF Charged
    <3> QED  BY <3>1 DEF Tick, GInv, Typed
  <2>2. due' \in [Tasks -> 0 .. TickMod - 1]
    BY SchedAssumption DEF Tick, GInv, Typed
  <2>3. need' \in BOOLEAN
    BY DEF Tick
  <2>4. UNCHANGED <<queues, lock, current, pc, arg, family, fields, sleep_ticks, temp>>
    BY DEF Tick
  <2> QED  BY <1>1, <1>3, <2>1, <2>2, <2>3, <2>4
           DEF GInv, Typed, QueuesType, queues, family, fields
<1>5. TickFits'
  BY <1>1, <1>3, SameView, HeadsDiffer DEF TickFits
<1> QED  BY <1>1, <1>4, <1>5, HandlerStep

\* The walk stays on the list, and remembers a thread other than the one it
\* is about to take off.
LEMMA TickScanStep ==
    ASSUME GInv, TickScan  PROVE GInv'
<1> DEFINE next == Succ(list[Sleep], cursor)
<1>1. /\ irq = "scan" /\ cursor # NULL
      /\ \/ irq' = "unlink" /\ temp' = next /\ cursor' = cursor
         \/ cursor' = next /\ irq' = irq /\ temp' = temp
      /\ UNCHANGED <<queues, current, pc, arg, live, stat, prio, wait_for, parent>>
      /\ UNCHANGED list
  BY DEF TickScan, family, fields, queues
<1>2. /\ list[Sleep] \in Seq(Tasks) /\ IsInjective(list[Sleep]) /\ cursor \in ToSet(list[Sleep])
      /\ ToSet(list[Sleep]) \subseteq Tasks
  BY <1>1, HeadsDiffer, EmptyList DEF GInv, Typed, QueuesType, ListsExact, TickFits, On
<1>3. /\ next \in (On(Sleep) \ {cursor}) \cup {NULL} /\ next \in Tasks \cup {NULL}
      /\ cursor \in On(Sleep)
  BY <1>2, SuccList DEF On
<1> HIDE DEF next
<1>4. Typed'
  <2>1. sleep_ticks' \in [Tasks -> 0 .. TickMod - 1]
    <3>1. (sleep_ticks[cursor] - 1) % TickMod \in 0 .. TickMod - 1
      <4>1. sleep_ticks[cursor] \in Int /\ TickMod \in Nat /\ TickMod > 0
        BY <1>2, SchedAssumption DEF GInv, Typed
      <4> QED  BY <4>1
    <3> QED  BY <1>2, <3>1 DEF TickScan, GInv, Typed
  <2>2. cursor' \in Tasks \cup {NULL} /\ temp' \in Tasks \cup {NULL}
        /\ irq' \in {"none", "scan", "unlink", "enqueue"}
    BY <1>1, <1>3 DEF GInv, Typed
  <2>3. UNCHANGED <<queues, lock, current, pc, arg, family, fields, rest_ticks, due, need>>
    BY DEF TickScan
  <2> QED  BY <2>1, <2>2, <2>3 DEF GInv, Typed, QueuesType, queues, family, fields
<1>5. TickFits'
  BY <1>1, <1>3, SameView, HeadsDiffer DEF TickFits
<1> QED  BY <1>1, <1>4, <1>5, HandlerStep

\* The return of the handler without a switch keeps the invariant.
LEMMA TickReturnStep ==
    ASSUME GInv, TickReturn  PROVE GInv'
<1>1. Typed' /\ TickFits'
  BY DEF GInv, Typed, QueuesType, TickReturn, TickFits, queues, family, fields, ticks
<1> QED  BY <1>1, HandlerStep DEF TickReturn, family, fields

\* sleep_que gives up a thread that is asleep, so nobody else is about to
\* enqueue it.
LEMMA TickUnlinkStep ==
    ASSUME GInv, TickUnlink  PROVE GInv'
<1>1. /\ irq = "unlink" /\ irq' = "enqueue"
      /\ tq_dequeue(Sleep, cursor)
      /\ stat' = [stat EXCEPT ![cursor] = "READY"]
      /\ UNCHANGED <<lock, current, pc, arg, family, prio, wait_for, ticks, cursor, temp, need>>
      /\ UNCHANGED <<live, parent>>
  BY DEF TickUnlink, family
<1>2. /\ cursor # NULL /\ cursor \in On(Sleep)
      /\ temp # cursor /\ (temp # NULL => temp \in On(Sleep))
  BY <1>1 DEF GInv, TickFits
<1>3. /\ cursor \in live /\ stat[cursor] = "SLEEP" /\ Linked(cursor) /\ cursor \in Tasks
      /\ \A p \in Prios : cursor \notin On(Run(p))
      /\ pc \in [Tasks -> Places] /\ stat \in [Tasks -> Stats] /\ live \subseteq Tasks
  BY <1>2, HeadsDiffer DEF GInv, ListsExact, Typed, Linked
<1>4. /\ QueuesType' /\ BitmapsExact' /\ NoRepeats'
      /\ \A h \in Heads : On(h)' = On(h) \ {cursor}
  BY <1>1, <1>3, ListFacts, HeadsDiffer, TqDequeue
<1>5. /\ \A t : Linked(t)' <=> Linked(t) /\ t # cursor
      /\ \A u, t : InHand(u, t)' <=> InHand(u, t)
      /\ stat'[cursor] = "READY" /\ \A t \in Tasks \ {cursor} : stat'[t] = stat[t]
  BY <1>1, <1>3, <1>4 DEF Linked, InHand
<1>6. /\ pc[cursor] \in SleepPoints \cup {"run"}
      /\ pc[cursor] \notin {"sleep_tq", "sleep_add"} \cup Windows
  BY <1>3 DEF GInv, StatPoints, StatFits, WindowsUnlinked, Windows, Unlinked
<1>7. Typed'
  BY <1>1, <1>3, <1>4 DEF GInv, Typed, Stats, family, ticks
<1>8. ListsExact' /\ SemsWait'
  BY <1>1, <1>3, <1>4, <1>5, HeadsDiffer DEF GInv, ListsExact, SemsWait, NoRepeats
<1>9. WindowsUnlinked' /\ PointersSet' /\ Running'
  BY <1>1, <1>3, <1>5 DEF GInv, WindowsUnlinked, PointersSet, Running, Typed
<1>10. StatPoints'
  <2>1. StatFits("READY", pc[cursor])
    BY <1>6 DEF StatFits, SleepPoints
  <2> QED  BY <1>1, <1>5, <2>1 DEF GInv, StatPoints
<1>11. HandsOff'
  BY <1>1, <1>3, <1>5 DEF GInv, HandsOff
<1>12. ReaperFits'
  BY <1>1, <1>3, <1>4, <1>5, HeadsDiffer DEF GInv, ReaperFits, ListsExact
<1>13. IdleFits'
  BY <1>1, <1>3, <1>4, Constants DEF GInv, IdleFits
<1>14. TickFits'
  <2>1. \A u \in Tasks : ~InHand(u, cursor)
    BY <1>3 DEF GInv, HandsOff
  <2> QED  BY <1>1, <1>2, <1>3, <1>4, <1>5, <1>6, <2>1, HeadsDiffer DEF TickFits
<1>15. WaitersFit'
  BY <1>1, <1>3, <1>4, <1>5, <1>6, HeadsDiffer DEF GInv, WaitersFit, SleepPoints
<1> QED  BY <1>4, <1>7, <1>8, <1>9, <1>10, <1>11, <1>12, <1>13, <1>14, <1>15 DEF GInv

\* The sleeper goes back to the run queue of its priority.
LEMMA TickEnqueueStep ==
    ASSUME GInv, TickEnqueue  PROVE GInv'
<1>1. cursor \in Tasks /\ prio[cursor] \in Prios
  BY DEF TickEnqueue, GInv, Typed, TickFits
<1>2. PICK c \in Tasks, p \in Prios : c = cursor /\ p = prio[cursor]
  BY <1>1
<1> DEFINE g == Run(p)
<1>3. /\ irq = "enqueue" /\ irq' = "scan" /\ cursor' = temp /\ temp' = NULL /\ need' = TRUE
      /\ rr_enqueue(c, p) /\ c = cursor /\ p = prio[c]
      /\ UNCHANGED <<lock, current, pc, arg, family, fields, ticks>>
      /\ UNCHANGED <<live, stat, prio, wait_for, parent>>
  BY <1>2 DEF TickEnqueue, family, fields
<1>4. /\ c # NULL /\ c \in live /\ ~Linked(c) /\ stat[c] = "READY"
      /\ pc[c] \in SleepPoints \cup {"run"}
      /\ pc[c] \notin {"sleep_tq", "sleep_add"}
      /\ \A u \in Tasks : ~InHand(u, c)
      /\ temp # NULL => temp \in On(Sleep)
  BY <1>3 DEF GInv, TickFits
<1>5. g \in Heads /\ c \notin On(g) /\ live \subseteq Tasks
  BY <1>4, HeadsDiffer DEF GInv, Typed, Linked
<1>6. /\ QueuesType' /\ BitmapsExact' /\ NoRepeats'
      /\ On(g)' = On(g) \cup {c}
      /\ \A h \in Heads \ {g} : On(h)' = On(h)
  BY <1>3, <1>5, ListFacts, RrEnqueue
<1> HIDE DEF g
<1>7. /\ \A t : Linked(t)' <=> Linked(t) \/ t = c
      /\ \A u, t : InHand(u, t)' <=> InHand(u, t)
  BY <1>3, <1>5, <1>6 DEF Linked, InHand
<1>8. Typed'
  BY <1>3, <1>4, <1>6 DEF GInv, Typed, family, fields, ticks
<1>9. ListsExact' /\ SemsWait'
  <2>1. g \notin {Sleep, Zombie} /\ \A s \in Sems : SemQ(s) # g
    BY <1>5, HeadsDiffer DEF g
  <2>2. \A h \in Heads : c \notin On(h)
    BY <1>4 DEF Linked
  <2> QED  BY <1>3, <1>4, <1>5, <1>6, <2>1, <2>2, HeadsDiffer
           DEF GInv, ListsExact, SemsWait, NoRepeats, g
<1>10. WindowsUnlinked'
  <2>1. pc[c] \notin Windows
    BY <1>4 DEF Windows, Unlinked, SleepPoints
  <2> QED  BY <1>3, <1>7, <2>1 DEF GInv, WindowsUnlinked
<1>11. StatPoints' /\ PointersSet' /\ Running'
  BY <1>3 DEF GInv, StatPoints, PointersSet, Running
<1>12. HandsOff'
  BY <1>3, <1>4, <1>7 DEF GInv, HandsOff
<1>13. ReaperFits'
  <2>1. On(Zombie)' = On(Zombie)
    BY <1>5, <1>6, HeadsDiffer DEF g
  <2> QED  BY <1>3, <1>4, <1>7, <2>1 DEF GInv, ReaperFits
<1>14. IdleFits'
  BY <1>3, <1>5, <1>6, Constants DEF GInv, IdleFits
<1>15. TickFits'
  <2>1. On(Sleep)' = On(Sleep)
    BY <1>5, <1>6, HeadsDiffer DEF g
  <2> QED  BY <1>3, <1>4, <2>1 DEF TickFits
<1>16. WaitersFit'
  <2>1. \A s \in Sems : SemQ(s) \in Heads \ {g}
    BY <1>5, HeadsDiffer DEF g
  <2> QED  BY <1>3, <1>6, <1>7, <2>1 DEF GInv, WaitersFit
<1> QED  BY <1>6, <1>8, <1>9, <1>10, <1>11, <1>12, <1>13, <1>14, <1>15, <1>16 DEF GInv

-----------------------------------------------------------------------------
(* The running thread takes itself off its run queue.                       *)

DequeueMoves == {<<"sleep_dequeue", "sleep_mark">>, <<"wait_dequeue", "wait_mark">>,
    <<"prio_dequeue", "prio_set">>, <<"exit_dequeue", "exit_lockp">>,
    <<"semw_dequeue", "semw_stat">>}

\* A thread taking itself off its run queue (sched.c:159, 177, 87, 186 and
\* semaphore.c:6) keeps the invariant: being on no list is what the window it enters asks for.
LEMMA DequeueStep ==
    ASSUME GInv, NEW from, NEW to, <<from, to>> \in DequeueMoves, Dequeue(from, to)
    PROVE  GInv'
<1>1. /\ irq = "none" /\ pc[current] = from
      /\ rr_dequeue(current, prio[current]) /\ Release(RR)
      /\ pc' = [pc EXCEPT ![current] = to]
      /\ UNCHANGED <<current, arg, family, fields, ticks, cpu>>
      /\ UNCHANGED <<live, stat, prio, wait_for, parent, irq>>
  BY DEF Dequeue, At, Goto, family, fields, cpu
<1>2. /\ current \in Tasks /\ current \in live /\ stat[current] \in Stats /\ prio[current] \in Prios
      /\ pc \in [Tasks -> Places] /\ live \subseteq Tasks
  BY DEF GInv, Typed, Running
<1>3. /\ from \in {"sleep_dequeue", "wait_dequeue", "prio_dequeue", "exit_dequeue", "semw_dequeue"}
      /\ to \in {"sleep_mark", "wait_mark", "prio_set", "exit_lockp", "semw_stat"}
  BY DEF DequeueMoves
<1>4. stat[current] = "READY" /\ current # Idle
  BY <1>1, <1>2, <1>3 DEF GInv, StatPoints, Stats, StatFits, SleepPoints, DeadPoints, IdleFits,
     ForkPoints
<1>5. \A h \in Heads \ {Run(prio[current])} : current \notin On(h)
  BY <1>4, HeadsDiffer DEF GInv, ListsExact, SemsWait
<1>6. /\ QueuesType' /\ BitmapsExact' /\ NoRepeats'
      /\ \A h \in Heads : On(h)' = On(h) \ {current}
  <2>1. \A q \in Prios \ {prio[current]} : current \notin On(Run(q))
    BY <1>2, <1>5, HeadsDiffer
  <2> QED  BY <1>1, <1>2, <2>1, ListFacts, RrDequeue
<1>7. /\ \A t : Linked(t)' <=> Linked(t) /\ t # current
      /\ pc'[current] = to /\ \A t \in Tasks \ {current} : pc'[t] = pc[t]
  BY <1>1, <1>2, <1>6 DEF Linked
<1>8. /\ to \in Places /\ to # "run"
      /\ to \notin ForkPoints \cup WakePoints \cup ParentPoints \cup ReapPoints \cup DeadPoints
      /\ from \notin DeadPoints \cup NewChildPoints
      /\ StatFits("READY", to)
      /\ from \notin ForkPoints \cup WakePoints \cup {"semw_unlock", "semw_sched", "run"}
      /\ to \notin NamedPoints \cup {"semw_for"}
  BY <1>3 DEF Places, Points, SemPoints, ForkPoints, WakePoints, ParentPoints, ReapPoints,
     DeadPoints, NewChildPoints, StatFits,
     NamedPoints
<1>9. \A u, t \in Tasks : /\ InHand(u, t)' <=> InHand(u, t)
                          /\ InHand(u, t) => u # current
  <2>1. arg' = arg /\ pc[current] \notin ForkPoints \cup WakePoints
        /\ pc'[current] \notin ForkPoints \cup WakePoints
    BY <1>1, <1>7, <1>8
  <2> QED  BY <1>7, <2>1 DEF InHand
<1>10. Typed'
  BY <1>1, <1>2, <1>6, <1>8 DEF GInv, Typed, Release, family, fields, ticks, cpu
<1>11. ListsExact' /\ SemsWait'
  BY <1>1, <1>6, HeadsDiffer DEF GInv, ListsExact, SemsWait, NoRepeats
<1>12. WindowsUnlinked' /\ StatPoints'
  BY <1>1, <1>2, <1>4, <1>7, <1>8 DEF GInv, WindowsUnlinked, StatPoints
<1>13. Running' /\ HandsOff'
  <2>1. Running'
    BY <1>1, <1>2, <1>7, <1>8 DEF GInv, Running
  <2> QED  BY <1>1, <1>2, <1>7, <1>9, <2>1 DEF GInv, HandsOff
<1>18. WaitersFit'
  <2>1. \A s \in Sems : On(SemQ(s))' \subseteq On(SemQ(s)) \ {current}
    BY <1>6, HeadsDiffer
  <2>2. \A s \in Sems : \A t \in On(SemQ(s)) : t \in Tasks
    BY <1>2, HeadsDiffer DEF GInv, ListsExact
  <2> QED  BY <1>1, <1>7, <1>8, <1>9, <2>1, <2>2 DEF GInv, WaitersFit, NamedPoints
<1>14. PointersSet'
  BY <1>1, <1>2, <1>7, <1>8 DEF GInv, PointersSet, NewChildPoints
<1>15. ReaperFits'
  <2>1. \A t \in On(Zombie) : stat[t] = "ZOMBIE"
    BY HeadsDiffer DEF GInv, ListsExact
  <2>2. On(Zombie)' = On(Zombie)
    BY <1>4, <1>6, <2>1, HeadsDiffer
  <2>3. \A u \in Tasks : pc'[u] \in ReapPoints => u # current /\ pc'[u] = pc[u]
    BY <1>7, <1>8
  <2> QED  BY <1>1, <1>2, <1>4, <1>7, <2>2, <2>3 DEF GInv, ReaperFits, ReapPoints, Typed
<1>16. IdleFits'
  BY <1>4, <1>6, <1>7, Constants DEF GInv, IdleFits
<1>17. TickFits'
  BY <1>1 DEF TickFits
<1> QED  BY <1>6, <1>10, <1>11, <1>12, <1>13, <1>14, <1>15, <1>16, <1>17, <1>18 DEF GInv

-----------------------------------------------------------------------------
(* The running thread links a thread.                                       *)

EnqueueMoves == {<<"fork_enqueue", "fork_sched">>, <<"exit_enqueue", "exit_unlock">>,
    <<"semp_enqueue", "run">>}

\* Its new child, the parent it has woken, or the waiter its post has taken off.
LEMMA EnqueueOther ==
    ASSUME GInv, NEW from, NEW to, <<from, to>> \in EnqueueMoves,
           At(from), Goto(to), Release(RR),
           arg[current] \in Tasks, rr_enqueue(arg[current], prio[arg[current]]),
           \/ arg' = arg
           \/ from = "semp_enqueue" /\ arg' = [arg EXCEPT ![current] = NULL],
           UNCHANGED <<current, family, fields, ticks, cpu>>
    PROVE  GInv'
<1>1. /\ irq = "none" /\ pc[current] = from
      /\ pc[current] \in {"fork_enqueue", "exit_enqueue", "semp_enqueue"}
  BY DEF At, EnqueueMoves
<1>2. /\ current \in Tasks /\ current \in live /\ live \subseteq Tasks
      /\ pc \in [Tasks -> Places] /\ stat \in [Tasks -> Stats]
      /\ arg \in [Tasks -> Tasks \cup {NULL}] /\ prio \in [Tasks -> Prios]
  BY <1>1 DEF GInv, Typed, Running
<1>3. PICK c \in Tasks, p \in Prios : c = arg[current] /\ p = prio[c]
  BY <1>2
<1> DEFINE g == Run(p)
<1>4. /\ rr_enqueue(c, p) /\ Release(RR)
      /\ pc' = [pc EXCEPT ![current] = to]
      /\ UNCHANGED <<current, family, fields, ticks, cpu>>
      /\ UNCHANGED <<live, stat, prio, wait_for, parent, irq>>
      /\ \A u \in Tasks \ {current} : arg'[u] = arg[u]
      /\ arg' \in [Tasks -> Tasks \cup {NULL}]
      /\ to # "run" => arg' = arg
  BY <1>2, <1>3 DEF Goto, family, fields, cpu, EnqueueMoves
<1>5. /\ InHand(current, c) /\ c \in live /\ ~Linked(c) /\ stat[c] = "READY"
      /\ pc[c] \in {"run", "reap_tq", "wait_sched", "semw_for", "semw_sched"}
      /\ c # current
      /\ \A v \in Tasks : InHand(v, c) => v = current
  <2>1. InHand(current, c)
    BY <1>1, <1>3 DEF InHand, ForkPoints, WakePoints
  <2>2. from \notin PostedPoints
    BY <1>1 DEF PostedPoints
  <2> QED  BY <1>1, <1>2, <2>1, <2>2 DEF GInv, HandsOff
<1>6. /\ g \in Heads /\ g \notin {Sleep, Zombie}
      /\ (\A s \in Sems : SemQ(s) # g) /\ (\A h \in Heads : c \notin On(h))
  BY <1>5, HeadsDiffer DEF Linked
<1>7. /\ QueuesType' /\ BitmapsExact' /\ NoRepeats'
      /\ On(g)' = On(g) \cup {c}
      /\ \A h \in Heads \ {g} : On(h)' = On(h)
  BY <1>4, <1>6, ListFacts, RrEnqueue
<1>8. /\ to \in {"fork_sched", "exit_unlock", "run"} /\ to \in Places
      /\ from \notin DeadPoints /\ from # to
      /\ to \notin ForkPoints \cup WakePoints \cup ReapPoints \cup DeadPoints
      /\ to \in Windows => from \in Windows
      /\ to \in ParentPoints => from \in ParentPoints
      /\ from \notin NewChildPoints
      /\ from \in IdlePoints => to \in IdlePoints
      /\ from \notin {"semw_unlock", "semw_sched", "run"}
      /\ to \notin NamedPoints \cup {"semw_for"}
      /\ from = "semp_enqueue" <=> to = "run"
      /\ to = "run" => stat[current] = "READY"
      /\ to \in ParentPoints => to # "run"
      /\ \A s \in Stats : StatFits(s, from) => StatFits(s, to)
  <2> USE DEF Places, Points, SemPoints, Stats, ForkPoints, WakePoints, ReapPoints, DeadPoints,
              Windows, Unlinked, ParentPoints,
       NewChildPoints, IdlePoints, StatFits, SleepPoints, NamedPoints
  <2>1. CASE from = "fork_enqueue" /\ to = "fork_sched"
    BY <2>1
  <2>2. CASE from = "exit_enqueue" /\ to = "exit_unlock"
    BY <2>2
  <2>3. CASE from = "semp_enqueue" /\ to = "run"
    BY <1>1, <1>2, <2>3 DEF GInv, StatPoints
  <2> QED  BY <2>1, <2>2, <2>3 DEF EnqueueMoves
<1> HIDE DEF g
<1>9. /\ \A t : Linked(t)' <=> Linked(t) \/ t = c
      /\ pc'[current] = to /\ \A t \in Tasks \ {current} : pc'[t] = pc[t]
  BY <1>2, <1>4, <1>6, <1>7 DEF Linked
<1>10. \A u, t \in Tasks : /\ InHand(u, t)' => InHand(u, t) /\ u # current /\ t # c
                           /\ InHand(u, t) /\ t # c => InHand(u, t)'
  BY <1>3, <1>4, <1>5, <1>8, <1>9 DEF InHand
<1>11. Typed'
  BY <1>2, <1>4, <1>7, <1>8 DEF GInv, Typed, Release, family, fields, ticks, cpu
<1>12. ListsExact' /\ SemsWait'
  BY <1>3, <1>4, <1>5, <1>6, <1>7, HeadsDiffer DEF GInv, ListsExact, SemsWait, NoRepeats, g
<1>13. WindowsUnlinked'
  <2>1. pc[c] \notin Windows
    BY <1>5 DEF Windows, Unlinked
  <2> QED  BY <1>1, <1>2, <1>4, <1>5, <1>8, <1>9, <2>1 DEF GInv, WindowsUnlinked
<1>14. StatPoints' /\ Running'
  BY <1>1, <1>2, <1>4, <1>8, <1>9 DEF GInv, StatPoints, Running
<1>15. HandsOff'
  <2>1. ASSUME NEW u \in Tasks, NEW t \in Tasks, InHand(u, t)'
        PROVE  /\ t \in live' /\ ~Linked(t)'
               /\ stat'[t] = IF pc'[u] \in PostedPoints THEN "WAITING" ELSE "READY"
               /\ pc'[u] \in PostedPoints => wait_for'[t] \in Sems
               /\ pc'[t] \in {"run", "reap_tq", "wait_sched", "semw_for", "semw_sched"}
               /\ t # current'
               /\ \A v \in Tasks : InHand(v, t)' => v = u
    <3>1. InHand(u, t) /\ u # current /\ t # c
      BY <1>10, <2>1
    <3> QED  BY <1>4, <1>9, <1>10, <3>1 DEF GInv, HandsOff
  <2> QED  BY <2>1 DEF HandsOff
<1>16. PointersSet'
  BY <1>1, <1>2, <1>4, <1>8, <1>9 DEF GInv, PointersSet, NewChildPoints
<1>17. ReaperFits'
  <2>1. On(Zombie)' = On(Zombie)
    BY <1>6, <1>7, HeadsDiffer
  <2>2. \A u \in Tasks : pc'[u] \in ReapPoints => u # current /\ pc'[u] = pc[u]
    BY <1>8, <1>9
  <2> QED  BY <1>1, <1>2, <1>4, <1>5, <1>8, <1>9, <2>1, <2>2 DEF GInv, ReaperFits, ReapPoints
<1>18. IdleFits'
  BY <1>1, <1>7, <1>8, <1>9, Constants DEF GInv, IdleFits, IdlePoints
<1>19. TickFits'
  BY <1>1, <1>4 DEF TickFits
<1>20. WaitersFit'
  <2>1. \A s \in Sems : On(SemQ(s))' = On(SemQ(s))
    BY <1>6, <1>7, HeadsDiffer
  <2>2. \A s \in Sems : \A t \in On(SemQ(s)) : t \in Tasks
    BY <1>2, HeadsDiffer DEF GInv, ListsExact
  <2>3. ASSUME NEW t \in Tasks, pc'[t] \in {"semw_for", "semw_tq", "semw_add"}
        PROVE  stat'[t] = "WAITING" \/ Linked(t)' \/ \E u \in Tasks : InHand(u, t)'
    <3>1. pc[t] \in {"semw_for", "semw_tq", "semw_add"}
      BY <1>8, <1>9, <2>3 DEF NamedPoints
    <3> QED  BY <1>4, <1>9, <1>10, <3>1 DEF GInv, WaitersFit
  <2> QED  BY <1>1, <1>4, <1>8, <1>9, <2>1, <2>2, <2>3 DEF GInv, WaitersFit
<1> QED  BY <1>7, <1>11, <1>12, <1>13, <1>14, <1>15, <1>16, <1>17, <1>18, <1>19, <1>20 DEF GInv

\* kernel_thread enqueuing its child (sched.c:214) and task_exit its parent
\* (sched.c:67) keep the invariant.
LEMMA EnqueueOtherStep ==
    ASSUME GInv, NEW from, NEW to, <<from, to>> \in EnqueueMoves, from # "semp_enqueue",
           Enqueue(arg[current], from, to)
    PROVE  GInv'
<1>1. from \in {"fork_enqueue", "exit_enqueue"} /\ current \in Tasks
  BY DEF EnqueueMoves, GInv, Typed
<1>2. arg[current] \in Tasks
  BY <1>1 DEF Enqueue, At, GInv, PointersSet, ForkPoints, ParentPoints
<1> QED  BY <1>2, EnqueueOther DEF Enqueue

\* Itself, on the list g: it is on no other, and its stat fits.
LEMMA LinkSelf ==
    ASSUME GInv, irq = "none", irq' = "none", NEW to, NEW g \in Heads, ~Linked(current),
           pc[current] \notin ForkPoints \cup WakePoints \cup ReapPoints \cup DeadPoints,
           to \in Places \ (Windows \cup ForkPoints \cup WakePoints \cup ReapPoints \cup ParentPoints),
           to \notin {"run", "semw_for", "semw_tq", "semw_add"},
           StatFits(stat[current], to), current # Idle,
           pc' = [pc EXCEPT ![current] = to],
           UNCHANGED <<current, arg, live, stat, prio, wait_for, parent>>,
           g \in {Run(p) : p \in Prios} => stat[current] = "READY" /\ g = Run(prio[current]),
           g = Sleep => stat[current] = "SLEEP",
           g = Zombie => stat[current] = "ZOMBIE",
           \A s \in Sems : g = SemQ(s) =>
             stat[current] = "WAITING" /\ wait_for[current] = s /\ to = "semw_unlock",
           to \in NamedPoints => g \in {SemQ(s) : s \in Sems},
           NoRepeats', On(g)' = On(g) \cup {current},
           \A h \in Heads \ {g} : On(h)' = On(h)
    PROVE  ListsExact' /\ SemsWait' /\ Where'
<1>1. /\ current \in Tasks /\ current \in live /\ live \subseteq Tasks
      /\ pc \in [Tasks -> Places] /\ stat \in [Tasks -> Stats]
  BY DEF GInv, Typed, Running
<1>2. \A h \in Heads : current \notin On(h)
  BY DEF Linked
<1>3. /\ \A t : Linked(t)' <=> Linked(t) \/ t = current
      /\ pc'[current] = to /\ \A t \in Tasks \ {current} : pc'[t] = pc[t]
  BY <1>1 DEF Linked
<1>4. \A u, t \in Tasks : InHand(u, t)' <=> InHand(u, t)
  BY <1>3 DEF InHand
<1>5. ListsExact'
  BY <1>1, <1>2 DEF GInv, ListsExact, NoRepeats
<1>6. SemsWait'
  BY <1>1, HeadsDiffer DEF GInv, SemsWait
<1>7. WindowsUnlinked' /\ StatPoints'
  BY <1>1, <1>3 DEF GInv, WindowsUnlinked, StatPoints
<1>8. Running' /\ HandsOff'
  <2>1. Running'
    BY <1>1, <1>3 DEF GInv, Running
  <2>2. ASSUME NEW u \in Tasks, NEW t \in Tasks, InHand(u, t)'
        PROVE  InHand(u, t) /\ u # current /\ t # current /\ pc'[u] = pc[u] /\ pc'[t] = pc[t]
    BY <1>1, <1>3, <1>4, <2>2 DEF InHand, GInv, HandsOff
  <2> QED  BY <1>3, <1>4, <2>1, <2>2 DEF GInv, HandsOff
<1>13. WaitersFit'
  <2>1. ASSUME NEW s \in Sems, NEW t \in On(SemQ(s))'
        PROVE  wait_for'[t] = s /\ pc'[t] \in {"semw_unlock", "semw_sched", "run"}
    <3>1. CASE t \in On(SemQ(s)) /\ t # current
      <4>1. t \in Tasks
        BY <3>1, <1>1, HeadsDiffer DEF GInv, ListsExact
      <4> QED  BY <1>3, <3>1, <4>1 DEF GInv, WaitersFit
    <3>2. CASE t = current
      BY <1>1, <1>2, <1>3, <3>2, HeadsDiffer
    <3> QED  BY <2>1, <3>1, <3>2, HeadsDiffer
  <2>2. ASSUME NEW t \in Tasks, stat'[t] = "WAITING", pc'[t] \in NamedPoints
        PROVE  wait_for'[t] \in Sems
    BY <1>3, <2>2 DEF GInv, WaitersFit
  <2>3. ASSUME NEW t \in Tasks, pc'[t] \in {"semw_for", "semw_tq", "semw_add"}
        PROVE  stat'[t] = "WAITING" \/ Linked(t)' \/ \E u \in Tasks : InHand(u, t)'
    BY <1>3, <1>4, <2>3 DEF GInv, WaitersFit
  <2> QED  BY <2>1, <2>2, <2>3 DEF WaitersFit
<1>9. PointersSet'
  <2>1. pc[current] \notin NewChildPoints
    BY DEF NewChildPoints, ForkPoints
  <2> QED  BY <1>1, <1>3, <2>1 DEF GInv, PointersSet, NewChildPoints
<1>10. ReaperFits'
  <2>1. On(Zombie) \subseteq On(Zombie)'
    BY HeadsDiffer
  <2>2. \A u \in Tasks : pc'[u] \in ReapPoints => u # current /\ pc'[u] = pc[u]
    BY <1>3
  <2> QED  BY <1>1, <1>3, <2>1, <2>2 DEF GInv, ReaperFits, ReapPoints
<1>11. IdleFits'
  BY <1>3, Constants DEF GInv, IdleFits
<1>12. TickFits'
  BY DEF TickFits
<1> QED  BY <1>5, <1>6, <1>7, <1>8, <1>9, <1>10, <1>11, <1>12, <1>13 DEF Where

\* The sets of statements, for the leaves that compare names of statements.
LEMMA LinkMoves ==
    \A from, to : <<from, to>> \in {<<"prio_enqueue", "prio_unlock">>,
                        <<"sleep_add", "sleep_half">>, <<"exit_link", "exit_tqunlock">>} =>
      /\ from \in Windows \ (ForkPoints \cup WakePoints \cup ReapPoints \cup DeadPoints \cup IdlePoints)
      /\ to \in Places \ (Windows \cup ForkPoints \cup WakePoints \cup ReapPoints \cup ParentPoints)
      /\ to \notin {"run", "semw_for", "semw_tq", "semw_add"} \cup NamedPoints
      /\ \A s \in Stats : StatFits(s, from) => StatFits(s, to)
BY DEF Places, Points, SemPoints, Stats, ForkPoints, WakePoints, ReapPoints, DeadPoints, Windows,
   Unlinked, ParentPoints,
       IdlePoints, StatFits, SleepPoints, NamedPoints

\* task_reset_prio enqueuing the running thread again (sched.c:92) keeps the
\* invariant: the thread is on no list, and its prio is the new one.
LEMMA EnqueueSelfStep ==
    ASSUME GInv, Enqueue(current, "prio_enqueue", "prio_unlock")
    PROVE  GInv'
<1>1. /\ current \in Tasks /\ current \in live /\ live \subseteq Tasks
      /\ pc \in [Tasks -> Places] /\ stat \in [Tasks -> Stats] /\ prio \in [Tasks -> Prios]
  BY DEF GInv, Typed, Running
<1>2. PICK p \in Prios : p = prio[current]
  BY <1>1
<1>3. /\ irq = "none" /\ pc[current] = "prio_enqueue"
      /\ rr_enqueue(current, p) /\ Release(RR)
      /\ pc' = [pc EXCEPT ![current] = "prio_unlock"]
      /\ UNCHANGED <<current, arg, family, fields, ticks, cpu>>
      /\ UNCHANGED <<live, stat, prio, wait_for, parent, irq>>
  BY <1>2 DEF Enqueue, At, Goto, family, fields, cpu
<1>4. /\ ~Linked(current) /\ current \notin On(Run(p)) /\ stat[current] = "READY" /\ current # Idle
      /\ StatFits(stat[current], "prio_unlock") /\ Run(p) \in Heads
  BY <1>1, <1>3, LinkMoves, HeadsDiffer
     DEF GInv, WindowsUnlinked, Linked, StatPoints, StatFits, IdleFits, IdlePoints
<1> DEFINE g == Run(p)
<1>5. /\ QueuesType' /\ BitmapsExact' /\ NoRepeats'
      /\ On(g)' = On(g) \cup {current}
      /\ \A h \in Heads \ {g} : On(h)' = On(h)
  BY <1>1, <1>3, <1>4, ListFacts, RrEnqueue
<1>6. /\ g \in {Run(q) : q \in Prios} => stat[current] = "READY" /\ g = Run(prio[current])
      /\ g \notin {Sleep, Zombie} /\ (\A s \in Sems : g # SemQ(s))
  BY <1>2, <1>4, HeadsDiffer
<1> HIDE DEF g
<1>7. ListsExact' /\ SemsWait' /\ Where'
  <2>1. g \in Heads
    BY <1>4 DEF g
  <2>2. /\ pc[current] \notin ForkPoints \cup WakePoints \cup ReapPoints \cup DeadPoints
        /\ "prio_unlock" \in Places \ (Windows \cup ForkPoints \cup WakePoints \cup ReapPoints \cup ParentPoints)
        /\ "prio_unlock" \notin {"run", "semw_for", "semw_tq", "semw_add"} \cup NamedPoints
    BY <1>3, LinkMoves
  <2>3. irq' = "none"
    BY <1>3
  <2> QED  BY <1>3, <1>4, <1>5, <1>6, <2>1, <2>2, <2>3, LinkSelf
<1>8. Typed'
  BY ZenonT(40), <1>1, <1>3, <1>5 DEF GInv, Typed, Release, Places, Points, SemPoints, family, fields, ticks,
     cpu
<1> QED  BY <1>5, <1>7, <1>8 DEF GInv, Where

\* tq_enqueue of the running thread by sleep and kthread_exit (sched.c:162, 189)
\* keeps the invariant: the thread is on no list and its stat fits the queue.
LEMMA LinkStep ==
    ASSUME GInv, NEW q, NEW from, NEW to,
           <<q, from, to>> \in {<<Sleep, "sleep_add", "sleep_half">>,
                              <<Zombie, "exit_link", "exit_tqunlock">>},
           Link(q, from, to)
    PROVE  GInv'
<1>1. /\ current \in Tasks /\ current \in live /\ live \subseteq Tasks
      /\ pc \in [Tasks -> Places] /\ stat \in [Tasks -> Stats]
  BY DEF GInv, Typed, Running
<1>2. /\ irq = "none" /\ pc[current] = from
      /\ tq_enqueue(q, current)
      /\ pc' = [pc EXCEPT ![current] = to]
      /\ UNCHANGED <<lock, current, arg, family, fields, ticks, cpu>>
      /\ UNCHANGED <<live, stat, prio, wait_for, parent, irq>>
  BY DEF Link, At, Goto, family, fields, cpu
<1>3. /\ q \in TaskQueues /\ q \in Heads /\ q \in {Sleep, Zombie}
      /\ (\A p \in Prios : Run(p) # q) /\ (\A s \in Sems : SemQ(s) # q)
      /\ <<from, to>> \in {<<"sleep_add", "sleep_half">>, <<"exit_link", "exit_tqunlock">>}
      /\ q = Sleep => from = "sleep_add"
      /\ q = Zombie => from = "exit_link"
  BY HeadsDiffer
<1>4. /\ ~Linked(current) /\ current \notin On(q) /\ current # Idle /\ StatFits(stat[current], to)
      /\ q = Sleep => stat[current] = "SLEEP"
      /\ q = Zombie => stat[current] = "ZOMBIE"
  BY <1>1, <1>2, <1>3, LinkMoves
     DEF GInv, WindowsUnlinked, Linked, StatPoints, StatFits, IdleFits, IdlePoints
<1>5. /\ QueuesType' /\ BitmapsExact' /\ NoRepeats'
      /\ On(q)' = On(q) \cup {current}
      /\ \A h \in Heads \ {q} : On(h)' = On(h)
  BY <1>1, <1>2, <1>3, <1>4, ListFacts, TqEnqueue
<1>6. /\ pc[current] \notin ForkPoints \cup WakePoints \cup ReapPoints \cup DeadPoints
      /\ to \in Places \ (Windows \cup ForkPoints \cup WakePoints \cup ReapPoints \cup ParentPoints)
      /\ to \notin {"run", "semw_for", "semw_tq", "semw_add"} \cup NamedPoints /\ irq' = "none"
      /\ q \notin {Run(p) : p \in Prios}
  BY <1>2, <1>3, LinkMoves
<1>7. ListsExact' /\ SemsWait' /\ Where'
  BY <1>2, <1>3, <1>4, <1>5, <1>6, LinkSelf
<1>8. Typed'
  BY <1>1, <1>2, <1>5, <1>6 DEF GInv, Typed, family, fields, ticks, cpu
<1> QED  BY <1>5, <1>7, <1>8 DEF GInv, Where

-----------------------------------------------------------------------------
(* The running thread changes its own stat or prio while it is on no list.  *)

MarkMoves == {<<"sleep_mark", "sleep_tq", "SLEEP">>, <<"wait_mark", "wait_sched", "WAITING">>,
    <<"exit_mark", "exit_tq", "ZOMBIE">>, <<"semw_stat", "semw_for", "WAITING">>}

\* A thread inside a window changing its own stat (sched.c:161, 178, 188) keeps
\* all parts but Typed: no list holds it, so no list disagrees with the stat.
LEMMA MarkSelf ==
    ASSUME GInv, irq = "none", irq' = "none", NEW from, NEW to, NEW s, <<from, to, s>> \in MarkMoves,
           pc[current] = from, pc' = [pc EXCEPT ![current] = to],
           stat' = [stat EXCEPT ![current] = s],
           UNCHANGED <<queues, current, arg, live, prio, wait_for, parent>>
    PROVE  BitmapsExact' /\ ListsExact' /\ SemsWait' /\ Where'
<1>1. /\ current \in Tasks /\ current \in live /\ live \subseteq Tasks
      /\ pc \in [Tasks -> Places] /\ stat \in [Tasks -> Stats]
  BY DEF GInv, Typed, Running
<1>2. /\ from \in Windows /\ from \notin DeadPoints \cup IdlePoints \cup NewChildPoints
      /\ to # "run" /\ StatFits(s, to)
      /\ to \notin ForkPoints \cup WakePoints \cup ReapPoints \cup ParentPoints
      /\ from \notin ForkPoints \cup WakePoints
      /\ to \notin NamedPoints /\ (to = "semw_for" => s = "WAITING")
  <2> USE DEF NamedPoints, Windows, Unlinked, DeadPoints, IdlePoints, NewChildPoints, StatFits, SleepPoints, ForkPoints,
         WakePoints, ReapPoints, ParentPoints
  <2>1. CASE from = "sleep_mark" /\ to = "sleep_tq" /\ s = "SLEEP"
    BY <2>1
  <2>2. CASE from = "wait_mark" /\ to = "wait_sched" /\ s = "WAITING"
    BY <2>2
  <2>3. CASE from = "exit_mark" /\ to = "exit_tq" /\ s = "ZOMBIE"
    BY <2>3
  <2>4. CASE from = "semw_stat" /\ to = "semw_for" /\ s = "WAITING"
    BY <2>4
  <2> QED  BY <2>1, <2>2, <2>3, <2>4 DEF MarkMoves
<1>3. /\ BitmapsExact' /\ \A h \in Heads : On(h)' = On(h)
      /\ list' = list
  BY DEF GInv, BitmapsExact, On, queues
<1>4. /\ \A t : Linked(t)' <=> Linked(t)
      /\ ~Linked(current) /\ \A h \in Heads : current \notin On(h)
      /\ pc'[current] = to /\ \A t \in Tasks \ {current} : pc'[t] = pc[t]
      /\ stat'[current] = s /\ \A t \in Tasks \ {current} : stat'[t] = stat[t]
  BY <1>1, <1>2, <1>3 DEF GInv, WindowsUnlinked, Linked
<1>5. \A u, t \in Tasks : InHand(u, t)' <=> InHand(u, t)
  BY <1>2, <1>4 DEF InHand
<1>6. ListsExact' /\ SemsWait'
  BY <1>1, <1>3, <1>4, HeadsDiffer DEF GInv, ListsExact, SemsWait
<1>7. WindowsUnlinked' /\ StatPoints'
  BY <1>1, <1>2, <1>4 DEF GInv, WindowsUnlinked, StatPoints
<1>8. Running' /\ HandsOff'
  <2>1. Running'
    BY <1>1, <1>2, <1>4 DEF GInv, Running
  <2>2. ASSUME NEW u \in Tasks, NEW t \in Tasks, InHand(u, t)'
        PROVE  InHand(u, t) /\ u # current /\ t # current /\ pc'[u] = pc[u] /\ pc'[t] = pc[t]
    BY <1>1, <1>2, <1>4, <1>5, <2>2 DEF InHand, GInv, HandsOff
  <2> QED  BY <1>4, <1>5, <2>1, <2>2 DEF GInv, HandsOff
<1>13. WaitersFit'
  <2>1. \A s1 \in Sems : \A t \in On(SemQ(s1)) : t \in Tasks \ {current}
    BY <1>1, <1>4, HeadsDiffer DEF GInv, ListsExact
  <2>2. ASSUME NEW t \in Tasks, pc'[t] \in {"semw_for", "semw_tq", "semw_add"}
        PROVE  stat'[t] = "WAITING" \/ Linked(t)' \/ \E u \in Tasks : InHand(u, t)'
    BY <1>2, <1>4, <1>5, <2>2 DEF GInv, WaitersFit, NamedPoints
  <2> QED  BY <1>2, <1>3, <1>4, <2>1, <2>2, HeadsDiffer DEF GInv, WaitersFit
<1>9. PointersSet'
  BY <1>1, <1>2, <1>4 DEF GInv, PointersSet, NewChildPoints
<1>10. ReaperFits'
  <2>1. \A u \in Tasks : pc'[u] \in ReapPoints => u # current /\ pc'[u] = pc[u]
    BY <1>2, <1>4
  <2> QED  BY <1>1, <1>2, <1>3, <1>4, <2>1, HeadsDiffer DEF GInv, ReaperFits, ReapPoints
<1>11. IdleFits'
  BY <1>2, <1>3, <1>4, Constants DEF GInv, IdleFits, IdlePoints
<1>12. TickFits'
  BY DEF TickFits
<1> QED  BY <1>3, <1>6, <1>7, <1>8, <1>9, <1>10, <1>11, <1>12, <1>13 DEF Where

\* wait and kthread_exit marking the running thread keep the invariant.
LEMMA SetStatStep ==
    ASSUME GInv, NEW from, NEW to, NEW s, <<from, to, s>> \in MarkMoves, SetStat(current, s, from, to)
    PROVE  GInv'
<1>1. BitmapsExact' /\ ListsExact' /\ SemsWait' /\ Where'
  BY MarkSelf DEF SetStat, At, Goto, family, cpu
<1>2. to \in Places /\ s \in Stats
  BY DEF MarkMoves, Places, Points, SemPoints, Stats
<1>3. Typed'
  BY <1>2 DEF GInv, Typed, QueuesType, SetStat, Goto, queues, family, ticks, cpu
<1> QED  BY <1>1, <1>3 DEF GInv, Where

\* sleep setting the counter and the stat (sched.c:160-161) keeps the invariant.
LEMMA SetSleepStep ==
    ASSUME GInv, SetSleep  PROVE GInv'
<1>1. <<"sleep_mark", "sleep_tq", "SLEEP">> \in MarkMoves
  BY DEF MarkMoves
<1>2. BitmapsExact' /\ ListsExact' /\ SemsWait' /\ Where'
  BY <1>1, MarkSelf DEF SetSleep, At, Goto, family, cpu
<1>3. Typed'
  <2>1. \A d \in Durations : d \in 0 .. TickMod - 1
    BY SchedAssumption
  <2>2. sleep_ticks' \in [Tasks -> 0 .. TickMod - 1] /\ due' \in [Tasks -> 0 .. TickMod - 1]
    BY <2>1 DEF GInv, Typed, SetSleep
  <2>3. pc' \in [Tasks -> Places] /\ stat' \in [Tasks -> Stats]
    BY DEF GInv, Typed, SetSleep, Goto, Places, Points, SemPoints, Stats
  <2>4. UNCHANGED <<queues, lock, current, arg, family, prio, wait_for, rest_ticks, cpu>>
    BY DEF SetSleep
  <2> QED  BY <2>2, <2>3, <2>4 DEF GInv, Typed, QueuesType, queues, family, cpu
<1> QED  BY <1>2, <1>3 DEF GInv, Where

\* task_reset_prio changing prio (sched.c:89) keeps the invariant: the thread is
\* on no run queue while it does.
LEMMA SetPrioStep ==
    ASSUME GInv, SetPrio  PROVE GInv'
<1>1. /\ current \in Tasks /\ current \in live /\ stat[current] \in Stats
      /\ pc \in [Tasks -> Places] /\ prio \in [Tasks -> Prios]
  BY DEF GInv, Typed, Running
<1>2. irq = "none" /\ pc[current] = "prio_set"
  BY DEF SetPrio, At
<1>3. stat[current] = "READY" /\ ~Linked(current) /\ current # Idle
  BY <1>1, <1>2 DEF GInv, StatPoints, Stats, StatFits, SleepPoints, DeadPoints, WindowsUnlinked,
     Windows, Unlinked, IdleFits, ForkPoints
<1>4. PICK p \in Levels : prio' = [prio EXCEPT ![current] = p]
  BY DEF SetPrio
<1>5. /\ pc' = [pc EXCEPT ![current] = "prio_rr2"] /\ p \in Prios
      /\ UNCHANGED <<queues, lock, current, arg, family, stat, wait_for, ticks, cpu>>
      /\ UNCHANGED <<live, parent, irq>>
  BY <1>3, Constants DEF SetPrio, Goto, family, cpu
<1>6. Typed'
  BY <1>4, <1>5 DEF GInv, Typed, QueuesType, Places, Points, SemPoints, queues, family, ticks, cpu
<1>7. BitmapsExact' /\ SemsWait' /\ \A h \in Heads : On(h)' = On(h)
  BY <1>5 DEF GInv, BitmapsExact, SemsWait, On, queues
<1>8. ListsExact'
  <2>1. \A t \in Tasks \ {current} : prio'[t] = prio[t]
    BY <1>1, <1>4
  <2>2. \A h \in Heads : current \notin On(h) /\ On(h) \subseteq Tasks
    BY <1>3, ListFacts DEF Linked, GInv, Typed
  <2>3. list' = list
    BY <1>5 DEF queues
  <2> QED  BY <1>5, <1>7, <2>1, <2>2, <2>3 DEF GInv, ListsExact
<1>9. /\ Harmless("prio_set", "prio_rr2") /\ StatFits(stat[current], "prio_rr2")
      /\ "prio_set" \notin NewChildPoints
      /\ "prio_rr2" \notin ForkPoints \cup WakePoints \cup TakenPoints \cup PickedPoints \cup ParentPoints
  BY <1>3 DEF Harmless, SemHarmless, NamedPoints, PostedPoints, Places, Points, SemPoints,
     StatFits, Windows, Unlinked, DeadPoints, ForkPoints, WakePoints, ReapPoints,
     TakenPoints, PickedPoints, ParentPoints, NewChildPoints, SleepPoints
<1>10. pc'[current] # "run"
  BY <1>1, <1>5
<1>11. Where'
  BY <1>1, <1>2, <1>3, <1>5, <1>7, <1>9, <1>10, ControlStep
<1> QED  BY <1>6, <1>7, <1>8, <1>11 DEF GInv, Where

-----------------------------------------------------------------------------
(* The last child wakes its parent.                                         *)

\* A waiting thread is on no list and nobody is about to enqueue it, so the
\* child that marks it ready is the only one to do so.
LEMMA CheckParentStep ==
    ASSUME GInv, CheckParent  PROVE GInv'
<1>1. /\ current \in Tasks /\ current \in live /\ stat \in [Tasks -> Stats]
      /\ pc \in [Tasks -> Places] /\ live \subseteq Tasks
  BY DEF GInv, Typed, Running
<1>2. irq = "none" /\ pc[current] = "exit_check"
  BY DEF CheckParent, At
<1>3. PICK p \in Tasks : p = arg[current]
  BY <1>1, <1>2 DEF GInv, PointersSet, ParentPoints
<1>4. UNCHANGED <<queues, lock, current, arg, family, prio, wait_for, ticks, cpu>>
      /\ UNCHANGED <<live, prio, parent, irq>>
  BY DEF CheckParent, family, cpu
<1>5. CASE ~MustWake(p)
  <2>1. stat' = stat /\ pc' = [pc EXCEPT ![current] = "exit_unlock"]
    BY <1>3, <1>5 DEF CheckParent, Goto
  <2>2. Plain("exit_check", "exit_unlock")
    BY DEF Plain, Harmless, SemHarmless, NamedPoints, PostedPoints, Places, Points, SemPoints,
       Stats, StatFits, Windows, Unlinked, DeadPoints, ForkPoints, WakePoints,
       ReapPoints, TakenPoints, PickedPoints, ParentPoints, NewChildPoints, IdlePoints,
       SleepPoints
  <2>3. Typed'
    BY <1>4, <2>1 DEF GInv, Typed, QueuesType, Places, Points, SemPoints, queues, family, ticks,
       cpu
  <2>4. BitmapsExact' /\ ListsExact' /\ SemsWait' /\ Where'
    BY <1>2, <1>4, <2>1, <2>2, PlainStep DEF Goto
  <2> QED  BY <2>3, <2>4 DEF GInv, Where
<1>6. CASE MustWake(p)
  <2>1. /\ stat' = [stat EXCEPT ![p] = "READY"]
        /\ pc' = [pc EXCEPT ![current] = "exit_wake"]
        /\ stat[p] = "WAITING" /\ wait_for[p] = NULL
    BY <1>3, <1>6 DEF CheckParent, Goto, MustWake
  <2>2. /\ pc[p] \in {"wait_sched", "run", "semw_for"} /\ p # current /\ p \in live /\ p # Idle
    <3>1. pc[p] \in {"wait_sched", "run", "semw_for"}
      <4>1. pc[p] \notin NamedPoints
        BY <2>1, Constants DEF GInv, WaitersFit
      <4> QED  BY <2>1, <4>1 DEF GInv, StatPoints, StatFits, NamedPoints
    <3>2. p \in live
      BY <3>1 DEF GInv, Running, DeadPoints
    <3>3. p # Idle
      BY <2>1, Constants DEF GInv, IdleFits, ListsExact
    <3> QED  BY <1>2, <3>1, <3>2, <3>3
  <2>3. \A h \in Heads : p \notin On(h)
    <3>1. \A s \in Sems : p \notin On(SemQ(s))
      BY <2>1, Constants DEF GInv, WaitersFit
    <3> QED  BY <2>1, <3>1, HeadsDiffer DEF GInv, ListsExact
  <2>4. \A v \in Tasks : ~InHand(v, p)
    BY <2>1, Constants DEF GInv, HandsOff
  <2>5. /\ pc'[current] = "exit_wake" /\ \A t \in Tasks \ {current} : pc'[t] = pc[t]
        /\ stat'[p] = "READY" /\ \A t \in Tasks \ {p} : stat'[t] = stat[t]
    BY <1>1, <2>1
  <2>6. /\ QueuesType' /\ BitmapsExact' /\ list' = list
        /\ \A h \in Heads : On(h)' = On(h)
    BY <1>4 DEF GInv, Typed, QueuesType, BitmapsExact, On, queues
  <2>18. SemsWait' /\ \A s \in Sems : \A t \in On(SemQ(s))' : t \in On(SemQ(s)) /\ t \in Tasks \ {p, current}
    <3>1. \A s \in Sems : \A t \in On(SemQ(s)) : t \in Tasks \ {p, current}
      BY <1>1, <1>2, <2>3, HeadsDiffer DEF GInv, ListsExact, WaitersFit
    <3> QED  BY <2>5, <2>6, <3>1, HeadsDiffer DEF GInv, SemsWait
  <2>7. \A t : (Linked(t)' <=> Linked(t)) /\ ~Linked(p)
    BY <2>3, <2>6 DEF Linked
  <2>8. Typed'
    BY <1>4, <2>1, <2>6 DEF GInv, Typed, Places, Points, SemPoints, Stats, family, ticks, cpu
  <2>9. ListsExact'
    BY <1>4, <2>3, <2>5, <2>6, ListFacts, <1>1 DEF GInv, ListsExact
  <2>10. WindowsUnlinked'
    BY <1>1, <1>2, <1>4, <2>5, <2>7 DEF GInv, WindowsUnlinked, Windows, Unlinked
  <2>11. StatPoints'
    <3>1. StatFits("READY", pc[p])
      BY <2>2 DEF StatFits
    <3>2. StatFits(stat[current], "exit_wake")
      BY <1>1, <1>2 DEF GInv, StatPoints, Stats, StatFits, SleepPoints, DeadPoints
    <3> QED  BY <1>1, <2>2, <2>5, <3>1, <3>2 DEF GInv, StatPoints
  <2>12. Running'
    BY <1>1, <1>4, <2>5 DEF GInv, Running
  <2>13. HandsOff'
    <3>1. ASSUME NEW u \in Tasks, NEW t \in Tasks, InHand(u, t)'
          PROVE  (u = current /\ t = p) \/ (u # current /\ t # p /\ t # current /\ InHand(u, t))
      BY <1>3, <1>4, <2>2, <2>4, <2>5, <3>1 DEF InHand, GInv, HandsOff
    <3>2. ASSUME NEW u \in Tasks, NEW t \in Tasks, InHand(u, t)'
          PROVE  /\ t \in live' /\ ~Linked(t)'
                 /\ stat'[t] = IF pc'[u] \in PostedPoints THEN "WAITING" ELSE "READY"
                 /\ pc'[u] \in PostedPoints => wait_for'[t] \in Sems
                 /\ pc'[t] \in {"run", "reap_tq", "wait_sched", "semw_for", "semw_sched"}
                 /\ t # current'
                 /\ \A v \in Tasks : InHand(v, t)' => v = u
      <4>1. CASE u = current /\ t = p
        BY <1>4, <2>2, <2>5, <2>7, <3>1, <4>1 DEF PostedPoints
      <4>2. CASE u # current /\ t # p /\ t # current /\ InHand(u, t)
        BY <1>4, <2>5, <2>7, <3>1, <4>2 DEF GInv, HandsOff, fields
      <4> QED  BY <3>1, <3>2, <4>1, <4>2
    <3> QED  BY <3>2 DEF HandsOff
  <2>14. PointersSet'
    BY <1>1, <1>2, <1>3, <1>4, <2>5 DEF GInv, PointersSet, ForkPoints, ParentPoints
  <2>15. ReaperFits'
    <3>1. \A u \in Tasks : pc'[u] \in ReapPoints => u # current /\ pc'[u] = pc[u]
      BY <2>5 DEF ReapPoints
    <3>2. pc[p] \notin DeadPoints /\ pc[current] \notin DeadPoints
      BY <1>2, <2>2 DEF DeadPoints
    <3> QED  BY <1>1, <1>4, <2>2, <2>5, <2>6, <2>7, <3>1, <3>2, HeadsDiffer
                DEF GInv, ReaperFits, ReapPoints
  <2>16. IdleFits'
    BY <1>2, <2>5, <2>6, Constants DEF GInv, IdleFits, ForkPoints
  <2>17. TickFits'
    BY <1>2, <1>4 DEF TickFits
  <2>19. WaitersFit'
    <3>1. ASSUME NEW t \in Tasks, pc'[t] \in {"semw_for", "semw_tq", "semw_add"}
          PROVE  stat'[t] = "WAITING" \/ Linked(t)' \/ \E u \in Tasks : InHand(u, t)'
      <4>1. CASE t = p
        BY <1>1, <1>3, <1>4, <2>5, <4>1 DEF InHand, WakePoints
      <4>2. CASE t # p
        <5>1. \A u \in Tasks : InHand(u, t) => InHand(u, t)'
          BY <1>2, <1>4, <2>5 DEF InHand, ForkPoints, WakePoints
        <5> QED  BY <2>5, <2>7, <3>1, <4>2, <5>1 DEF GInv, WaitersFit
      <4> QED  BY <4>1, <4>2
    <3>2. ASSUME NEW t \in Tasks, stat'[t] = "WAITING", pc'[t] \in NamedPoints
          PROVE  wait_for'[t] \in Sems
      BY <1>4, <2>5, <3>2 DEF GInv, WaitersFit, NamedPoints
    <3> QED  BY <1>4, <2>5, <2>18, <3>1, <3>2 DEF GInv, WaitersFit
  <2> QED  BY <2>6, <2>8, <2>9, <2>10, <2>11, <2>12, <2>13, <2>14, <2>15, <2>16, <2>17, <2>18,
              <2>19 DEF GInv
<1> QED  BY <1>5, <1>6

-----------------------------------------------------------------------------
(* Creation and the reaper.                                                 *)

\* A page that alloc_page hands out is linked nowhere and nobody points to it
\* to enqueue it; the new thread starts outside every window.
LEMMA CreateStep ==
    ASSUME GInv, NEW c \in Tasks, NEW p \in Prios, NEW from, from \in {"boot", "run"},
           Create(c, p, from)
    PROVE  GInv'
<1> DEFINE start == IF c = Reaper THEN "reap_tq" ELSE "run"
<1>1. /\ irq = "none" /\ pc[current] = from /\ c \notin live
      /\ live' = live \cup {c}
      /\ arg' = [arg EXCEPT ![current] = c]
      /\ pc' = [pc EXCEPT ![current] = "fork_lock", ![c] = start]
      /\ prio' = [prio EXCEPT ![c] = p]
      /\ stat' = [stat EXCEPT ![c] = "READY"]
      /\ wait_for' = [wait_for EXCEPT ![c] = NULL]
      /\ UNCHANGED <<queues, current, parent, children, due, cpu>>
      /\ UNCHANGED irq
  BY DEF Create, At, cpu
<1>2. /\ current \in Tasks /\ current \in live /\ stat \in [Tasks -> Stats] /\ prio \in [Tasks -> Prios]
      /\ pc \in [Tasks -> Places] /\ live \subseteq Tasks /\ arg \in [Tasks -> Tasks \cup {NULL}]
  BY DEF GInv, Typed, Running
<1>3. c # current /\ c # Idle /\ start \in {"run", "reap_tq"} /\ (start = "reap_tq" => c = Reaper)
  BY <1>1, <1>2, ListFacts, Constants DEF GInv, IdleFits
<1>4. pc[c] \in DeadPoints
  BY <1>1 DEF GInv, Running
<1> HIDE DEF start
<1>5. /\ pc'[current] = "fork_lock" /\ pc'[c] = start
      /\ arg'[current] = c
      /\ stat'[c] = "READY" /\ prio'[c] = p
      /\ \A t \in Tasks \ {c} : stat'[t] = stat[t] /\ prio'[t] = prio[t]
      /\ \A t \in Tasks \ {current} : arg'[t] = arg[t]
      /\ \A t \in Tasks \ {current, c} : pc'[t] = pc[t]
  BY <1>1, <1>2, <1>3
<1>6. /\ QueuesType' /\ BitmapsExact' /\ list' = list
      /\ \A h \in Heads : On(h)' = On(h)
  BY <1>1 DEF GInv, Typed, QueuesType, BitmapsExact, On, queues
<1>7. /\ \A h \in Heads : c \notin On(h)
      /\ \A t : (Linked(t)' <=> Linked(t)) /\ ~Linked(c)
      /\ \A t : Linked(t) => t \in live
  BY <1>1, <1>6, ListFacts DEF Linked
<1>8. stat[current] = "READY"
  BY <1>1, <1>2 DEF GInv, Running, StatPoints, Stats, StatFits, SleepPoints, DeadPoints
<1>9. Typed'
  <2>1. pc' \in [Tasks -> Places]
    BY <1>1, <1>2, <1>3 DEF Places, Points, SemPoints
  <2>2. rest_ticks' \in [Tasks -> 1 .. W * W]
    <3>1. p + 1 \in 1 .. W * W
      BY ListAssumption DEF Prios
    <3> QED  BY <3>1 DEF Create, GInv, Typed
  <2>3. sleep_ticks' \in [Tasks -> 0 .. TickMod - 1]
    BY SchedAssumption DEF Create, GInv, Typed
  <2>4. wait_for' \in [Tasks -> Sems \cup {NULL}]
    BY DEF Create, GInv, Typed
  <2>5. lock' \in [Locks -> Tasks \cup {NULL}]
    BY DEF Create, GInv, Typed
  <2>6. /\ arg' \in [Tasks -> Tasks \cup {NULL}] /\ live' \in SUBSET Tasks
        /\ stat' \in [Tasks -> Stats] /\ prio' \in [Tasks -> Prios]
    BY <1>1, <1>2 DEF Stats
  <2> QED  BY <1>1, <1>6, <2>1, <2>2, <2>3, <2>4, <2>5, <2>6 DEF GInv, Typed, cpu
<1>10. ListsExact'
  <2>1. \A h \in Heads : \A t \in On(h) : t \in Tasks \ {c}
    BY <1>2, <1>7, ListFacts
  <2> QED  BY <1>1, <1>5, <1>6, <2>1 DEF GInv, ListsExact
<1>11. WindowsUnlinked'
  BY <1>1, <1>2, <1>5, <1>7 DEF GInv, WindowsUnlinked, Windows, Unlinked
<1>12. StatPoints'
  <2>1. StatFits("READY", "fork_lock") /\ StatFits("READY", start)
    BY <1>3 DEF StatFits
  <2> QED  BY <1>3, <1>5, <1>8, <2>1 DEF GInv, StatPoints
<1>13. Running'
  BY <1>1, <1>2, <1>3, <1>5 DEF GInv, Running
<1>14. HandsOff'
  <2>1. ASSUME NEW u \in Tasks, NEW t \in Tasks, InHand(u, t)'
        PROVE  (u = current /\ t = c) \/ (u # current /\ t # c /\ t # current /\ InHand(u, t))
    <3>1. start \notin ForkPoints \cup WakePoints
      BY <1>3 DEF ForkPoints, WakePoints
    <3>2. CASE u = current
      BY <1>5, <2>1, <3>2 DEF InHand
    <3>3. CASE u = c
      BY <1>3, <1>5, <2>1, <3>1, <3>3 DEF InHand
    <3>4. CASE u \notin {current, c}
      <4>1. InHand(u, t)
        BY <1>5, <2>1, <3>4 DEF InHand
      <4> QED  BY <1>1, <3>4, <4>1 DEF GInv, HandsOff
    <3> QED  BY <3>2, <3>3, <3>4
  <2>2. ASSUME NEW u \in Tasks, NEW t \in Tasks, InHand(u, t)'
        PROVE  /\ t \in live' /\ ~Linked(t)'
               /\ stat'[t] = IF pc'[u] \in PostedPoints THEN "WAITING" ELSE "READY"
               /\ pc'[u] \in PostedPoints => wait_for'[t] \in Sems
               /\ pc'[t] \in {"run", "reap_tq", "wait_sched", "semw_for", "semw_sched"}
               /\ t # current'
               /\ \A v \in Tasks : InHand(v, t)' => v = u
    <3>1. CASE u = current /\ t = c
      BY <1>1, <1>3, <1>5, <1>7, <2>1, <3>1 DEF PostedPoints
    <3>2. CASE u # current /\ t # c /\ t # current /\ InHand(u, t)
      <4>1. pc'[u] = pc[u] /\ u # c
        BY <1>4, <1>5, <3>2 DEF InHand, DeadPoints, ForkPoints, WakePoints
      <4>2. pc'[t] = pc[t] /\ stat'[t] = stat[t] /\ wait_for'[t] = wait_for[t]
        BY <1>1, <1>5, <3>2 DEF GInv, Typed
      <4> QED  BY <1>1, <1>5, <1>7, <2>1, <3>2, <4>1, <4>2 DEF GInv, HandsOff
    <3> QED  BY <2>1, <2>2, <3>1, <3>2
  <2> QED  BY <2>2 DEF HandsOff
<1>15. PointersSet'
  <2>1. \A u \in Tasks : pc'[u] \in ForkPoints \cup ParentPoints => arg'[u] \in Tasks
    <3>1. start \notin ForkPoints \cup ParentPoints
      BY <1>3 DEF ForkPoints, ParentPoints
    <3> QED  BY <1>5, <3>1 DEF GInv, PointersSet
  <2>2. ASSUME NEW t \in live' \ {Idle}, parent'[t] = NULL
        PROVE  \E u \in Tasks : pc'[u] \in NewChildPoints /\ arg'[u] = t
    <3>1. CASE t = c
      BY <1>2, <1>5, <3>1 DEF NewChildPoints
    <3>2. CASE t # c
      <4>1. PICK u \in Tasks : pc[u] \in NewChildPoints /\ arg[u] = t
        BY <1>1, <2>2, <3>2 DEF GInv, PointersSet, NewChildPoints
      <4>2. u # current /\ u # c
        BY <1>1, <1>4, <4>1 DEF NewChildPoints, DeadPoints
      <4> QED  BY <1>5, <4>1, <4>2
    <3> QED  BY <3>1, <3>2
  <2> QED  BY <2>1, <2>2 DEF PointersSet, NewChildPoints
<1>16. ReaperFits'
  <2>1. ASSUME NEW u \in Tasks, pc'[u] \in ReapPoints
        PROVE  \/ u = c /\ pc'[u] = "reap_tq" /\ u = Reaper
               \/ u \notin {c, current} /\ pc'[u] = pc[u] /\ arg'[u] = arg[u]
    BY <1>3, <1>5, <2>1 DEF ReapPoints
  <2>2. pc[current] \notin DeadPoints
    BY <1>1 DEF DeadPoints
  <2>3. ASSUME NEW u \in Tasks, pc'[u] \in ReapPoints
        PROVE  /\ u = Reaper
               /\ pc'[u] \in PickedPoints => arg'[u] \in On(Zombie)
               /\ pc'[u] \in TakenPoints =>
                    /\ arg'[u] \in live /\ ~Linked(arg'[u])
                    /\ stat'[arg'[u]] = "ZOMBIE" /\ pc'[arg'[u]] \in DeadPoints
    <3>1. CASE u = c /\ pc'[u] = "reap_tq" /\ u = Reaper
      BY <3>1 DEF PickedPoints, TakenPoints
    <3>2. CASE u \notin {c, current} /\ pc'[u] = pc[u] /\ arg'[u] = arg[u]
      BY <1>1, <1>2, <1>5, <2>2, <2>3, <3>2 DEF GInv, ReaperFits, PickedPoints, TakenPoints
    <3> QED  BY <2>1, <2>3, <3>1, <3>2
  <2>4. PickedPoints \cup TakenPoints \subseteq ReapPoints
    BY DEF PickedPoints, TakenPoints, ReapPoints
  <2>5. \A u \in Tasks :
          /\ pc'[u] \in ReapPoints => u = Reaper
          /\ pc'[u] \in PickedPoints => arg'[u] \in On(Zombie)
          /\ pc'[u] \in TakenPoints =>
               /\ arg'[u] \in live /\ ~Linked(arg'[u])
               /\ stat'[arg'[u]] = "ZOMBIE" /\ pc'[arg'[u]] \in DeadPoints
    BY <2>3, <2>4
  <2>6. On(Zombie)' = On(Zombie)
    BY <1>6, HeadsDiffer
  <2>7. live \subseteq live' /\ \A t : Linked(t)' <=> Linked(t)
    BY <1>1, <1>7
  <2> QED  BY <2>5, <2>6, <2>7 DEF ReaperFits, PickedPoints, TakenPoints
<1>17. IdleFits'
  BY <1>1, <1>3, <1>5, <1>6, Constants DEF GInv, IdleFits, ForkPoints
<1>18. TickFits'
  BY <1>1 DEF TickFits
<1>19. \A s \in Sems : \A t \in On(SemQ(s)) : t \in Tasks \ {c, current}
  BY <1>2, <1>7, <1>8, ListFacts, HeadsDiffer DEF GInv, SemsWait
<1>20. SemsWait'
  BY <1>5, <1>6, <1>19, HeadsDiffer DEF GInv, SemsWait
<1>21. WaitersFit'
  <2>1. \A t \in Tasks \ {c} : wait_for'[t] = wait_for[t]
    BY <1>1 DEF GInv, Typed
  <2>2. ASSUME NEW t \in Tasks, pc'[t] \in NamedPoints \cup {"semw_for", "semw_tq", "semw_add"}
        PROVE  t \notin {c, current}
    BY <1>3, <1>5, <2>2 DEF NamedPoints
  <2>3. ASSUME NEW t \in Tasks, pc'[t] \in {"semw_for", "semw_tq", "semw_add"}
        PROVE  stat'[t] = "WAITING" \/ Linked(t)' \/ \E u \in Tasks : InHand(u, t)'
    <3>1. \A u \in Tasks : InHand(u, t) => InHand(u, t)'
      BY <1>1, <1>4, <1>5 DEF InHand, DeadPoints, ForkPoints, WakePoints
    <3> QED  BY <1>5, <1>7, <2>2, <2>3, <3>1 DEF GInv, WaitersFit
  <2> QED  BY <1>5, <1>6, <1>19, <2>1, <2>2, <2>3, HeadsDiffer DEF GInv, WaitersFit
<1> QED  BY <1>6, <1>9, <1>10, <1>11, <1>12, <1>13, <1>14, <1>15, <1>16, <1>17, <1>18, <1>20,
            <1>21 DEF GInv

\* The reaper takes the picked thread off the zombie queue: it is past its
\* last window, and nobody is about to enqueue it.
LEMMA UnlinkZombieStep ==
    ASSUME GInv, UnlinkZombie  PROVE GInv'
<1>1. /\ current \in Tasks /\ current \in live /\ stat \in [Tasks -> Stats]
      /\ pc \in [Tasks -> Places] /\ live \subseteq Tasks /\ irq = "none"
      /\ pc[current] = "reap_unlink" /\ current = Reaper /\ arg[current] \in On(Zombie)
  BY DEF GInv, Typed, Running, ReaperFits, ReapPoints, UnlinkZombie, At
<1>2. PICK z \in Tasks : z = arg[current]
  BY <1>1, ListFacts, HeadsDiffer
<1>3. /\ tq_dequeue(Zombie, z)
      /\ pc' = [pc EXCEPT ![current] = "reap_unlock"]
      /\ UNCHANGED <<lock, current, arg, family, fields, ticks, cpu>>
      /\ UNCHANGED <<live, stat, prio, wait_for, parent, irq>>
  BY <1>2 DEF UnlinkZombie, Goto, family, fields, cpu
<1>4. /\ z \in live /\ stat[z] = "ZOMBIE" /\ Linked(z)
      /\ \A p \in Prios : z \notin On(Run(p))
  BY <1>1, <1>2, HeadsDiffer DEF GInv, ListsExact, Linked
<1>5. /\ pc[z] \in DeadPoints /\ z # current /\ z # Idle
  <2>1. pc[z] \notin Windows
    BY <1>4 DEF GInv, WindowsUnlinked
  <2>2. pc[z] \in DeadPoints
    BY <1>4, <2>1 DEF GInv, StatPoints, StatFits, Windows, Unlinked
  <2> QED  BY <1>1, <2>2 DEF DeadPoints, GInv, IdleFits, ForkPoints
<1>6. /\ QueuesType' /\ BitmapsExact' /\ NoRepeats'
      /\ \A h \in Heads : On(h)' = On(h) \ {z}
  BY <1>3, <1>4, ListFacts, HeadsDiffer, TqDequeue
<1>7. /\ \A t : Linked(t)' <=> Linked(t) /\ t # z
      /\ pc'[current] = "reap_unlock" /\ \A t \in Tasks \ {current} : pc'[t] = pc[t]
  BY <1>1, <1>3, <1>6 DEF Linked
<1>8. \A u, t \in Tasks : InHand(u, t)' <=> InHand(u, t)
  BY <1>1, <1>3, <1>7 DEF InHand, ForkPoints, WakePoints
<1>9. Typed'
  BY <1>1, <1>3, <1>6 DEF GInv, Typed, Places, Points, SemPoints, family, fields, ticks, cpu
<1>10. ListsExact' /\ SemsWait'
  BY <1>3, <1>6, HeadsDiffer DEF GInv, ListsExact, SemsWait, NoRepeats
<1>11. WindowsUnlinked'
  BY <1>1, <1>3, <1>7 DEF GInv, WindowsUnlinked, Windows, Unlinked
<1>12. StatPoints'
  <2>1. StatFits(stat[current], "reap_unlock")
    BY <1>1 DEF GInv, StatPoints, Stats, StatFits, SleepPoints, DeadPoints
  <2> QED  BY <1>3, <1>7, <2>1 DEF GInv, StatPoints
<1>13. Running' /\ HandsOff'
  <2>1. Running'
    BY <1>1, <1>3, <1>7 DEF GInv, Running
  <2>2. ASSUME NEW u \in Tasks, NEW t \in Tasks, InHand(u, t)'
        PROVE  InHand(u, t) /\ u # current /\ t # current /\ pc'[u] = pc[u] /\ pc'[t] = pc[t]
    BY <1>1, <1>7, <1>8, <2>2 DEF InHand, GInv, HandsOff, ForkPoints, WakePoints
  <2> QED  BY <1>3, <1>7, <1>8, <2>1, <2>2 DEF GInv, HandsOff
<1>18. WaitersFit'
  <2>1. \A s \in Sems : \A t \in On(SemQ(s))' : t \in On(SemQ(s)) /\ t \in Tasks \ {current}
    BY <1>1, <1>6, ListFacts, HeadsDiffer DEF GInv, WaitersFit
  <2>2. ASSUME NEW t \in Tasks, pc'[t] \in {"semw_for", "semw_tq", "semw_add"}
        PROVE  stat'[t] = "WAITING" \/ Linked(t)' \/ \E u \in Tasks : InHand(u, t)'
    <3>1. t \notin {z, current}
      BY <1>5, <1>7, <2>2 DEF DeadPoints
    <3> QED  BY <1>3, <1>7, <1>8, <2>2, <3>1 DEF GInv, WaitersFit
  <2>3. \A t \in Tasks : pc'[t] \in NamedPoints => t # current
    BY <1>7 DEF NamedPoints
  <2> QED  BY <1>3, <1>7, <2>1, <2>2, <2>3 DEF GInv, WaitersFit
<1>14. PointersSet'
  BY <1>1, <1>3, <1>7 DEF GInv, PointersSet, ForkPoints, ParentPoints
<1>15. ReaperFits'
  <2>1. \A u \in Tasks : pc'[u] \in ReapPoints => u = current
    BY <1>1, <1>7 DEF GInv, ReaperFits
  <2>2. \A u \in Tasks : pc'[u] \in PickedPoints \cup TakenPoints => u = current
    BY <2>1 DEF ReapPoints, PickedPoints, TakenPoints
  <2>3. pc'[current] \notin PickedPoints
    BY <1>7 DEF PickedPoints
  <2>4. /\ arg'[current] = z /\ z \in live' /\ ~Linked(z)' /\ stat'[z] = "ZOMBIE"
        /\ pc'[z] \in DeadPoints
    BY <1>2, <1>3, <1>4, <1>5, <1>7
  <2> QED  BY <1>1, <1>3, <2>1, <2>2, <2>3, <2>4 DEF ReaperFits, PickedPoints, TakenPoints
<1>16. IdleFits'
  BY <1>1, <1>5, <1>6, <1>7, Constants DEF GInv, IdleFits
<1>17. TickFits'
  BY <1>1, <1>3 DEF TickFits
<1> QED  BY <1>6, <1>9, <1>10, <1>11, <1>12, <1>13, <1>14, <1>15, <1>16, <1>17, <1>18 DEF GInv

\* task_kill (sched.c:76) keeps the invariant: no list and no pointer leads to the
\* thread whose page is freed.
LEMMA KillStep ==
    ASSUME GInv, Kill  PROVE GInv'
<1>1. /\ current \in Tasks /\ current \in live /\ stat \in [Tasks -> Stats]
      /\ pc \in [Tasks -> Places] /\ live \subseteq Tasks /\ irq = "none"
      /\ arg \in [Tasks -> Tasks \cup {NULL}]
      /\ pc[current] = "reap_kill" /\ current = Reaper
  BY DEF GInv, Typed, Running, ReaperFits, ReapPoints, Kill, At
<1>2. PICK z \in Tasks :
        /\ z = arg[current] /\ z \in live /\ ~Linked(z)
        /\ stat[z] = "ZOMBIE" /\ pc[z] \in DeadPoints
  BY <1>1 DEF GInv, ReaperFits
<1>3. /\ live' = live \ {z}
      /\ arg' = [arg EXCEPT ![current] = NULL]
      /\ pc' = [pc EXCEPT ![current] = "reap_tq"]
      /\ UNCHANGED <<queues, lock, current, parent, children, fields, ticks, cpu>>
      /\ UNCHANGED <<stat, prio, wait_for, irq>>
  BY <1>2 DEF Kill, Goto, fields, cpu
<1>4. z # current
  BY <1>1, <1>2 DEF DeadPoints
<1>5. /\ QueuesType' /\ BitmapsExact' /\ SemsWait' /\ list' = list
      /\ \A h \in Heads : On(h)' = On(h)
  BY <1>3 DEF GInv, Typed, QueuesType, BitmapsExact, SemsWait, On, queues
<1>6. /\ \A t : Linked(t)' <=> Linked(t)
      /\ \A h \in Heads : z \notin On(h)
      /\ pc'[current] = "reap_tq" /\ \A t \in Tasks \ {current} : pc'[t] = pc[t]
      /\ \A t \in Tasks \ {current} : arg'[t] = arg[t]
  BY <1>1, <1>2, <1>3, <1>5 DEF Linked
<1>7. \A u, t \in Tasks : InHand(u, t)' => InHand(u, t) /\ t # z
  <2>1. \A u, t \in Tasks : InHand(u, t)' => InHand(u, t)
    BY <1>1, <1>6 DEF InHand, ForkPoints, WakePoints
  <2> QED  BY <1>2, <2>1 DEF GInv, HandsOff
<1>8. Typed'
  BY <1>1, <1>3, <1>5 DEF GInv, Typed, Places, Points, SemPoints, fields, ticks, cpu
<1>9. ListsExact'
  BY <1>3, <1>5, <1>6 DEF GInv, ListsExact
<1>10. WindowsUnlinked'
  BY <1>1, <1>3, <1>6 DEF GInv, WindowsUnlinked, Windows, Unlinked
<1>11. StatPoints'
  <2>1. StatFits(stat[current], "reap_tq")
    BY <1>1 DEF GInv, StatPoints, Stats, StatFits, SleepPoints, DeadPoints
  <2> QED  BY <1>3, <1>6, <2>1 DEF GInv, StatPoints
<1>12. Running'
  BY <1>1, <1>2, <1>3, <1>4, <1>6 DEF GInv, Running
<1>13. HandsOff'
  <2>1. ASSUME NEW u \in Tasks, NEW t \in Tasks, InHand(u, t)'
        PROVE  InHand(u, t) /\ u # current /\ t \notin {z, current} /\ pc'[u] = pc[u] /\ pc'[t] = pc[t]
    BY <1>1, <1>6, <1>7, <2>1 DEF InHand, GInv, HandsOff, ForkPoints, WakePoints
  <2> QED  BY <1>3, <1>6, <1>7, <2>1 DEF GInv, HandsOff
<1>14. PointersSet'
  <2>1. \A u \in Tasks : pc'[u] \in ForkPoints \cup ParentPoints => arg'[u] \in Tasks
    BY <1>6 DEF GInv, PointersSet, ForkPoints, ParentPoints
  <2>2. ASSUME NEW t \in live' \ {Idle}, parent'[t] = NULL
        PROVE  \E u \in Tasks : pc'[u] \in NewChildPoints /\ arg'[u] = t
    <3>1. PICK u \in Tasks : pc[u] \in NewChildPoints /\ arg[u] = t
      BY <1>3, <2>2 DEF GInv, PointersSet, NewChildPoints
    <3>2. u # current
      BY <1>1, <3>1 DEF NewChildPoints
    <3> QED  BY <1>6, <3>1, <3>2
  <2> QED  BY <2>1, <2>2 DEF PointersSet, NewChildPoints
<1>15. ReaperFits'
  <2>1. \A u \in Tasks : pc'[u] \in ReapPoints => u = current
    BY <1>1, <1>6 DEF GInv, ReaperFits
  <2>2. \A u \in Tasks : pc'[u] \notin PickedPoints \cup TakenPoints
    BY <1>6, <2>1 DEF ReapPoints, PickedPoints, TakenPoints
  <2> QED  BY <1>1, <2>1, <2>2 DEF ReaperFits, PickedPoints, TakenPoints
<1>16. IdleFits'
  BY <1>1, <1>5, <1>6, Constants DEF GInv, IdleFits
<1>17. TickFits'
  BY <1>1, <1>3 DEF TickFits
<1>18. WaitersFit'
  <2>1. \A s \in Sems : \A t \in On(SemQ(s))' : t \in On(SemQ(s)) /\ t \in Tasks \ {current}
    BY <1>1, <1>5, ListFacts, HeadsDiffer DEF GInv, WaitersFit
  <2>2. ASSUME NEW t \in Tasks, pc'[t] \in {"semw_for", "semw_tq", "semw_add"}
        PROVE  stat'[t] = "WAITING" \/ Linked(t)' \/ \E u \in Tasks : InHand(u, t)'
    <3>1. t # current /\ \A u \in Tasks : InHand(u, t) => InHand(u, t)'
      BY <1>1, <1>6, <2>2 DEF InHand, ForkPoints, WakePoints
    <3> QED  BY <1>3, <1>6, <2>2, <3>1 DEF GInv, WaitersFit
  <2>3. \A t \in Tasks : pc'[t] \in NamedPoints => t # current
    BY <1>6 DEF NamedPoints
  <2>4. wait_for' = wait_for /\ stat' = stat
    BY <1>3 DEF fields
  <2> QED  BY <1>6, <2>1, <2>2, <2>3, <2>4 DEF GInv, WaitersFit
<1> QED  BY <1>5, <1>8, <1>9, <1>10, <1>11, <1>12, <1>13, <1>14, <1>15, <1>16, <1>17, <1>18
            DEF GInv

-----------------------------------------------------------------------------
(* The invariant.                                                           *)

\* sched_init leaves the idle thread alone on its run queue, with exact bitmaps.
LEMMA InitInvariant ==
    ASSUME Init  PROVE GInv
<1>1. /\ QueuesType /\ BitmapsExact /\ NoRepeats
      /\ On(Run(IdlePrio)) = {Idle} /\ Run(IdlePrio) \in Heads
      /\ \A h \in Heads \ {Run(IdlePrio)} : On(h) = {}
  BY Constants, InitQueues DEF Init, IdlePrio
<1>2. /\ current = Idle /\ live = {Idle} /\ irq = "none"
      /\ pc = [t \in Tasks |-> IF t = Idle THEN "boot" ELSE "dead"]
      /\ arg = [t \in Tasks |-> NULL]
      /\ stat = [t \in Tasks |-> "READY"] /\ prio = [t \in Tasks |-> IdlePrio]
  BY DEF Init
<1>3. Typed
  <2>1. IdlePrio + 1 \in 1 .. W * W
    BY ListAssumption DEF IdlePrio
  <2>2. 0 \in 0 .. TickMod - 1
    BY SchedAssumption
  <2> QED  BY <1>1, <2>1, <2>2, Constants DEF Init, Typed, Places, Points, SemPoints, Stats
<1>4. ListsExact /\ SemsWait
  BY <1>1, <1>2, Constants, HeadsDiffer DEF ListsExact, SemsWait, NoRepeats
<1>5. \A u \in Tasks : pc[u] \in {"boot", "dead"} /\ (pc[u] = "boot" => u = Idle)
  BY <1>2
<1>6. \A u, t \in Tasks : ~InHand(u, t)
  BY <1>5 DEF InHand, ForkPoints, WakePoints
<1>7. WindowsUnlinked
  BY <1>2, <1>5, Constants DEF WindowsUnlinked, Windows, Unlinked
<1>8. StatPoints
  BY <1>2, <1>5 DEF StatPoints, StatFits
<1>9. Running
  BY <1>2, Constants DEF Running, DeadPoints
<1>10. HandsOff /\ PointersSet
  BY <1>2, <1>5, <1>6 DEF HandsOff, PointersSet, ForkPoints, ParentPoints
<1>11. ReaperFits
  BY <1>5 DEF ReaperFits, ReapPoints
<1>12. IdleFits /\ TickFits
  BY <1>1, <1>2, Constants DEF IdleFits, TickFits
<1>13. WaitersFit
  <2>1. \A s \in Sems : On(SemQ(s)) = {}
    BY <1>1, Constants, HeadsDiffer
  <2> QED  BY <1>5, <2>1 DEF WaitersFit, NamedPoints
<1> QED  BY <1>1, <1>3, <1>4, <1>7, <1>8, <1>9, <1>10, <1>11, <1>12, <1>13 DEF GInv

\* A step that changes nothing, the spinning handler's too, keeps the invariant.
LEMMA StutterStep ==
    ASSUME GInv, UNCHANGED vars  PROVE GInv'
<1>1. Typed' /\ TickFits'
  <2>1. UNCHANGED <<irq, cursor, temp, live, stat, pc>>
    BY DEF vars, cpu, family, fields
  <2>2. UNCHANGED <<list, pc, arg>>
    BY DEF vars, queues
  <2>3. Typed'
    BY DEF GInv, Typed, QueuesType, vars, queues, family, fields, ticks, cpu
  <2> QED  BY <2>1, <2>2, <2>3, SameView, HeadsDiffer DEF GInv, TickFits
<1> QED  BY <1>1, HandlerStep DEF vars, family, fields

\* Every step of kernel_thread keeps the invariant.
LEMMA KernelThreadStep ==
    ASSUME GInv, KernelThread  PROVE GInv'
<1>1. CASE \E c \in Workers : Create(c, InitPrio, "boot")
  BY <1>1, Constants, CreateStep
<1>2. CASE /\ "fork" \in Calls /\ current \in Workers
          /\ \E c \in Workers, p \in Levels : Create(c, p, "run")
  BY <1>2, Constants, CreateStep
<1>3. CASE /\ "reap" \in Calls /\ current \in Workers
          /\ Create(Reaper, DaemonPrio, "run")
  BY <1>3, Constants, CreateStep
<1>4. CASE Acquire(TaskLock(current), "fork_lock", "fork_adopt")
  BY <1>4, PlainMoves, AcquireStep
<1>5. CASE Adopt
  BY <1>5, AdoptStep
<1>6. CASE Acquire(RR, "fork_rr", "fork_enqueue")
  BY <1>6, PlainMoves, AcquireStep
<1>7. CASE Enqueue(arg[current], "fork_enqueue", "fork_sched")
  BY <1>7, EnqueueOtherStep DEF EnqueueMoves
<1>8. CASE Schedule("fork_sched", "fork_ret")
  BY <1>8, ScheduleStep DEF ScheduleMoves
<1>9. CASE ReturnPid
  BY <1>9, ReturnPidStep
<1> QED  BY <1>1, <1>2, <1>3, <1>4, <1>5, <1>6, <1>7, <1>8, <1>9 DEF KernelThread

\* Every step of sleep keeps the invariant.
LEMMA SleepCallStep ==
    ASSUME GInv, SleepCall  PROVE GInv'
<1>1. CASE Call("sleep", "sleep_rr")
  BY <1>1, PlainMoves, CallStep
<1>2. CASE Acquire(RR, "sleep_rr", "sleep_dequeue")
  BY <1>2, PlainMoves, AcquireStep
<1>3. CASE Dequeue("sleep_dequeue", "sleep_mark")
  BY <1>3, DequeueStep DEF DequeueMoves
<1>4. CASE SetSleep
  BY <1>4, SetSleepStep
<1>5. CASE Acquire(Sleep, "sleep_tq", "sleep_add")
  BY <1>5, PlainMoves, AcquireStep
<1>6. CASE Link(Sleep, "sleep_add", "sleep_half")
  BY <1>6, LinkStep
<1>7. CASE FinishLink
  BY <1>7, FinishLinkStep
<1>8. CASE Unlock(Sleep, "sleep_unlock", "sleep_sched")
  BY <1>8, PlainMoves, UnlockStep
<1>9. CASE Schedule("sleep_sched", "run")
  BY <1>9, ScheduleStep DEF ScheduleMoves
<1> QED  BY <1>1, <1>2, <1>3, <1>4, <1>5, <1>6, <1>7, <1>8, <1>9 DEF SleepCall

\* Every step of wait keeps the invariant.
LEMMA WaitCallStep ==
    ASSUME GInv, WaitCall  PROVE GInv'
<1>1. CASE Call("wait", "wait_rr")
  BY <1>1, PlainMoves, CallStep
<1>2. CASE Acquire(RR, "wait_rr", "wait_dequeue")
  BY <1>2, PlainMoves, AcquireStep
<1>3. CASE Dequeue("wait_dequeue", "wait_mark")
  BY <1>3, DequeueStep DEF DequeueMoves
<1>4. CASE SetStat(current, "WAITING", "wait_mark", "wait_sched")
  BY <1>4, SetStatStep DEF MarkMoves
<1>5. CASE Schedule("wait_sched", "run")
  BY <1>5, ScheduleStep DEF ScheduleMoves
<1> QED  BY <1>1, <1>2, <1>3, <1>4, <1>5 DEF WaitCall

\* Both steps of a thread that calls schedule() itself keep the invariant.
LEMMA YieldCallStep ==
    ASSUME GInv, YieldCall  PROVE GInv'
<1>1. CASE Call("yield", "yield_sched")
  BY <1>1, PlainMoves, CallStep
<1>2. CASE Schedule("yield_sched", "run")
  BY <1>2, ScheduleStep DEF ScheduleMoves
<1> QED  BY <1>1, <1>2 DEF YieldCall

\* Every step of task_reset_prio keeps the invariant.
LEMMA ResetPrioStep ==
    ASSUME GInv, ResetPrio  PROVE GInv'
<1>1. CASE Call("prio", "prio_lock")
  BY <1>1, PlainMoves, CallStep
<1>2. CASE LockSelf
  BY <1>2, LockSelfStep
<1>3. CASE Acquire(RR, "prio_rr", "prio_dequeue")
  BY <1>3, PlainMoves, AcquireStep
<1>4. CASE Dequeue("prio_dequeue", "prio_set")
  BY <1>4, DequeueStep DEF DequeueMoves
<1>5. CASE SetPrio
  BY <1>5, SetPrioStep
<1>6. CASE Acquire(RR, "prio_rr2", "prio_enqueue")
  BY <1>6, PlainMoves, AcquireStep
<1>7. CASE Enqueue(current, "prio_enqueue", "prio_unlock")
  BY <1>7, EnqueueSelfStep
<1>8. CASE Unlock(TaskLock(current), "prio_unlock", "prio_sched")
  BY <1>8, PlainMoves, UnlockStep
<1>9. CASE Schedule("prio_sched", "run")
  BY <1>9, ScheduleStep DEF ScheduleMoves
<1> QED  BY <1>1, <1>2, <1>3, <1>4, <1>5, <1>6, <1>7, <1>8, <1>9 DEF ResetPrio

\* Every step of kthread_exit and task_exit keeps the invariant.
LEMMA ExitStep ==
    ASSUME GInv, Exit  PROVE GInv'
<1>1. CASE Call("exit", "exit_rr")
  BY <1>1, PlainMoves, CallStep
<1>2. CASE Acquire(RR, "exit_rr", "exit_dequeue")
  BY <1>2, PlainMoves, AcquireStep
<1>3. CASE Dequeue("exit_dequeue", "exit_lockp")
  BY <1>3, DequeueStep DEF DequeueMoves
<1>4. CASE LockParent
  BY <1>4, LockParentStep
<1>5. CASE UnlinkSibling
  BY <1>5, UnlinkSiblingStep
<1>6. CASE Acquire(TaskLock(current), "exit_lock", "exit_reparent")
  BY <1>6, PlainMoves, AcquireStep
<1>7. CASE Reparent
  BY <1>7, ReparentStep
<1>8. CASE CheckParent
  BY <1>8, CheckParentStep
<1>9. CASE Acquire(RR, "exit_wake", "exit_enqueue")
  BY <1>9, PlainMoves, AcquireStep
<1>10. CASE Enqueue(arg[current], "exit_enqueue", "exit_unlock")
  BY <1>10, EnqueueOtherStep DEF EnqueueMoves
<1>11. CASE Unlock(TaskLock(current), "exit_unlock", "exit_unlockp")
  BY <1>11, PlainMoves, UnlockStep
<1>12. CASE Unlock(TaskLock(arg[current]), "exit_unlockp", "exit_mark")
  BY <1>12, PlainMoves, UnlockStep
<1>13. CASE SetStat(current, "ZOMBIE", "exit_mark", "exit_tq")
  BY <1>13, SetStatStep DEF MarkMoves
<1>14. CASE Acquire(Zombie, "exit_tq", "exit_link")
  BY <1>14, PlainMoves, AcquireStep
<1>15. CASE Link(Zombie, "exit_link", "exit_tqunlock")
  BY <1>15, LinkStep
<1>16. CASE Unlock(Zombie, "exit_tqunlock", "exit_sched")
  BY <1>16, PlainMoves, UnlockStep
<1>17. CASE Schedule("exit_sched", "dead")
  BY <1>17, ScheduleStep DEF ScheduleMoves
<1> QED  BY <1>1, <1>2, <1>3, <1>4, <1>5, <1>6, <1>7, <1>8, <1>9, <1>10, <1>11, <1>12, <1>13,
            <1>14, <1>15, <1>16, <1>17 DEF Exit

\* Every step of kkill_zombie keeps the invariant.
LEMMA KillZombiesStep ==
    ASSUME GInv, KillZombies  PROVE GInv'
<1>1. CASE Acquire(Zombie, "reap_tq", "reap_pick")
  BY <1>1, PlainMoves, AcquireStep
<1>2. CASE PickZombie
  BY <1>2, PickZombieStep
<1>3. CASE Schedule("reap_sched", "reap_tq")
  BY <1>3, ScheduleStep DEF ScheduleMoves
<1>4. CASE Acquire(Zombie, "reap_tq2", "reap_unlink")
  BY <1>4, PlainMoves, AcquireStep
<1>5. CASE UnlinkZombie
  BY <1>5, UnlinkZombieStep
<1>6. CASE Unlock(Zombie, "reap_unlock", "reap_kill")
  BY <1>6, PlainMoves, UnlockStep
<1>7. CASE Kill
  BY <1>7, KillStep
<1> QED  BY <1>1, <1>2, <1>3, <1>4, <1>5, <1>6, <1>7 DEF KillZombies

\* Every step of every thread and of the interrupt keeps the invariant.
LEMMA NextInvariant ==
    ASSUME GInv, [Next]_vars  PROVE GInv'
<1>1. CASE Service
  BY <1>1, KernelThreadStep, SleepCallStep, WaitCallStep, YieldCallStep, ResetPrioStep, ExitStep,
     KillZombiesStep DEF Service
<1>2. CASE Tick
  BY <1>2, TickStep
<1>3. CASE SchedTick
  BY <1>3, TickScanStep, TickUnlinkStep, TickEnqueueStep, TickReturnStep, TickSwitchStep
     DEF SchedTick
<1>4. CASE Spin \/ UNCHANGED vars
  BY <1>4, StutterStep DEF Spin
<1> QED  BY <1>1, <1>2, <1>3, <1>4 DEF Next

-----------------------------------------------------------------------------
(* Sched keeps its hands off the semaphores.                                *)

\* The queues of the semaphores stay as they are, and so do the threads that
\* are inside a call of Semaphore; nobody enters one.
SemsKept ==
    /\ \A s \in Sems :
         list'[SemQ(s)] = list[SemQ(s)] /\ n_tasks'[SemQ(s)] = n_tasks[SemQ(s)]
    /\ \A t \in Tasks :
         /\ pc[t] \in SemPoints => pc'[t] = pc[t] /\ arg'[t] = arg[t] /\ wait_for'[t] = wait_for[t]
         /\ pc'[t] \in SemPoints => pc[t] \in SemPoints

\* The other services have statements of their own.
LEMMA PointsApart == \A p \in Points : p \notin SemPoints
BY DEF Points, SemPoints

\* A move of the running thread inside Sched.
LEMMA MoveKeeps ==
    ASSUME GInv, pc[current] \in Points, NEW to \in Points,
           pc' = [pc EXCEPT ![current] = to],
           \A t \in Tasks \ {current} : arg'[t] = arg[t],
           UNCHANGED wait_for,
           \A s \in Sems : list'[SemQ(s)] = list[SemQ(s)] /\ n_tasks'[SemQ(s)] = n_tasks[SemQ(s)]
    PROVE  SemsKept
<1>1. current \in Tasks /\ pc \in [Tasks -> Places]
  BY DEF GInv, Typed
<1>2. pc'[current] = to /\ \A t \in Tasks \ {current} : pc'[t] = pc[t]
  BY <1>1
<1> QED  BY <1>2, PointsApart DEF SemsKept

\* The list operations, on other lists and of threads that are on other lists.
LEMMA OtherLists ==
    ASSUME GInv, NEW t, NEW p \in Prios, NEW q \in {Sleep, Zombie},
           \/ rr_enqueue(t, p)
           \/ rr_pick_next
           \/ tq_enqueue(q, t)
           \/ /\ rr_dequeue(t, p) \/ tq_dequeue(q, t)
              /\ \A s \in Sems : t \notin On(SemQ(s))
    PROVE  \A s \in Sems : list'[SemQ(s)] = list[SemQ(s)] /\ n_tasks'[SemQ(s)] = n_tasks[SemQ(s)]
<1> SUFFICES ASSUME NEW s \in Sems
             PROVE  list'[SemQ(s)] = list[SemQ(s)] /\ n_tasks'[SemQ(s)] = n_tasks[SemQ(s)]
  OBVIOUS
<1>1. /\ list \in [Heads -> Seq(Tasks)] /\ n_tasks \in [Queues -> Int]
      /\ SemQ(s) \in Heads /\ SemQ(s) \in Queues /\ SemQ(s) \notin {RR, q, Run(p)}
  <2>1. SemQ(s) # RR
    BY DEF SemQ, RR
  <2>2. list \in [Heads -> Seq(Tasks)] /\ n_tasks \in [Queues -> Int]
    BY DEF GInv, Typed, QueuesType
  <2> QED  BY Zenon, <2>1, <2>2, HeadsDiffer
<1>2. CASE rr_enqueue(t, p)
  BY <1>1, <1>2 DEF rr_enqueue, list_add_tail
<1>3. CASE rr_pick_next
  <2>1. PickPrio \in Prios
    BY ListFacts, Constants, PickFinds
  <2>2. SemQ(s) # Run(PickPrio)
    BY <2>1, HeadsDiffer
  <2> QED  BY <1>1, <1>3, <2>2 DEF rr_pick_next
<1>4. CASE tq_enqueue(q, t)
  BY <1>1, <1>4 DEF tq_enqueue, list_add_tail
<1>5. CASE /\ rr_dequeue(t, p) \/ tq_dequeue(q, t)
          /\ \A r \in Sems : t \notin On(SemQ(r))
  <2>1. list' = list_del(t) /\ n_tasks'[SemQ(s)] = n_tasks[SemQ(s)]
    <3>1. n_tasks' = [n_tasks EXCEPT ![RR] = @ - 1] \/ n_tasks' = [n_tasks EXCEPT ![q] = @ - 1]
      BY <1>5 DEF rr_dequeue, tq_dequeue
    <3> QED  BY <1>1, <1>5, <3>1 DEF rr_dequeue, tq_dequeue
  <2>2. Drop(list[SemQ(s)], t) = list[SemQ(s)]
    BY <1>5 DEF Drop, On
  <2> QED  BY <1>1, <2>1, <2>2 DEF list_del
<1> QED  BY <1>2, <1>3, <1>4, <1>5

\* A thread that is not waiting is on no semaphore's queue.
LEMMA NotQueued ==
    ASSUME GInv
    PROVE  /\ \A t \in Tasks : stat[t] # "WAITING" => \A s \in Sems : t \notin On(SemQ(s))
           /\ \A t \in On(Sleep) \cup On(Zombie) : \A s \in Sems : t \notin On(SemQ(s))
           /\ current \in Tasks /\ prio \in [Tasks -> Prios]
           /\ pc \in [Tasks -> Places] /\ arg \in [Tasks -> Tasks \cup {NULL}]
           /\ wait_for \in [Tasks -> Sems \cup {NULL}]
BY HeadsDiffer DEF GInv, Typed, SemsWait, ListsExact

\* The steps that change no list.
LEMMA FieldsKeep ==
    ASSUME GInv, UNCHANGED queues, UNCHANGED wait_for, pc[current] \in Points,
           NEW to \in Points, Goto(to), \A t \in Tasks \ {current} : arg'[t] = arg[t]
    PROVE  SemsKept
BY MoveKeeps DEF Goto, queues

\* Those every service is made of.
LEMMA PartsKeep ==
    ASSUME GInv, NEW l, NEW t, NEW from \in Points, NEW to \in Points,
           \/ Acquire(l, from, to)
           \/ Unlock(l, from, to)
           \/ Call(l, to)
           \/ Schedule(from, to)
           \/ SetStat(t, l, from, to)
           \/ Enqueue(t, from, to) /\ t \in Tasks
           \/ Dequeue(from, to) /\ stat[current] = "READY"
           \/ Link(t, from, to) /\ t \in {Sleep, Zombie}
    PROVE  SemsKept
<1>0. "run" \in Points
  BY DEF Points
<1>1. CASE \/ Acquire(l, from, to)
           \/ Unlock(l, from, to)
           \/ Call(l, to)
           \/ SetStat(t, l, from, to)
  <2>1. /\ UNCHANGED <<queues, arg, wait_for>> /\ Goto(to) /\ pc[current] \in Points
    BY <1>0, <1>1 DEF Acquire, Unlock, Call, SetStat, At, fields
  <2> QED  BY <2>1, FieldsKeep
<1>2. CASE Schedule(from, to)
  <2>1. /\ rr_pick_next /\ Goto(to) /\ pc[current] \in Points /\ UNCHANGED wait_for
        /\ arg' = [arg EXCEPT ![current] = IF to = "fork_ret" THEN @ ELSE NULL]
    BY <1>2 DEF Schedule, At, fields
  <2>2. \A u \in Tasks \ {current} : arg'[u] = arg[u]
    BY <2>1, NotQueued
  <2> QED  BY <2>1, <2>2, OtherLists, MoveKeeps, Constants DEF Goto
<1>3. CASE Enqueue(t, from, to) /\ t \in Tasks
  <2>1. /\ rr_enqueue(t, prio[t]) /\ Goto(to) /\ pc[current] \in Points /\ UNCHANGED <<arg, wait_for>>
        /\ prio[t] \in Prios
    BY <1>3, NotQueued DEF Enqueue, At, fields
  <2> QED  BY <2>1, OtherLists, MoveKeeps DEF Goto
<1>4. CASE Dequeue(from, to) /\ stat[current] = "READY"
  <2>1. /\ rr_dequeue(current, prio[current]) /\ Goto(to) /\ pc[current] \in Points
        /\ UNCHANGED <<arg, wait_for>> /\ prio[current] \in Prios
    BY <1>4, NotQueued DEF Dequeue, At, fields
  <2>2. \A s \in Sems : current \notin On(SemQ(s))
    BY <1>4, NotQueued
  <2> QED  BY <2>1, <2>2, OtherLists, MoveKeeps DEF Goto
<1>5. CASE Link(t, from, to) /\ t \in {Sleep, Zombie}
  <2>1. /\ tq_enqueue(t, current) /\ Goto(to) /\ pc[current] \in Points /\ UNCHANGED <<arg, wait_for>>
    BY <1>5 DEF Link, At, fields
  <2> QED  BY <1>5, <2>1, OtherLists, MoveKeeps, Constants DEF Goto
<1> QED  BY <1>1, <1>2, <1>3, <1>4, <1>5

\* The statements of Sched, by name.
LEMMA PointNames ==
    {"dead", "run", "boot", "fork_lock", "fork_adopt", "fork_rr", "fork_enqueue", "fork_sched",
     "fork_ret", "sleep_rr", "sleep_dequeue", "sleep_mark", "sleep_tq", "sleep_add",
     "sleep_half", "sleep_unlock", "sleep_sched",
     "wait_rr", "wait_dequeue", "wait_mark", "wait_sched",
     "prio_lock", "prio_rr", "prio_dequeue", "prio_set", "prio_rr2",
     "prio_enqueue", "prio_unlock", "prio_sched",
     "exit_rr", "exit_dequeue", "exit_lockp", "exit_unlink", "exit_lock",
     "exit_reparent", "exit_check", "exit_wake", "exit_enqueue", "exit_unlock",
     "exit_unlockp", "exit_mark", "exit_tq", "exit_link", "exit_tqunlock",
     "exit_sched", "yield_sched",
     "reap_tq", "reap_pick", "reap_sched", "reap_tq2", "reap_unlink",
     "reap_unlock", "reap_kill"} \subseteq Points
BY DEF Points

\* A new thread starts in its own code or in the reaper's.
LEMMA CreateKeeps ==
    ASSUME GInv, NEW c \in Tasks, NEW p, NEW from \in Points, Create(c, p, from)
    PROVE  SemsKept
<1> DEFINE start == IF c = Reaper THEN "reap_tq" ELSE "run"
<1>1. /\ pc[current] \in Points /\ c \notin live /\ UNCHANGED queues
      /\ arg' = [arg EXCEPT ![current] = c]
      /\ pc' = [pc EXCEPT ![current] = "fork_lock", ![c] = start]
      /\ wait_for' = [wait_for EXCEPT ![c] = NULL]
  BY DEF Create, At
<1>2. /\ start \in Points /\ "fork_lock" \in Points /\ \A q \in DeadPoints : q \in Points
  BY DEF Points, DeadPoints
<1> HIDE DEF start
<1>3. c # current /\ pc[c] \in Points
  BY <1>1, <1>2 DEF GInv, Running
<1>4. /\ pc'[current] = "fork_lock" /\ pc'[c] = start
      /\ \A t \in Tasks \ {c, current} : pc'[t] = pc[t] /\ arg'[t] = arg[t] /\ wait_for'[t] = wait_for[t]
  BY <1>1, <1>3, NotQueued
<1>5. list' = list /\ n_tasks' = n_tasks
  BY <1>1 DEF queues
<1> QED  BY <1>1, <1>2, <1>3, <1>4, <1>5, PointsApart DEF SemsKept

\* The steps of the services that are not like those of any other.
LEMMA OwnStepsKeep ==
    ASSUME GInv,
           \/ Adopt
           \/ SetSleep
           \/ FinishLink
           \/ LockSelf
           \/ SetPrio
           \/ LockParent
           \/ UnlinkSibling
           \/ Reparent
           \/ CheckParent
           \/ PickZombie
           \/ Kill
           \/ ReturnPid
    PROVE  SemsKept
<1> USE PointNames, NotQueued
<1>1. CASE Adopt \/ UnlinkSibling \/ Reparent
  BY <1>1, FieldsKeep DEF Adopt, UnlinkSibling, Reparent, At, fields
<1>2. CASE SetSleep \/ FinishLink
  BY <1>2, FieldsKeep DEF SetSleep, FinishLink, At, fields
<1>3. CASE LockSelf
  <2>1. \E to \in Points : Goto(to)
    BY <1>3 DEF LockSelf
  <2> QED  BY <1>3, <2>1, FieldsKeep DEF LockSelf, At, fields
<1>4. CASE SetPrio
  <2>1. \E to \in Points : Goto(to)
    BY <1>4 DEF SetPrio
  <2> QED  BY <1>4, <2>1, FieldsKeep DEF SetPrio, At
<1>5. CASE CheckParent
  <2>1. \E to \in Points : Goto(to)
    BY <1>5 DEF CheckParent
  <2> QED  BY <1>5, <2>1, FieldsKeep DEF CheckParent, At
<1>6. CASE LockParent
  <2>1. \A t \in Tasks \ {current} : arg'[t] = arg[t]
    BY <1>6 DEF LockParent
  <2> QED  BY <1>6, <2>1, FieldsKeep DEF LockParent, At, fields
<1>7. CASE PickZombie
  <2>1. \A t \in Tasks \ {current} : arg'[t] = arg[t]
    BY <1>7 DEF PickZombie
  <2>2. \E to \in Points : Goto(to)
    BY <1>7 DEF PickZombie
  <2> QED  BY <1>7, <2>1, <2>2, FieldsKeep DEF PickZombie, At, fields
<1>8. CASE Kill
  <2>1. \A t \in Tasks \ {current} : arg'[t] = arg[t]
    BY <1>8 DEF Kill
  <2> QED  BY <1>8, <2>1, FieldsKeep DEF Kill, At, fields
<1>9. CASE ReturnPid
  <2>1. \A t \in Tasks \ {current} : arg'[t] = arg[t]
    BY <1>9 DEF ReturnPid
  <2> QED  BY <1>9, <2>1, FieldsKeep DEF ReturnPid, At, fields
<1> QED  BY <1>1, <1>2, <1>3, <1>4, <1>5, <1>6, <1>7, <1>8, <1>9

\* The zombie queue is not a semaphore's.
LEMMA UnlinkZombieKeeps ==
    ASSUME GInv, UnlinkZombie
    PROVE  SemsKept
<1>1. /\ tq_dequeue(Zombie, arg[current]) /\ Goto("reap_unlock") /\ pc[current] = "reap_unlink"
      /\ UNCHANGED <<arg, wait_for>>
  BY DEF UnlinkZombie, At, fields
<1>2. arg[current] \in On(Zombie)
  BY <1>1, NotQueued DEF GInv, ReaperFits
<1> QED  BY <1>1, <1>2, NotQueued, PointNames, Constants, OtherLists, MoveKeeps DEF Goto

\* A thread that dequeues itself is ready, and one that is enqueued exists.
LEMMA ReadyAndSet ==
    ASSUME GInv
    PROVE  /\ pc[current] \in {"sleep_dequeue", "wait_dequeue", "prio_dequeue", "exit_dequeue"} =>
                stat[current] = "READY"
           /\ pc[current] \in {"fork_enqueue", "exit_enqueue"} => arg[current] \in Tasks
<1>1. current \in Tasks /\ stat[current] \in Stats
  BY DEF GInv, Typed
<1> QED  BY <1>1 DEF GInv, StatPoints, Stats, StatFits, SleepPoints, DeadPoints, PointersSet,
            ForkPoints, ParentPoints

\* Every step of a service of Sched.
LEMMA ServiceKeeps ==
    ASSUME GInv, Service
    PROVE  SemsKept
<1> USE PointNames, PartsKeep
<1>1. CASE KernelThread
  <2>1. CASE \E c \in Tasks : \E p : \E from \in Points : Create(c, p, from)
    BY <2>1, CreateKeeps
  <2>2. CASE Enqueue(arg[current], "fork_enqueue", "fork_sched")
    BY <2>2, ReadyAndSet DEF Enqueue, At
  <2> QED  BY ZenonT(40), <1>1, <2>1, <2>2, Constants, OwnStepsKeep DEF KernelThread
<1>2. CASE SleepCall
  <2>1. CASE Dequeue("sleep_dequeue", "sleep_mark")
    BY <2>1, ReadyAndSet DEF Dequeue, At
  <2> QED  BY ZenonT(40), <1>2, <2>1, OwnStepsKeep DEF SleepCall
<1>3. CASE WaitCall
  <2>1. CASE Dequeue("wait_dequeue", "wait_mark")
    BY <2>1, ReadyAndSet DEF Dequeue, At
  <2> QED  BY <1>3, <2>1 DEF WaitCall
<1>4. CASE YieldCall
  BY <1>4 DEF YieldCall
<1>5. CASE ResetPrio
  <2>1. CASE Dequeue("prio_dequeue", "prio_set")
    BY <2>1, ReadyAndSet DEF Dequeue, At
  <2> QED  BY ZenonT(40), <1>5, <2>1, NotQueued, OwnStepsKeep DEF ResetPrio
<1>6. CASE Exit
  <2>1. CASE Dequeue("exit_dequeue", "exit_lockp")
    BY <2>1, ReadyAndSet DEF Dequeue, At
  <2>2. CASE Enqueue(arg[current], "exit_enqueue", "exit_unlock")
    BY <2>2, ReadyAndSet DEF Enqueue, At
  <2> QED  BY ZenonT(40), <1>6, <2>1, <2>2, OwnStepsKeep DEF Exit
<1>7. CASE KillZombies
  BY ZenonT(40), <1>7, OwnStepsKeep, UnlinkZombieKeeps DEF KillZombies
<1> QED  BY <1>1, <1>2, <1>3, <1>4, <1>5, <1>6, <1>7 DEF Service

\* Every step of Sched.
LEMMA NextKeeps ==
    ASSUME GInv, [Next]_vars
    PROVE  SemsKept
<1>1. CASE Service
  BY <1>1, ServiceKeeps
<1>2. CASE UNCHANGED <<queues, pc, arg, wait_for>>
  BY <1>2 DEF SemsKept, queues
<1>3. CASE TickUnlink
  <2>1. /\ tq_dequeue(Sleep, cursor) /\ UNCHANGED <<pc, arg, wait_for>> /\ cursor \in On(Sleep)
    BY <1>3 DEF TickUnlink, GInv, TickFits
  <2> QED  BY <2>1, NotQueued, OtherLists, Constants DEF SemsKept
<1>4. CASE TickEnqueue
  <2>1. /\ rr_enqueue(cursor, prio[cursor]) /\ UNCHANGED <<pc, arg, wait_for>> /\ cursor \in Tasks
    BY <1>4 DEF TickEnqueue, GInv, Typed, TickFits, fields
  <2> QED  BY <2>1, NotQueued, OtherLists DEF SemsKept
<1>5. CASE TickSwitch
  BY <1>5, OtherLists, Constants DEF TickSwitch, SemsKept, fields
<1> QED  BY <1>1, <1>2, <1>3, <1>4, <1>5 DEF Next, SchedTick, Tick, TickScan, TickReturn, Spin,
            vars, fields

\* So in Sched itself no semaphore's queue is ever used.
LEMMA NextUnused ==
    ASSUME IInv, [Next]_vars
    PROVE  IInv'
<1>1. GInv /\ GInv' /\ SemsKept
  BY NextInvariant, NextKeeps DEF IInv
<1>2. SemsUnused'
  BY <1>1 DEF IInv, SemsUnused, SemsKept, On
<1>3. pc' \in [Tasks -> Points]
  <2>1. \A p \in Places : p \notin SemPoints => p \in Points
    BY DEF Places
  <2>2. pc \in [Tasks -> Points] /\ pc' \in [Tasks -> Places]
    BY <1>1 DEF IInv, TypeOK, GInv, Typed
  <2>3. \A t \in Tasks : pc'[t] \notin SemPoints
    BY <1>1, <2>2, PointsApart DEF SemsKept
  <2> QED  BY <2>1, <2>2, <2>3
<1> QED  BY <1>1, <1>2, <1>3 DEF IInv, GInv, Typed, TypeOK

\* It holds at first.
LEMMA InitUnused ==
    ASSUME Init  PROVE IInv
<1>1. GInv /\ pc \in [Tasks -> Points]
  BY InitInvariant DEF Init, Points
<1>2. SemsUnused
  BY InitQueues, Constants, HeadsDiffer DEF Init, SemsUnused, IdlePrio
<1> QED  BY <1>1, <1>2 DEF IInv, GInv, Typed, TypeOK

\* A thread about to be enqueued, by the statements of Sched alone.
LEMMA SchedHands ==
    ASSUME IInv
    PROVE  \A u, t \in Tasks : InHand(u, t) =>
             /\ pc[u] \in ForkPoints \cup {"exit_wake", "exit_enqueue"}
             /\ t \in live /\ ~Linked(t) /\ stat[t] = "READY" /\ t # current
             /\ pc[t] \in {"run", "reap_tq", "wait_sched"}
             /\ \A v \in Tasks : InHand(v, t) => v = u
<1>1. \A t \in Tasks : pc[t] \notin SemPoints
  BY PointsApart DEF IInv, TypeOK
<1>2. \A u, t : InHand(u, t) => pc[u] \in ForkPoints \cup WakePoints
  BY DEF InHand
<1> QED  BY <1>1, <1>2 DEF IInv, GInv, HandsOff, SemPoints, WakePoints, PostedPoints

\* The invariant of SchedInv holds in every state of every behaviour.
THEOREM Invariant == Spec => []IInv
<1>1. Init => IInv
  BY InitUnused
<1>2. IInv /\ [Next]_vars => IInv'
  BY NextUnused
<1> QED  BY <1>1, <1>2, PTL DEF Spec

\* The types, so in particular: schedule() never takes a list head for a
\* thread (sched_rr.c:82), a quantum never runs below one (sched.c:131), and
\* no null pointer is enqueued or made the current thread.
THEOREM Types == Spec => []TypeOK
<1>1. IInv => TypeOK
  BY DEF IInv
<1> QED  BY <1>1, Invariant, PTL

\* No queue_node is ever linked twice or after its page was freed, and every
\* thread is on the list its stat and prio call for, although the interrupt
\* moves threads between lists at any point of the code that does the same.
THEOREM Lists == Spec => []ListsExact
<1>1. IInv => ListsExact
  BY DEF IInv, GInv
<1> QED  BY <1>1, Invariant, PTL

\* The two bitmaps of the run queues (sched_rr.c:56-57, 68-73) always say
\* which queues hold a thread.
THEOREM Bitmaps == Spec => []BitmapsExact
<1>1. IInv => BitmapsExact
  BY DEF IInv, GInv
<1> QED  BY <1>1, Invariant, PTL

-----------------------------------------------------------------------------
(* What schedule() picks.                                                   *)

SchedPoints == {"fork_sched", "sleep_sched", "wait_sched", "yield_sched", "prio_sched",
                "exit_sched", "reap_sched"}

\* At a call of schedule() a thread can do nothing else.
LEMMA OnlySchedules ==
    ASSUME Service, pc[current] \in SchedPoints
    PROVE  \E from, to : Schedule(from, to)
<1> USE DEF SchedPoints, At
<1>1. CASE KernelThread
  BY <1>1 DEF KernelThread, Acquire, Unlock, Call, Enqueue, Dequeue, Create, Adopt, ReturnPid
<1>2. CASE SleepCall
  BY <1>2 DEF SleepCall, Acquire, Unlock, Call, Enqueue, Dequeue, SetSleep, Link, FinishLink
<1>3. CASE WaitCall
  BY <1>3 DEF WaitCall, Acquire, Unlock, Call, Enqueue, Dequeue, SetStat
<1>4. CASE YieldCall
  BY <1>4 DEF YieldCall, Acquire, Unlock, Call, Enqueue, Dequeue
<1>5. CASE ResetPrio
  BY <1>5 DEF ResetPrio, Acquire, Unlock, Call, Enqueue, Dequeue, LockSelf, SetPrio
<1>6. CASE Exit
  BY <1>6 DEF Exit, Acquire, Unlock, Call, Enqueue, Dequeue, LockParent, UnlinkSibling, Reparent,
     CheckParent, SetStat, Link
<1>7. CASE KillZombies
  BY <1>7 DEF KillZombies, Acquire, Unlock, Call, Enqueue, Dequeue, PickZombie, UnlinkZombie, Kill
<1> QED  BY <1>1, <1>2, <1>3, <1>4, <1>5, <1>6, <1>7 DEF Service

\* What rr_pick_next returns (sched_rr.c:77) is ready, and no run queue of a
\* smaller number holds a thread.
LEMMA PicksHighest ==
    ASSUME GInv, rr_pick_next, current' = PickHead
    PROVE  /\ stat[current'] = "READY"
           /\ \A p \in Prios : list'[Run(p)] # <<>> => prio[current'] <= p
<1>1. /\ PickPrio \in Prios /\ PickHead \in On(Run(PickPrio))
      /\ \A q \in Prios : list[Run(q)] # <<>> => PickPrio <= q
  BY ListFacts, Constants, PickFinds
<1>2. stat[PickHead] = "READY" /\ prio[PickHead] = PickPrio
  <2>1. PickHead \in Tasks /\ prio[PickHead] \in Prios
    BY <1>1, HeadsDiffer, ListFacts DEF GInv, Typed
  <2> QED  BY <1>1, <2>1, HeadsDiffer DEF GInv, ListsExact
<1>3. \A q \in Prios : list'[Run(q)] # <<>> => list[Run(q)] # <<>>
  <2>1. /\ QueuesType' /\ \A h \in Heads : On(h)' = On(h)
    BY ListFacts, Constants, RrPickNext
  <2>2. \A h \in Heads : list[h] \in Seq(Tasks) /\ list'[h] \in Seq(Tasks)
    BY <2>1, ListFacts DEF QueuesType
  <2> QED  BY <2>1, <2>2, EmptyList, HeadsDiffer DEF On
<1> QED  BY <1>1, <1>2, <1>3

\* Every call of schedule() gives the processor to a ready thread of the
\* highest priority that has one.
THEOREM SchedulesHighest == Spec => RunsHighest
<1> DEFINE Highest == Reschedules =>
             /\ stat[current'] = "READY"
             /\ \A p \in Prios : list'[Run(p)] # <<>> => prio[current'] <= p
<1>1. IInv /\ [Next]_vars => [Highest]_vars
  <2>1. SUFFICES ASSUME IInv, Next, Reschedules
                 PROVE  rr_pick_next /\ current' = PickHead
    BY PicksHighest DEF IInv
  <2>2. CASE Service
    <3>1. irq = "none"
      BY <2>2 DEF Service, KernelThread, SleepCall, WaitCall, YieldCall, ResetPrio, Exit,
         KillZombies,
         Acquire, Unlock, Call, Enqueue, Dequeue, Schedule, Create, Adopt, ReturnPid, SetSleep,
         Link, FinishLink,
         SetStat, LockSelf, SetPrio, LockParent, UnlinkSibling, Reparent, CheckParent, PickZombie,
         UnlinkZombie, Kill, At
    <3>2. pc[current] \in SchedPoints
      BY <2>1, <3>1 DEF Reschedules, SchedPoints
    <3> QED  BY <2>2, <3>2, OnlySchedules DEF Schedule
  <2>3. CASE Tick
    BY <2>1, <2>3 DEF Tick, Reschedules
  <2>4. CASE SchedTick
    BY <2>1, <2>4 DEF SchedTick, TickScan, TickUnlink, TickEnqueue, TickReturn, TickSwitch,
       Reschedules
  <2>5. CASE Spin
    BY <2>1, <2>5 DEF Spin, Hung, Reschedules, vars, cpu
  <2> QED  BY <2>1, <2>2, <2>3, <2>4, <2>5 DEF Next
<1> QED  BY <1>1, Invariant, PTL DEF Spec, RunsHighest
=============================================================================
