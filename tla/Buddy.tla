------------------------------- MODULE Buddy -------------------------------
(* The buddy page allocator of mm/buddy.c with threads that allocate and    *)
(* free concurrently.  A step is a section under buddy_dir_lock, or the     *)
(* marking of a block that the thread has already taken off the lists: a    *)
(* thread may be switched out between two of them.  Inside a section no     *)
(* other thread changes what it reads, so a loop is written by its result.  *)
(*                                                                          *)
(* Left out: list_len, which only buddy_print reads, and the locks of the   *)
(* single frames: none is held from one step to the next, and a thread that *)
(* meets one taken reads the flags as the step that took it leaves them.    *)
EXTENDS Integers, FiniteSets, SequencesExt

CONSTANTS
    Threads,    \* the threads that allocate and free pages
    Start,      \* the first frame given to buddy_init
    N,          \* the number of frames given to it
    NrFrames,   \* MAX_FRAME_NUM, the length of frame_tab
    MaxOrder,   \* MAX_ORDER
    Sizes,      \* numbers of frames threads ask for
    MaxHeld     \* bound: allocations a thread has at a time

\* 2 ^ o by doubling, up to the largest order that any loop shifts 1 to.
Pow2[o \in 0 .. MaxOrder + 2] == IF o = 0 THEN 1 ELSE 2 * Pow2[o - 1]

Size(od) == Pow2[od]    \* 1 << od

Frames == 0 .. NrFrames - 1
Managed == Start .. Start + N - 1       \* the frames with BUDDY_VALID
Orders == 0 .. MaxOrder
NoOrder == 15                           \* buddy_set_order(fr, -1)

ASSUME BuddyAssumption ==
    /\ MaxOrder \in Nat /\ MaxOrder < NoOrder
    /\ Start \in Nat /\ N \in Nat /\ NrFrames \in Nat
    /\ NrFrames % Size(MaxOrder + 1) = 0
    /\ Start + N <= NrFrames
    /\ N >= Size(MaxOrder) - (Start % Size(MaxOrder))
    /\ Sizes \subseteq Nat \ {0}
    /\ MaxHeld \in Nat

VARIABLES
    dir,        \* buddy_dir[od].head: the first frames of the free blocks
    order,      \* bits 3-0 of frame_tab[f].flag
    free,       \* the frames with BUDDY_FREE
    held,       \* each thread's allocations, <<first frame, number>>
    call        \* where each thread is, and the frames it is working on

vars == <<dir, order, free, held, call>>

Idle == [at |-> "idle", fr |-> 0, n |-> 0]

-----------------------------------------------------------------------------
(* Orders, buddies, and blocks as pairs <<first frame, order>>.             *)

Bit(n, b) == (n \div Size(b)) % 2 = 1

\* The smallest order whose block holds n frames; the loop gives up at
\* MaxOrder + 2.
ceil_order(n) ==
    CHOOSE k \in 0 .. MaxOrder + 2 :
      /\ k = MaxOrder + 2 \/ Size(k) >= n
      /\ \A j \in 0 .. k - 1 : Size(j) < n

\* Flipping bit od, as fr_idx ^ (1 << od) does.
buddy_index(f, od) == IF Bit(f, od) THEN f - Size(od) ELSE f + Size(od)

\* n frames from fr on, cut into one block per bit of n: largest first, and
\* smallest first.
Falling(fr, n) ==
    {<<fr + (n \div Size(b + 1)) * Size(b + 1), b>> : b \in {c \in Orders : Bit(n, c)}}
Rising(fr, n) == {<<fr + (n % Size(b)), b>> : b \in {c \in Orders : Bit(n, c)}}

\* buddy_set_order on the first frame of each block.
SetOrders(blocks) ==
    [f \in Frames |-> IF \E b \in blocks : b[1] = f
                      THEN (CHOOSE b \in blocks : b[1] = f)[2] ELSE order[f]]

\* list_add_tail of each block on the list of its order; at most one of each.
AddTail(lists, blocks) ==
    [o \in Orders |-> IF \E b \in blocks : b[2] = o
                      THEN Append(lists[o], (CHOOSE b \in blocks : b[2] = o)[1])
                      ELSE lists[o]]

First(blocks) == {b[1] : b \in blocks}

\* list_del.
Drop(q, f) == IF f \in ToSet(q) THEN RemoveAt(q, CHOOSE i \in DOMAIN q : q[i] = f) ELSE q

-----------------------------------------------------------------------------
\* buddy_init: small blocks up to the first multiple of 2^MaxOrder, then as
\* many of the largest as fit, then small ones.  N is at least the head.
NHead == Size(MaxOrder) - (Start % Size(MaxOrder))
Top == Size(MaxOrder)

Init ==
    LET head == Rising(Start, NHead)
        large == [i \in 1 .. (N - NHead) \div Top |-> Start + NHead + (i - 1) * Top]
        rest == (N - NHead) % Top
        tail == Falling(Start + N - rest, rest)
        blocks == head \cup tail \cup {<<large[i], MaxOrder>> : i \in DOMAIN large}
        lists == AddTail([o \in Orders |-> <<>>], head)
    IN /\ dir = AddTail([lists EXCEPT ![MaxOrder] = @ \o large], tail)
       /\ order = [f \in Frames |-> IF f \in First(blocks)
                                    THEN (CHOOSE b \in blocks : b[1] = f)[2] ELSE NoOrder]
       /\ free = Managed
       /\ held = [t \in Threads |-> {}]
       /\ call = [t \in Threads |-> Idle]

-----------------------------------------------------------------------------
(* buddy_alloc_frames.                                                      *)

Avail(k) == {o \in k .. MaxOrder : dir[o] # <<>>}

Least(S) == CHOOSE x \in S : \A y \in S : x <= y

\* Mutated Halves: the lower halves go back to the lists.
Halves_lower(fr, k, od) == {<<fr + Size(od) - Size(o + 1), o>> : o \in k .. od - 1}

\* The upper halves that __buddy_alloc splits off a block of order od.
Halves(fr, k, od) == {<<fr + Size(o), o>> : o \in k .. od - 1}

\* __buddy_alloc, and the return when n is a power of two.
Alloc(t, n) ==
    /\ call[t] = Idle /\ Cardinality(held[t]) < MaxHeld
    /\ Avail(ceil_order(n)) # {}
    /\ LET k == ceil_order(n)
           od == Least(Avail(k))
           fr == Head(dir[od])
           halves == Halves(fr, k, od)
       IN /\ order' = SetOrders(halves \cup {<<fr, k>>})
          /\ free' = (free \ {fr}) \cup First(halves)
          /\ dir' = AddTail([dir EXCEPT ![od] = Tail(@)], halves)
          /\ IF n = Size(k)
             THEN held' = [held EXCEPT ![t] = @ \cup {<<fr, n>>}] /\ UNCHANGED call
             ELSE call' = [call EXCEPT ![t] = [at |-> "mark", fr |-> fr, n |-> n]] /\ UNCHANGED held

\* NULL is returned.
AllocFails(t, n) ==
    /\ call[t] = Idle /\ Avail(ceil_order(n)) = {}
    /\ UNCHANGED vars

\* The frames asked for become blocks of their own, still without the lock.
Mark(t) ==
    /\ call[t].at = "mark"
    /\ LET pieces == Falling(call[t].fr, call[t].n)
       IN order' = SetOrders(pieces) /\ free' = free \ First(pieces)
    /\ call' = [call EXCEPT ![t].at = "rest"]
    /\ UNCHANGED <<dir, held>>

\* Mutated Left: the frames handed out are not deducted.
Left_all(n) == Size(ceil_order(n))

\* The frames of the block that were not asked for.
Left(n) == Size(ceil_order(n)) - n

\* What is left of the block goes back to the lists.
Rest(t) ==
    /\ call[t].at = "rest"
    /\ LET n == call[t].n
           rest == Rising(call[t].fr + n, Left(n))
       IN /\ order' = SetOrders(rest)
          /\ free' = free \cup First(rest)
          /\ dir' = AddTail(dir, rest)
          /\ held' = [held EXCEPT ![t] = @ \cup {<<call[t].fr, n>>}]
    /\ call' = [call EXCEPT ![t] = Idle]

-----------------------------------------------------------------------------
(* buddy_free_frames: one __buddy_free per bit of n, the largest first.     *)

Free(t) ==
    /\ call[t] = Idle
    /\ \E b \in held[t] :
         /\ held' = [held EXCEPT ![t] = @ \ {b}]
         /\ call' = [call EXCEPT ![t] = [at |-> "free", fr |-> b[1], n |-> b[2]]]
    /\ UNCHANGED <<dir, order, free>>

\* The block of order od around f.
Base(f, od) == f - (f % Size(od))

\* Mutated Mergeable: an allocated buddy of the same order will do.
Mergeable_used(b, od) == od < MaxOrder /\ order[b] = od /\ b \in Managed

Mergeable(b, od) == od < MaxOrder /\ order[b] = od /\ b \in Managed /\ b \in free

\* Mutated MergedOrder: one merge and no more.
MergedOrder_once(f, k) == IF Mergeable(buddy_index(Base(f, k), k), k) THEN k + 1 ELSE k

\* The order at which merging stops.  The loop only writes frames inside the
\* block it has merged so far and only reads the buddy outside it.
MergedOrder(f, k) ==
    Least({o \in k .. MaxOrder : ~Mergeable(buddy_index(Base(f, o), o), o)})

\* Mutated Upper: the first frame of the second half keeps its flags.
Upper_kept(f, k, m) == {}

\* The first frames of the second halves of the merged blocks.
Upper(f, k, m) == {Base(f, o + 1) + Size(o) : o \in k .. m - 1}

\* __buddy_free of the next piece; its order is read from the frame.
FreePiece(t) ==
    /\ call[t].at = "free"
    /\ LET f == call[t].fr
           k == order[f]
           m == MergedOrder(f, k)
           upper == Upper(f, k, m)
           whole == <<Base(f, m), m>>
           sz == Least({Size(b) : b \in {c \in Orders : Size(c + 1) > call[t].n}})
       IN /\ order' = SetOrders({<<u, NoOrder>> : u \in upper} \cup {whole})
          /\ free' = (free \ upper) \cup {whole[1]}
          /\ dir' = AddTail([o \in Orders |-> IF o \in k .. m - 1
                                              THEN Drop(dir[o], buddy_index(Base(f, o), o))
                                              ELSE dir[o]], {whole})
          /\ call' = [call EXCEPT ![t] = IF @.n = sz THEN Idle
                                         ELSE [at |-> "free", fr |-> f + sz, n |-> @.n - sz]]
    /\ UNCHANGED held

-----------------------------------------------------------------------------
Next ==
    \E t \in Threads :
      \/ \E n \in Sizes : Alloc(t, n) \/ AllocFails(t, n)
      \/ Mark(t) \/ Rest(t) \/ Free(t) \/ FreePiece(t)

Spec == Init /\ [][Next]_vars

-----------------------------------------------------------------------------
TypeOK ==
    /\ dir \in [Orders -> Seq(Managed)]
    /\ order \in [Frames -> Orders \cup {NoOrder}]
    /\ free \subseteq Managed
    /\ held \in [Threads -> SUBSET (Managed \X Sizes)]
    /\ call \in [Threads -> [at : {"idle", "mark", "rest", "free"},
                             fr : Managed \cup {0}, n : 0 .. N]]

\* The flags of a frame, written long before and by other threads, are all
\* that __buddy_free looks at: it may merge with a buddy (buddy.c:277-280)
\* because FREE and an order in a frame always mean that the frame starts a
\* block of that order on the list of that order.
FlagsExact ==
    \A f \in Frames, o \in Orders :
      f \in ToSet(dir[o]) <=> f \in free /\ order[f] = o

FreeBlocks == UNION {{<<f, Size(o)>> : f \in ToSet(dir[o])} : o \in Orders}

\* The frames a thread in the middle of a call has taken and not given away.
InHand(t) ==
    CASE call[t].at = "free" -> {<<call[t].fr, call[t].n>>}
      [] call[t].at \in {"mark", "rest"} -> {<<call[t].fr, Size(ceil_order(call[t].n))>>}
      [] OTHER -> {}

RangeOf(b) == b[1] .. b[1] + b[2] - 1

\* Who has which frames.
Regions ==
    {<<<<"free">>, b>> : b \in FreeBlocks}
      \cup (UNION {{<<<<"held", t>>, b>> : b \in held[t]} : t \in Threads})
      \cup (UNION {{<<<<"hand", t>>, b>> : b \in InHand(t)} : t \in Threads})

\* Every frame is in exactly one free block, in one allocation, or in the
\* hands of one thread that is allocating or freeing: nothing is handed out
\* twice and nothing is lost, whatever sizes are split off and merged.
Tiling ==
    /\ \A f \in Managed : Cardinality({r \in Regions : f \in RangeOf(r[2])}) = 1
    /\ \A o \in Orders : IsInjective(dir[o])
    /\ \A o \in Orders, f \in Managed : f \in ToSet(dir[o]) => f % Size(o) = 0

\* An allocation fails only if memory is really that fragmented: when no list
\* has a block for order k, no aligned run of 2^k frames is free.  Freeing
\* merges with the one buddy only (buddy.c:268-301), so this takes that no
\* interleaving leaves two free buddies unmerged.
FailsOnlyWhenFull ==
    LET freeFrames == UNION {RangeOf(b) : b \in FreeBlocks}
    IN \A k \in Orders : Avail(k) = {} =>
         \A f \in Managed : f % Size(k) = 0 => ~(f .. f + Size(k) - 1 \subseteq freeFrames)

\* The allocator keeps the promise of Pages: allocations of different threads
\* never overlap and consist of managed frames.
Abstract == INSTANCE Pages WITH held <- held

KeepsPromise == Abstract!Spec
=============================================================================
