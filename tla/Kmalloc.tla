------------------------------ MODULE Kmalloc ------------------------------
(* The object allocator of lib/kmalloc.c: threads in kmalloc and kfree, and *)
(* the daemon kfree_km_cache that runs free_cache.  A step is one section   *)
(* under a lock, or one read outside them; only the lock of a cache is held *)
(* from one step to the next, by free_cache.  What others read without the  *)
(* lock in the middle of a section is what they read before or after it.    *)
(*                                                                          *)
(* An object is its address.  The free objects of a bucket and the objects  *)
(* of a cache are sequences; list_len of a bucket, which only km_print      *)
(* reads, is left out, and so are the words kmalloc clears.                 *)
EXTENDS Integers, FiniteSets, SequencesExt

CONSTANTS
    Threads,    \* the threads that allocate and free
    Frames,     \* the page frames there are, as numbers
    PAGE_SIZE,  \* in units of the smallest size
    Classes,    \* the obj_size entries of bucket_dir and cache_dir
    PerPage,    \* descriptors on a page
    Lens,       \* the lengths threads ask for
    MaxHeld     \* bound: objects all threads have at a time

ASSUME KmallocAssumption ==
    /\ Frames \subseteq Nat \ {0} /\ PerPage \in Nat \ {0} /\ MaxHeld \in Nat
    /\ PAGE_SIZE \in 1 .. 65535    \* 4096 bytes; ref_cnt is a uint16_t
    /\ Classes \subseteq 1 .. PAGE_SIZE /\ Classes # {} /\ Lens \subseteq Nat

CACHE_THRESHOLD == 0

VARIABLES
    chain,      \* bucket_dir[c].chain, the circular list from the head on
    desc,       \* the bucket descriptors
    spare,      \* free_bucket_desc
    owner,      \* frame_tab[f].bkt_desc
    free,       \* the page frames mm_ops has
    cache,      \* cache_dir[c].object, from the head on
    held,       \* each thread's objects, <<address, size>>
    call,       \* where each thread is in kmalloc or kfree
    daemon,     \* where free_cache is
    stale       \* history: a descriptor was used after it had moved

vars == <<chain, desc, spare, owner, free, cache, held, call, daemon, stale>>

\* A descriptor is its page and its place there.
Descs == Frames \X (1 .. PerPage)
NoDesc == <<0, 0>>

PageOf(a) == a \div PAGE_SIZE       \* to_fr_idx(to_paddr(a))

\* Mutated ObjectsOf: one object more than the page holds.
ObjectsOf_over(f, c) == [i \in 1 .. PAGE_SIZE \div c + 1 |-> f * PAGE_SIZE + (i - 1) * c]

\* The free list that kmalloc writes into a new page.
ObjectsOf(f, c) == [i \in 1 .. PAGE_SIZE \div c |-> f * PAGE_SIZE + (i - 1) * c]

\* Mutated DescsOf: the list does not end with the page.
DescsOf_over(f) == [i \in 1 .. PerPage + 1 |-> <<f, i>>]

\* The descriptors of a page, as bucket_init links them.
DescsOf(f) == [i \in 1 .. PerPage |-> <<f, i>>]

Least(S) == CHOOSE x \in S : \A y \in S : x <= y
First == Least(Classes)

Idle == [at |-> "idle", obj |-> 0, d |-> NoDesc, c |-> First]

Init ==
    /\ chain = [c \in Classes |-> <<>>] /\ cache = [c \in Classes |-> <<>>]
    /\ desc = [d \in Descs |-> [page |-> 0, free |-> <<>>, ref_cnt |-> 0, obj_size |-> First]]
    /\ spare = <<>> /\ owner = [f \in Frames |-> NoDesc] /\ free = Frames
    /\ held = [t \in Threads |-> {}]
    /\ call = [t \in Threads |-> Idle]
    /\ daemon = [at |-> "next", obj |-> 0, d |-> NoDesc, c |-> First]
    /\ stale = FALSE

-----------------------------------------------------------------------------
(* kmalloc.                                                                 *)

\* The cache is not in the middle of free_cache.
Unlocked(c) == ~(daemon.c = c /\ daemon.at \in {"loop", "put"})

Bound == Cardinality(UNION {held[t] : t \in Threads})
           + Cardinality({t \in Threads : call[t] # Idle}) < MaxHeld

\* The first entry that is large enough; none is for more than a page.
ClassFor(len) == LET fit == {c \in Classes : c >= len} IN IF fit = {} THEN 0 ELSE Least(fit)

TooLong(len) == ClassFor(len) = 0 /\ UNCHANGED vars

\* The section under the lock of the cache.
kmalloc(t, len) ==
    LET c == ClassFor(len)
    IN /\ call[t] = Idle /\ Bound /\ c # 0 /\ Unlocked(c)
       /\ IF cache[c] # <<>>
          THEN /\ held' = [held EXCEPT ![t] = @ \cup {<<Head(cache[c]), c>>}]
               /\ cache' = [cache EXCEPT ![c] = Tail(@)]
               /\ UNCHANGED call
          ELSE /\ call' = [call EXCEPT ![t] = [Idle EXCEPT !.at = "bucket", !.c = c]]
               /\ UNCHANGED <<held, cache>>
       /\ UNCHANGED <<chain, desc, spare, owner, free, daemon, stale>>

\* Mutated Take: the object is not counted.
Take_uncounted(t, ds, d, c) ==
    /\ held' = [held EXCEPT ![t] = @ \cup {<<Head(ds[d].free), c>>}]
    /\ desc' = [ds EXCEPT ![d].free = Tail(@)]
    /\ call' = [call EXCEPT ![t] = Idle]

\* Thread t returns from kmalloc with the first free object of descriptor d.
Take(t, ds, d, c) ==
    /\ held' = [held EXCEPT ![t] = @ \cup {<<Head(ds[d].free), c>>}]
    /\ desc' = [ds EXCEPT ![d].free = Tail(@), ![d].ref_cnt = @ + 1]
    /\ call' = [call EXCEPT ![t] = Idle]

\* The descriptors with a free object, by their places in the chain.
Open(c) == {i \in DOMAIN chain[c] : desc[chain[c][i]].free # <<>>}

TakeFree(t) ==
    LET c == call[t].c
    IN /\ call[t].at = "bucket" /\ Open(c) # {}
       /\ Take(t, desc, chain[c][Least(Open(c))], c)
       /\ UNCHANGED <<chain, spare, owner, free, cache, daemon, stale>>

\* Mutated Moved: the frame table still names the old descriptor.
Moved_unsaid(own, f, d) == own

\* The page f is described by d from now on.
Moved(own, f, d) == [own EXCEPT ![f] = d]

\* No descriptor has a free object.  A new page gets the descriptor at the
\* head of the chain, and the page described there moves to a new descriptor
\* right after it.
TakeNew(t) ==
    LET c == call[t].c
    IN /\ call[t].at = "bucket" /\ Open(c) = {}
       /\ \E f \in free, g \in IF spare = <<>> THEN free ELSE {0} :
            LET list == IF spare = <<>> THEN DescsOf(g) ELSE spare
                new == Head(list)
                d == IF chain[c] = <<>> THEN new ELSE Head(chain[c])
                page == [page |-> f, free |-> ObjectsOf(f, c), ref_cnt |-> 0, obj_size |-> c]
            IN /\ f # g
               /\ free' = free \ {f, g}
               /\ spare' = Tail(list)
               /\ chain' = [chain EXCEPT ![c] = IF @ = <<>> THEN <<new>>
                                                ELSE <<d, new>> \o Tail(@)]
               /\ owner' = Moved(IF d = new THEN owner ELSE Moved(owner, desc[d].page, new), f, d)
               /\ Take(t, [desc EXCEPT ![new] = desc[d], ![d] = page], d, c)
    /\ UNCHANGED <<cache, daemon, stale>>

-----------------------------------------------------------------------------
(* kfree.                                                                   *)

kfree(t) ==
    /\ call[t] = Idle
    /\ \E b \in held[t] :
         /\ held' = [held EXCEPT ![t] = @ \ {b}]
         /\ call' = [call EXCEPT ![t] = [at |-> "size", obj |-> b[1],
                                         d |-> owner[PageOf(b[1])], c |-> b[2]]]
    /\ UNCHANGED <<chain, desc, spare, owner, free, cache, daemon, stale>>

\* obj_size is read from the descriptor found, whatever it describes by now.
ReadSize(t) ==
    /\ call[t].at = "size"
    /\ LET size == desc[call[t].d].obj_size
       IN /\ call' = [call EXCEPT ![t] = [@ EXCEPT !.at = "push", !.c = size, !.d = NoDesc]]
          /\ stale' = (size # call[t].c)
    /\ UNCHANGED <<chain, desc, spare, owner, free, cache, held, daemon>>

\* list_len is a uint16_t; the sequence stands for fewer than 65536 objects.
Push(t) ==
    LET c == call[t].c
    IN /\ call[t].at = "push" /\ Unlocked(c)
       /\ cache' = [cache EXCEPT ![c] = <<call[t].obj>> \o @]
       /\ call' = [call EXCEPT ![t] = Idle]
       /\ UNCHANGED <<chain, desc, spare, owner, free, held, daemon, stale>>

-----------------------------------------------------------------------------
(* free_cache.                                                              *)

\* Mutated Over: the threshold the comment beside it speaks of.
Over_64KB(c, limit) == Len(cache[c]) * c > 65536

Over(c, limit) == Len(cache[c]) * c > limit

TakeLast ==
    LET c == daemon.c
    IN /\ \/ daemon.at = "next" /\ Over(c, CACHE_THRESHOLD)
          \/ daemon.at = "loop" /\ Over(c, CACHE_THRESHOLD \div 4)
       /\ daemon' = [at |-> "put", obj |-> Last(cache[c]), d |-> owner[PageOf(Last(cache[c]))],
                     c |-> c]
       /\ cache' = [cache EXCEPT ![c] = Front(@)]
       /\ UNCHANGED <<chain, desc, spare, owner, free, held, call, stale>>

\* The next cache; after the last one free_cache returns and is called again.
NextCache ==
    LET c == daemon.c
        rest == {e \in Classes : e > c}
    IN /\ \/ daemon.at = "next" /\ ~Over(c, CACHE_THRESHOLD)
          \/ daemon.at = "loop" /\ ~Over(c, CACHE_THRESHOLD \div 4)
       /\ daemon' = [at |-> "next", obj |-> 0, d |-> NoDesc,
                     c |-> IF rest = {} THEN First ELSE Least(rest)]
       /\ UNCHANGED <<chain, desc, spare, owner, free, cache, held, call, stale>>

\* Mutated Unlinked: the i-th descriptor goes though the next one is freed.
Unlinked_self(s, i) == RemoveAt(s, i)

\* The chain without the descriptor after the i-th; if that is the head, the
\* i-th becomes the head.
Unlinked(s, i) == IF i = Len(s) THEN <<s[i]>> \o Tail(Front(s)) ELSE RemoveAt(s, i + 1)

PlaceOf(s, d) == CHOOSE j \in DOMAIN s : s[j] = d
NextTo(s, i) == s[IF i = Len(s) THEN 1 ELSE i + 1]

\* The descriptor that leaves the chain s when d's page goes, and what is left:
\* the next one, whose page moves to d, unless d is alone.
Gone(s, d) == IF Len(s) = 1 THEN d ELSE NextTo(s, PlaceOf(s, d))
Left(s, d) == IF Gone(s, d) = d THEN <<>> ELSE Unlinked(s, PlaceOf(s, d))

\* The page has no object that is handed out or cached.
Emptied(n) == n = 1

\* The section under the lock of the bucket.  The object's first word is set
\* to free_ptr and free_ptr is loaded from it, so that the object is not put
\* on the free list.
Put ==
    LET c == daemon.c
        d == daemon.d
        gone == Gone(chain[c], d)
        next == NextTo(chain[c], PlaceOf(chain[c], d))
    IN /\ daemon.at = "put"
       /\ IF Emptied(desc[d].ref_cnt)
          THEN /\ free' = free \cup {desc[d].page}
               /\ spare' = <<gone>> \o spare
               /\ chain' = [chain EXCEPT ![c] = Left(chain[c], d)]
               /\ desc' = [desc EXCEPT ![d] = IF gone = d THEN [@ EXCEPT !.ref_cnt = 0]
                                              ELSE desc[next]]
               /\ owner' = IF gone = d THEN owner ELSE Moved(owner, desc[next].page, d)
          ELSE /\ desc' = [desc EXCEPT ![d].ref_cnt = (@ + 65535) % 65536]
               /\ UNCHANGED <<chain, spare, owner, free>>
       /\ stale' = (desc[d].page # PageOf(daemon.obj))
       /\ daemon' = [daemon EXCEPT !.at = "loop", !.obj = 0, !.d = NoDesc]
       /\ UNCHANGED <<cache, held, call>>

free_cache == TakeLast \/ NextCache \/ Put

-----------------------------------------------------------------------------
\* After a stale descriptor was used nothing more is said.
Next ==
    IF stale THEN UNCHANGED vars
    ELSE \/ free_cache
         \/ \E t \in Threads : \/ \E len \in Lens : kmalloc(t, len) \/ TooLong(len)
                               \/ TakeFree(t) \/ TakeNew(t)
                               \/ kfree(t) \/ ReadSize(t) \/ Push(t)

Spec == Init /\ [][Next]_vars

\* The daemon gets its turns.
FairSpec == Spec /\ WF_vars(~stale /\ free_cache)

-----------------------------------------------------------------------------
\* The types of the variables; no count wraps around.
TypeOK ==
    /\ chain \in [Classes -> Seq(Descs)] /\ spare \in Seq(Descs)
    /\ desc \in [Descs -> [page : Frames \cup {0}, free : Seq(Nat), ref_cnt : 0 .. PAGE_SIZE,
                          obj_size : Classes]]
    /\ owner \in [Frames -> Descs \cup {NoDesc}] /\ free \subseteq Frames
    /\ cache \in [Classes -> Seq(Nat)]
    /\ held \in [Threads -> SUBSET (Nat \X Classes)]
    /\ call \in [Threads -> [at : {"idle", "bucket", "size", "push"}, obj : Nat,
                             d : Descs \cup {NoDesc}, c : Classes]]
    /\ daemon \in [at : {"next", "loop", "put"}, obj : Nat, d : Descs \cup {NoDesc}, c : Classes]
    /\ stale \in BOOLEAN

\* The objects that are not on a free list, with their size and where they are.
InUse ==
    (UNION {{<<b[1], b[2], <<"held", t>>>> : b \in held[t]} : t \in Threads})
    \cup {<<call[t].obj, call[t].c, <<"kfree", t>>>> :
            t \in {u \in Threads : call[u].at \in {"size", "push"}}}
    \cup (UNION {{<<cache[c][i], c, <<"cache", i>>>> : i \in DOMAIN cache[c]} : c \in Classes})
    \cup (IF daemon.at = "put" THEN {<<daemon.obj, daemon.c, <<"daemon", 0>>>>} ELSE {})

\* Each object is in one place only, and ref_cnt, the only thing that decides
\* whether a page is given back, is the number of its objects that are held,
\* cached or on the way.  Objects that free_cache loses are in none of the
\* places, so that it holds in spite of them.
ObjectsExact ==
    ~stale =>
      /\ \A u, v \in InUse : u[1] = v[1] => u = v
      /\ \A c \in Classes : \A d \in ToSet(chain[c]) :
           LET users == {u \in InUse : PageOf(u[1]) = desc[d].page}
               all == ToSet(ObjectsOf(desc[d].page, c))
           IN /\ desc[d].ref_cnt = Cardinality(users)
              /\ \A u \in users : u[1] \in all /\ u[2] = c
              /\ ToSet(desc[d].free) \subseteq all \ {u[1] : u \in users}
              /\ IsInjective(desc[d].free)

\* kfree and free_cache find an object's bucket through the frame table alone:
\* however often pages moved from descriptor to descriptor, the entry of a
\* page in use names the descriptor, in the chain of the right size, that
\* describes this page.
OwnersExact ==
    ~stale => \A u \in InUse :
      LET d == owner[PageOf(u[1])]
      IN d \in ToSet(chain[u[2]]) /\ desc[d].page = PageOf(u[1])

Chained == UNION {ToSet(chain[c]) : c \in Classes}

\* Each page frame is free, or holds descriptors, or is the page of exactly
\* one descriptor in a chain; each descriptor is in one chain or spare.  So
\* no page is given back while somebody uses it, and none is lost.
FramesExact ==
    ~stale =>
      LET tables == {d[1] : d \in Chained \cup ToSet(spare)}
          pages == {desc[d].page : d \in Chained}
      IN /\ free \cup tables \cup pages = Frames
         /\ free \cap tables = {} /\ free \cap pages = {} /\ tables \cap pages = {}
         /\ \A d, e \in Chained : desc[d].page = desc[e].page => d = e
         /\ tables \X (1 .. PerPage) = Chained \cup ToSet(spare)
         /\ IsInjective(spare) /\ Chained \cap ToSet(spare) = {}
         /\ \A c \in Classes : /\ IsInjective(chain[c])
                               /\ \A e \in Classes \ {c} : ToSet(chain[c]) \cap ToSet(chain[e]) = {}

\* kmalloc keeps the promise of Pages for bytes: no two objects overlap.
Abstract == INSTANCE Pages WITH
    Managed <- UNION {f * PAGE_SIZE .. f * PAGE_SIZE + PAGE_SIZE - 1 : f \in Frames},
    Sizes <- Classes, held <- held

KeepsPromise == Abstract!Spec

\* If all objects are freed for good, free_cache gives every page of objects
\* back, those with lost objects too.
AllReturned ==
    <>[](\A t \in Threads : held[t] = {} /\ call[t] = Idle)
      => <>[](stale \/ \A c \in Classes : chain[c] = <<>>)
=============================================================================
