# A TLA+ verification of the tamako kernel

tamako is a small single-processor i386 kernel: threads with a preemptive
priority scheduler, spin locks, semaphores, a buddy page allocator, an object
cache and interrupt-driven devices. This directory holds TLA+ modules
translated from its C source, TLC configurations that check them on small
instances, and TLAPS proofs about them.

    tlc -config sched_time.cfg MCSched        # check one run
    tlapm SchedProofs.tla                     # check the proofs of one module

`PROJECT.json` maps every definition that models code to its lines.

## 1. The system

### Components

| component | state | operations | how it is entered | models |
|---|---|---|---|---|
| scheduler (`kernel/sched.c`) | `task_tbl`, per thread `stat prio time_ticks rest_ticks sleep_ticks parent children wait_for`, `sleep_que`, `zombie_que` | `kernel_thread`, `sleep`, `wait`, `task_reset_prio`, `kthread_exit`, `schedule`, `sched_tick`, `kkill_zombie` | called by threads with interrupts enabled, and by the clock interrupt | `Sched` |
| run queues (`kernel/sched_rr.c`) | `rr`: 64 lists, two bitmap levels, `n_tasks`, a lock | `enqueue`, `dequeue`, `pick_next` | from the scheduler and semaphores through `sched_ops` | `TaskLists` |
| task queues, lists (`task_queue.c`, `list.h`) | intrusive circular lists, `n_tasks`, a lock | `tq_enqueue`, `tq_dequeue`, `tq_pick_next`, `list_add_tail`, `list_del` | from the scheduler and semaphores | `TaskLists` |
| spin locks (`spinlock.h`) | one byte | `spin_lock`, `spin_unlock` | everywhere; interrupts stay enabled | `Sched` (`Acquire`, `Unlock`) |
| clock (`drivers/clock.c`) | PIT | `clk_intr` calls `sched_tick` | IRQ 0, every 5 ms | `Sched` (`Tick`) |
| semaphores (`semaphore.h`, `semaphore.c`) | `count`, a task queue | `sem_wait`, `sem_post` | by threads (the kernel's only use is `sched_test`) | `Semaphore`, `CountingSemaphore` |
| pid allocator (`kernel/pid.c`) | 16 bitmap words and a group word | `alloc_pid`, `free_pid` | from `task_init`, `task_kill`; no lock | `Pid` |
| buddy allocator (`mm/buddy.c`) | free lists per order, frame flags | `alloc_frames`, `free_frames` | from `alloc_pages` and `free_pages`; a spin lock for the lists and one per frame | `Buddy`, `Pages` |
| kmalloc (`lib/kmalloc.c`) | object caches, page buckets, bucket descriptors, `frame_tab[].bkt_desc` | `kmalloc`, `kfree`, `free_cache` (in a daemon) | by threads; a lock per cache, per bucket and for the descriptors | `Kmalloc`, `Pages` |
| UART (`drivers/uart.c`) | two ring buffers, `tx_on`, the IER | `uputc`, `ugetc`, `ugets`, `uart_intr` | by threads and IRQ 4; `cli` and `sti` | `Uart`, `Fifo` |
| red-black tree (`lib/rbtree.c`) | a tree, one shared sentinel | `rb_insert`, `rb_delete`, iteration | no caller in the kernel; its test is compiled out | `RBTree`, `OrderedList` |
| FAT12 reader (`fs/fat.c`) | none | `fat_read` | no caller | not modelled |
| page tables, GDT/IDT/PIC set-up, ISR stubs, console, printf, ELF symbols, bitmap allocator | | | run once at boot, are output, or are compiled out | not modelled |

### How they interact, and what is hard

The processor is shared by threads and by the clock interrupt. `schedule()`
disables interrupts for its own duration; everything else in the scheduler runs
with interrupts enabled, protected by spin locks that do not disable them. The
interrupt handler uses the same queues: it walks the sleep list without its
lock, takes `sleep_que`'s lock and `rr.lock`, and switches threads. So:

* the interrupt may see, or switch away from, any intermediate state of
  `sleep`, `wait`, `task_reset_prio`, `kthread_exit` and `kernel_thread`;
* a thread has one `queue_node` for all lists, and `list_del` is not told which
  list: a thread enqueued twice, or a `prio` changed while it is linked,
  corrupts another list or the bitmaps without any error;
* the exit of a thread touches its parent, its siblings and its children, any
  of which may be inside `wait`, `kernel_thread` or their own exit;
* the reaper frees stacks while the threads that died on them may have been
  switched out only just before;
* `sched_tick` removes threads from the list it is walking;
* the buddy allocator decides a merge on flags that other threads wrote long
  before, and cuts up a block after it has released the lock of the lists;
* `kmalloc` moves the descriptor of a page while `kfree` and `free_cache` hold
  pointers to it that they read without the lock;
* `sem_wait` counts a waiter long before it is on the queue, and `sem_post` picks
  and unlinks a waiter under two holds of the lock;
* `uputc` ends with `sti` even inside `uart_intr`, so that handlers nest, `ugets`
  changes the IER without `cli`, and the PIC latches edges of a line that three
  sources share, of which the handler serves one per interrupt, and one never;
* the pid bitmaps are read and written with no lock at all.

`PROJECT.json` ("hazards") lists these with their lines, those that no property
covers included, with the reason. What makes the scheduler correct is that every thread
is on the one list that its state calls for, that the bitmaps describe the
lists, that a thread handed to somebody (the interrupt, its creator, its last
child, the reaper) is handed to nobody else, and that nothing is used after its
page was freed.

## 2. Modules

| module | what it is |
|---|---|
| `TaskLists` | the lists, bitmaps and counters, and the bodies of the operations on them |
| `Sched` | threads, services, locks, the interrupt; properties and fairness |
| `SchedInv` | the inductive invariants of `Sched`: `IInv`, `FInv`, `RInv`, `WInv`; and `GInv`, the part of `IInv` that the semaphores' steps keep too |
| `MCSched` | instances of `Sched` for TLC: the threads as model values, the symmetry set |
| `Pages` | the abstract allocator of units (pages, bytes): what a caller is promised |
| `Buddy` | the buddy allocator; its properties, and that it implements `Pages` |
| `Semaphore` | `sem_wait` and `sem_post` as two more services of `Sched` (it EXTENDS `Sched`) |
| `CountingSemaphore` | what a set of counting semaphores promises |
| `Kmalloc` | object caches, buckets, descriptors and the daemon; implements `Pages` for bytes |
| `Uart` | the driver, the 16550 and the interrupt latch; implements `Fifo` twice |
| `Fifo` | a queue with room for some items, spoiled but counted beyond that |
| `RBTree` | the tree, a round of a fix-up loop at a time; implements `OrderedList` |
| `OrderedList` | elements by key, equal keys in the order of their insertion |
| `Pid` | the pid bitmaps and their two callers |
| `MCBuddy`, `MCSemaphore`, `MCKmalloc`, `MCUart`, `MCRBTree`, `MCPid` | their instances for TLC |
| `SchedProofs` | what each operation of `TaskLists` returns and preserves; every step preserves `GInv` and `IInv`: lists, bitmaps, what `schedule()` picks; what a step of `Sched` leaves alone of a semaphore |
| `SchedFamilyProofs` | `FInv`: locks, the family tree, no missed wake-up |
| `SchedQueueProofs` | `Counted`, `RInv` and `WInv`: counters, forgotten threads, the reaper, wake-up times |
| `SemaphoreProofs` | `SInv`: the steps of `sem_wait` and `sem_post` keep `GInv`, counts and queues; that they implement `CountingSemaphore` |
| `UartProofs` | `UInv`, and that the driver implements `Fifo` twice |
| `KmallocProofs` | `KInv`: where objects are, where pages are, types; that `Kmalloc` implements `Pages` |
| `BuddyProofs` | powers of two and their multiples, `BInv`, and that `Buddy` implements `Pages` |
| `RBTreeProofs` | `RBInv`: links, colours and order through every round of the fix-ups; that `RBTree` implements `OrderedList` |

**TaskLists.** `list` maps each list head (one per priority, the sleep and the
zombie queue, one per semaphore) to the sequence of threads linked on it. Since
the C node does not know its list, `list_del(t)` removes `t` from every sequence.
`bit_grp` and `bit_tbl` are the two bitmap levels as sets of bit numbers;
`rr_unmap` is the lookup table, entry 0 included (it gives 0). `W` is the width
of a bitmap byte: 8 in the code, so `NR_PRIO = W * W`.

**Sched.** `pc[t]` is the statement that thread `t` executes next, `current` the
thread on the processor; no step of another thread is possible. `irq` is the
place in `sched_tick`, `"none"` outside it; a thread step needs `irq = "none"`,
and `Tick` may happen whenever it holds. Each service is one definition whose
disjuncts are its statements in the order of the code:

| definition | code |
|---|---|
| `KernelThread` (`Create`, `Adopt`, `ReturnPid`) | `kernel_thread`, `task_init` |
| `SleepCall` (`SetSleep`, `Link`, `FinishLink`) | `sleep` |
| `WaitCall` | `wait` |
| `ResetPrio` (`LockSelf`, `SetPrio`) | `task_reset_prio` on the running thread |
| `Exit` (`LockParent`, `UnlinkSibling`, `Reparent`, `CheckParent`) | `kthread_exit`, `task_exit` |
| `KillZombies` (`PickZombie`, `UnlinkZombie`, `Kill`) | `kkill_zombie`, `task_kill` |
| `YieldCall` | a thread that calls `schedule()` itself, as `kfree_km_cache` does |
| `Tick`, `TickScan`, `TickUnlink`, `TickEnqueue`, `TickReturn`, `TickSwitch` | `clk_intr`, `sched_tick` |
| `Spin` | the handler spinning on a lock, or walking a half-linked list for ever |

Steps merged, and why nobody can tell:

* The body of an `rr` critical section and its unlock are one step. An interrupt
  in between that needs to switch spins on `rr.lock`, which is the state before
  the step (`Hung`); one that does not need to leaves it as it was.
* The private fields of a new thread are set at `Create`. Nobody reads them
  before it is linked.
* `sleep_ticks` and `stat` in `sleep`, `prio` and `time_ticks` in
  `task_reset_prio`, are set together: the thread is on no list, and an interrupt
  between the two that reloads the quantum also switches the thread out.
* Both of the handler's accesses to the thread it wakes are ordered by `irq`;
  no thread runs meanwhile.

A thread's local pointer (`arg`) is forgotten at its call of `schedule()`, after
which no service uses it, with one exception: `kernel_thread` reads
`new_task->pid` after `schedule()` (`sched.c:229`), so there it is kept until that
read (`ReturnPid`).

`due` is an auxiliary variable: the ticks still to come before a sleeper should
wake, counted down independently of the code's `sleep_ticks`.

**Buddy.** `dir[o]` is the free list of order `o`, `order` and `free` are the two
fields of a frame's flag word; `BUDDY_VALID` never changes after `buddy_init`
and is the constant `Managed`. `held` is what each thread was given. A step is
what the code does under one hold of `buddy_dir_lock`, so that other threads run
between the steps of one call: `Alloc` is `__buddy_alloc`, `Mark` cuts the block
into pieces (the code holds no list lock then; the frames belong to the thread,
and another thread reads of them only that they are not free), `Rest` returns
what was not asked for, `Free` and `FreePiece` are `buddy_free_frames` with one
`__buddy_free` per piece. The loops of the code are written by their result: the
pieces of `n` frames are one per bit of `n` (`Falling`, `Rising`), and a free
merges up to the first order whose buddy cannot be merged (`MergedOrder`), which
is the loop's result because it reads only outside the block it has merged so far
and writes only inside it. `list_len`, which only `buddy_print` reads, and the
locks of single frames are left out: none is held from one step to the next, and a
thread that meets one taken waits and reads what that step leaves.

`Pages` has one variable, `held`: a grant is any run of `n` managed frames that
nobody has. The refinement mapping is the identity on `held`, so the property
`KeepsPromise` says that every return of `alloc_frames` is such a grant, that
a call of `free_frames` gives one back, and that callers see no other step.

**Semaphore.** A call's atomic instruction is one step; `pc` then goes through
the statements of `__sem_wait` or `__sem_post` as for every other service of
`Sched`, and all of `Sched`'s steps go on in between: the clock interrupt, thread
creation, and the exit of a child whose parent is about to wait for a semaphore.
`count` is the signed value `jns` and `jg` test. In `CountingSemaphore` a waiter
waits from the moment it is counted until a post takes it off, and `permits` is
`count` plus the number of waiters; steps between the two are stutters.

**Kmalloc.** A step is a section under one lock, or a read outside all of them:
`kmalloc` tries the cache, then the chain of its bucket, and last takes a page
and, when none is left over, a page of descriptors; `kfree` reads the frame
table, then `obj_size`, then takes the lock of that cache; `free_cache` holds a
cache's lock while it returns object by object. The circular chain is a sequence
from the head on. A new page gets the *head* descriptor and the page described
there moves to the new one; when a page empties, the descriptor *after* it is
copied over it. `free_cache` stores `free_ptr` into the object and then loads
`free_ptr` from the object (`kmalloc.c:258-260`; the comment says that the object
is put at the head of the free list): the object is lost until its page is
returned, which the model does as the code does. So is the threshold: it is 0, and
the comments of lines 66 and 241 speak of other numbers.

**Uart.** A step is a section between `cli` and `sti`. Since `uputc` enables
interrupts wherever it ends, the rest of an echo (a backspace is echoed as three
characters) is a frame on the stack of the interrupted thread, and other handlers
may run before it. The device (transmitter and holding register, receive FIFO, line
status, IER and IIR) and the PIC's latch are external: the line is high while an
enabled source is pending, and `pic_init` chooses edges (ICW1 0x11). `uart_init`
enables the interrupts of the transmitter and of the line status (IER 0x06) and the
FIFOs (FCR 0x01), so several characters may arrive before the handler reads one, and
one that finds the FIFO full sets the overrun bit, a line status. Framing errors and
breaks would do the same and are left out.

**RBTree.** A step is a call up to its fix-up loop, or one round of the loop. The
code spells both sides out; here the side is a parameter. The sentinel's parent
is state, since `rb_transplant` writes it and the fix-up follows it.

**Pid.** The loads and stores of `alloc_pid` and `free_pid` are steps of their own
and interleave; the three loads of `pid_grp` at its start are one. A creation
occupies a live thread, the reaper kills one thread at a time.

**Ways to go wrong that the models name.** `Semaphore`, `Kmalloc` and `Uart` have
a history variable that is set when the code does what it cannot recover from,
and the model then stops there:

| flag | set when | listed as hazard at |
|---|---|---|
| `broken` (`Semaphore`) | a post takes off a waiter that is counted and not yet queued (it uses NULL), or one another post took off; a thread links itself on a semaphore while an exiting child has put it on a run queue | `semaphore.h:28`, `semaphore.c:16`, `semaphore.c:7` |
| `stale` (`Kmalloc`) | `kfree` finds another size, or `free_cache` another page, in a descriptor that moved since it was looked up | `kmalloc.c:204`, `kmalloc.c:255` |
| `lost` (`Uart`) | the handler has read its one character and another is in the FIFO, or the transmitter's interrupt is pending too; the interrupt is a line status, which no branch answers: in all three the line stays high and no edge comes any more. Or `ugets` writes back an IER that switches the transmitter's interrupt off | `uart.c:98`, `uart.c:80`, `uart.c:141`, `uart.c:63` |

The properties of these modules say that everything is right until then, so that
these are the *only* ways; each is met in its run, but for two posts that take off
one waiter, which needs four workers (`semaphore` has three). `Uart` stops at a lost
interrupt also where a later `ugets`, by switching reception off and on, would make a
new edge: what the driver does after a loss is not claimed.

## 3. Runs

| run | what it asks | bounds | result |
|---|---|---|---|
| `sched_family` | creation, `wait` and exit of a family of threads in every order: lists, family tree, wake-up of the waiting parent | 3 workers, priorities 0 and 1, no sleep; 1.30 M states | passes |
| `sched_reap` | the reaper against exits and creations that reuse freed threads: locks, counters, the inductive invariant `RInv`, what may be freed | 2 workers and the reaper; 0.91 M states | passes |
| `sched_time` | sleep, changes of priority, yield and exit under the clock: types, bitmaps, wake-up times, what `schedule()` picks | 2 workers, sleeps of 1 and 2 ticks; 0.90 M states | passes |
| `sched_live` | sleepers wake, ready threads of the top priority take turns | 2 workers, sleeps of 1 and 2 ticks; 72 k states | passes |
| `buddy` | two threads allocate and free in every order, interleaved inside their calls | frames 3 to 16, `MaxOrder` 3, sizes 2, 3, 5 and 9, two allocations per thread; 77 k states | passes |
| `semaphore` | waits, posts, creations and exits, with the clock | 3 workers, one semaphore that starts at 0, one priority level, no post above 1; 1.36 M states | passes |
| `kmalloc` | two threads allocate and free, the daemon returns objects | 3 frames, sizes 2 and 4 of a page of 4, lengths 2, 3 and 5, two descriptors per page, 3 objects at a time; 0.40 M states | passes |
| `uart` | two threads print, one of them reads a line, keys arrive | buffers of 2, a receive FIFO of 2, up to 3 and more characters waiting, keys CR and DEL, 2 unfinished echoes; 1.75 M states | passes |
| `rbtree` | every sequence of insertions and deletions | 10 nodes, two with equal keys; 1.18 M states | passes |
| `pid` | does the idle thread keep pid 0? | words of 2 bits, 4 threads besides idle | violated |
| `sched_hang` | does every interrupt return? | 1 worker | violated |
| `sched_lost` | does a thread that calls `sleep` go on afterwards? | 1 worker | violated |

The properties, each stated with its lines in `Sched.tla` or `TaskLists.tla`:

* `ListsExact` no thread is on two lists, twice on one, or on one after its page
  was freed; its list agrees with its `stat` and `prio`.
* `BitmapsExact` both bitmap levels agree with the lists.
* `AccountedFor` a live thread on no list is in one of the named windows,
  waiting, or in the hands of exactly the code that will link or free it.
* `ChildrenExact` no thread is left with a parent that has given its children
  away.
* `NoMissedWake` nobody releases a parent's lock leaving it in `wait()` with no
  child left.
* `LockDiscipline` a lock is held by the thread inside its critical section and
  nobody else, across exits, page reuse and switches.
* `QueueCounts` `n_tasks`, which `tq_pick_next` trusts, counts the list.
* `ReapedIsDone` the reaper frees a thread that is done, holds no lock, is on no list
  and is the parent of no thread that a list leads to. Of the local pointers in
  calls of others, one may still be followed: the creator's, by which `kernel_thread`
  reads the pid after `schedule()` (`sched.c:229`), and only if the creator's
  priority is not above the reaper's. There the code does read freed memory; in the
  repository the creators have a higher priority than `DAEMON_PRIO` or a child that
  never returns, and no caller uses the pid.
* `SleepExact` sleepers wake at their tick, also when the same walk removes
  others.
* `RunsHighest` every switch goes to a ready thread of the highest ready
  priority.
* `SleeperWakes`, `RoundRobin` the liveness properties.
* `RInv` the inductive invariant of the reaper, of which `IInv` and `FInv` are
  parts (section 4).

In `Buddy.tla`:

* `FlagsExact` a frame is marked free with order `o` exactly when it starts a
  block on list `o`: the fact that makes the test for a merge right.
* `Tiling` every frame is in exactly one free block, allocation or unfinished
  call; free blocks are aligned.
* `FailsOnlyWhenFull` when no block of an order can be had, no aligned run of
  that size is free: no sequence of calls leaves two free buddies unmerged.
* `KeepsPromise` the refinement of `Pages`.

In `Semaphore.tla`:

* `CountExact` a negative count is the number of threads that wait and that no
  post is on its way to.
* `WaitersExact` the queue holds exactly threads that wait for this semaphore and
  are on no other list.
* `ImplementsSemaphore` every post lets exactly one wait through.

In `Kmalloc.tla`:

* `ObjectsExact` an object is in one place only, and `ref_cnt`, which alone decides
  whether a page is returned, counts the objects in use, lost ones left aside.
* `OwnersExact` the frame table leads from every object in use to the descriptor
  of its page, however often descriptors moved.
* `FramesExact` each frame is free, a page of descriptors or the page of exactly
  one descriptor; each descriptor is in one chain, once, or spare; none is lost.
* `KeepsPromise` objects never overlap: `Pages`, with bytes for pages.
* `AllReturned` once everything is freed, all object pages come back.

In `Uart.tla`:

* `NeverStranded` when the transmitter is said to run, a character is on its way or
  the interrupt for the next one is enabled, pending and latched; when not,
  nothing waits.
* `KeepsOrder` both buffers implement `Fifo`, overruns included.
* `Drains` if printing stops, everything is sent.

In `RBTree.tla`:

* `LinksExact` parent and child pointers agree inside fix-ups too; the sentinel is
  never red.
* `RedBlack` the colour rules, with exactly the exception each fix-up repairs.
* `IteratesInOrder` `rb_next` and `rb_prev` visit every node once, by key.
* `ImplementsList` the tree is an ordered list; fix-ups are invisible.
* `FixupAdvances` each round of a fix-up moves up or is the last.

**Bounds.** `W = 2` gives four priorities and two bitmap bytes: two bits in one
byte, two bytes in the group, so a byte that empties with and without its
neighbour. Workers use priorities 0 and 1 and the idle thread 3, so the levels
of the search are both crossed. `DAEMON_PRIO` is instantiated as 1, a priority
the workers also use, so that the reaper runs before, after and between them;
the theorems hold for every value. `TickMod = 4` is the width of the 32-bit tick
counters; the durations 1 and 2 let two sleepers expire in one tick and in
different ticks. Durations are positive: `sleep(0)` wraps the counter on the next
tick and the thread sleeps for 2^32 ticks, which no document of the repository
promises anything about (listed as a hazard). Three workers are needed for a
grandparent, a parent and a child; two for the reaper's and the clock's races.
Workers are interchangeable and the specification never names one, so their
permutations are a symmetry of the safety runs; the liveness runs use none.
Deadlock is checked in every run: the system never stops, since the clock ticks
or the handler spins (`Spin`).

In `buddy`, the range starts and ends unaligned (one block of order 0, one of
order 2, one of order 3 and one of order 0), so that buddies outside the range
are met on both sides. The sizes are a power of two, one whose remainder is one
piece (3 of 4), one whose remainder is two (5 of 8), and one that is too large
(9); merges run over three orders. A range smaller than its unaligned head, and a
request for 0 frames, are excluded by `BuddyAssumption`: no caller makes them
(listed as a hazard).

In `semaphore`, three workers are a waiter and two posters, or a waiter, its child
and a poster. In `kmalloc`, pages of two objects of one size and one of the other
with two descriptors on a page make chains grow, shrink at the head and in the
middle, and share descriptors; memory never runs out (a `kmalloc` that finds no
frame is not started), because `alloc_pages` turns NULL into an address
(`mm.h:103`). In `uart`, a buffer of two wraps and overruns at once, and so does a receive FIFO of two
(16 in the device): it holds a second character, and drops a third. Ten nodes
are enough for a deletion fix-up that climbs two levels and for all its cases on
both sides. In `pid`, words of two bits have both levels of the bitmap.

**Fairness.** `ClockSpec` assumes weak fairness of `Tick` and of the handler's
steps: `clk_init` programs the PIT once in periodic mode, and the interrupt is
acknowledged before the handler runs, so the next one always comes. Nothing is
assumed of the threads: a worker may compute for ever. `FairSpec` adds that a
thread inside a service executes its next statement if it is on the processor
again and again (strong fairness: the clock interrupts it, but with a period of
5 ms not before each of its instructions); it is used only by `sched_lost`, so
that its counterexample is not a thread that simply stops.

`Kmalloc` assumes only that the daemon gets its turns (`kfree_km_cache` runs
`free_cache` in a loop), `Uart` that the device sends what it is given and that
the processor takes interrupts (a handler's first section runs to its `sti`, and
nobody keeps interrupts off for longer). Nothing is assumed of the threads.

**Three disagreements.**

* *The handler may never return* (`sched_hang`). The critical sections of
  `sched_rr.c` and `task_queue.c` run with interrupts enabled, and the handler
  takes the same locks. If the clock interrupt arrives inside one and needs the
  lock, it spins for ever with interrupts disabled; on one processor nobody can
  release it. `init/README.md:51` says that interrupt handling ends by enabling
  interrupts and returning.
* *A thread may be lost* (`sched_lost`). Between `rr_dequeue` (`sched.c:159`) and
  `tq_enqueue` (`sched.c:162`) a thread is on no list. If its quantum ends there,
  it is switched out and nothing leads to it any more. The test at
  `sched.c:362-363` calls `sleep(10)` and then prints. The same window is in
  `wait`, `task_reset_prio`, `kthread_exit` and `__sem_wait`.

* *Pid 0 is given away* (`pid`). When all pids are taken `alloc_pid` returns
  `INVALID_PID`, 0, and `task_init` stores the new thread in `task_tbl[0]`. The
  comment at `pid.h:6` reserves pid 0 for the idle thread for good.

The other properties hold *in spite of* the first two: a hung state satisfies them, and
`AccountedFor` names the windows in which a thread may be lost.

## 4. Proofs

The theorems hold for every set of threads, semaphores, page frames, tree nodes and
characters, every key of a node, bitmap width, page size, `MAX_ORDER`, buffer length
and set of priorities, durations and services. They assume what the modules say of their constants, and
TLC evaluates these assumptions in every run:

* `ListAssumption`: `W` is positive, `NULL` is no thread and no semaphore.
* `SemaphoreAssumption`: the bound `MaxCount` is a natural number; the threads are
  finitely many (they are counted).
* `SchedAssumption`: the threads are the workers, the idle thread and the reaper,
  all different; priorities are in range; durations are below `TickMod`.
* `UartAssumption`: at most one thread reads; the buffer and the receive FIFO hold
  something; the bounds of the model keep `ilen` and `olen`, which are `uint16_t`, below
  65536.
* `KmallocAssumption`: frames are numbered from 1; a page has 1 to 65535 bytes
  (4096 in the code), because `ref_cnt` is a `uint16_t` and objects may be of one
  byte; there is a size, and no size exceeds a page.
* `BuddyAssumption`: `MAX_ORDER` is below 15, which the four bits of the order field
  use for "none" (it is 10 in the code); the range given to `buddy_init` lies in
  `frame_tab`, whose length is a multiple of twice the largest block, because
  `__buddy_free` locks the buddy of any block before it tests the order; the range is
  no shorter than its unaligned head; nobody asks for 0 frames.
* `RBAssumption`: the sentinel is no node; every node has a number as its key.

`SleepersOnTime` has one hypothesis more, `0 \notin Durations`: after `sleep(0)`
the statement is false.

| module | theorem | statement |
|---|---|---|
| `SchedProofs` | `Invariant`, `Types`, `Lists`, `Bitmaps` | `Spec => []IInv`, `[]TypeOK`, `[]ListsExact`, `[]BitmapsExact` |
| | `SchedulesHighest` | `Spec => RunsHighest` |
| `SchedFamilyProofs` | `FamilyInvariant`, `Locked`, `FamilyTree` | `Spec => []FInv`, `[]LockDiscipline`, `[]ChildrenExact` |
| | `ParentWoken` | `Spec => NoMissedWake` |
| `SchedQueueProofs` | `CountedInvariant`, `NobodyForgotten`, `Counters` | `Spec => []Counted`, `[]AccountedFor`, `[]QueueCounts` |
| | `ReapInvariant`, `ReapedSafely` | `Spec => []RInv`, `Spec => ReapedIsDone` |
| | `SleepersOnTime` | `0 \notin Durations` gives `Spec => []SleepExact` |
| `SemaphoreProofs` | `SemInvariant`, `SemaphoreTypes` | `SemSpec => []SInv`, `[]SemTypeOK` |
| | `WaitersCounted`, `WaitersKept` | `SemSpec => []CountExact`, `[]WaitersExact` |
| | `SemaphoresCount` | `SemSpec => ImplementsSemaphore` |
| `UartProofs` | `UartInvariant`, `UartTypes`, `NothingStranded` | `Spec => []UInv`, `[]TypeOK`, `[]NeverStranded` |
| | `Order` | `Spec => KeepsOrder` |
| `KmallocProofs` | `KmallocInvariant`, `KmallocTypes` | `Spec => []KInv`, `[]TypeOK` |
| | `ObjectsCounted`, `OwnersKnown`, `FramesAccounted` | `Spec => []ObjectsExact`, `[]OwnersExact`, `[]FramesExact` |
| | `KmallocKeepsPromise` | `Spec => KeepsPromise` |
| `BuddyProofs` | `BuddyInvariant`, `TypesCorrect` | `Spec => []BInv`, `[]TypeOK` |
| | `FlagsCorrect`, `TilingCorrect`, `FailureJustified` | `Spec => []FlagsExact`, `[]Tiling`, `[]FailsOnlyWhenFull` |
| | `BuddyKeepsPromise` | `Spec => KeepsPromise` |
| `RBTreeProofs` | `RBInvariant`, `RBTypes`, `RBLinks`, `RBBalance` | `Spec => []RBInv`, `[]TypeOK`, `[]LinksExact`, `[]RedBlack` |
| | `RBIterates` | `Spec => []IteratesInOrder` |
| | `RBImplements`, `RBAdvances` | `Spec => ImplementsList`, `Spec => FixupAdvances` |

So every safety property that a passing run checks is proved. `SchedProofs` begins
with the lemmas on the operations of `TaskLists` (`PickFinds`, `RrDequeue` and others)
that all proofs about the scheduler use. Each inductive invariant was checked by TLC
before it was proved, `RBInv` on six nodes with its positions and bounds computed from
the tree; only `RInv`, which contains the others of the scheduler, is kept in a run.

**Lists and bitmaps (`IInv`).** `TypeOK` alone is not inductive: `current' =
PickHead` is a thread only if some run queue is not empty and the bitmaps lead to
it. So:

1. `IdleFits`: the idle thread never leaves its run queue. `BitmapsExact` then
   makes the search find a first thread of a non-empty queue (`PickFinds`), for
   any width `W`, because `p = (p \div W) * W + p % W` orders priorities first by
   byte and then by bit.
2. `BitmapsExact` survives `rr_dequeue(t)`, which clears the bit of `prio[t]`,
   only if `t` was on the queue of that priority: `ListsExact`.
3. `ListsExact` survives an enqueue only if the thread was on no list. A thread
   that links itself is inside a window it entered with a dequeue
   (`WindowsUnlinked`); one linked by another is in that other's hands only
   (`HandsOff` for a creator and a waking child, `TickFits` for the interrupt,
   `ReaperFits` for the reaper).
4. That these hands exclude each other follows from what `stat` says of where a
   thread is (`StatPoints`): a child wakes its parent only if it is `WAITING`,
   so at the end of `wait()`; the interrupt only takes threads on the sleep list,
   so `SLEEP`; the reaper only zombies; and a freed thread is past everything it
   could do (`Running`).
5. `PointersSet` says that the pointers the code follows without a test are set.

Nothing in this depends on which services there are, as long as each step is one of
the kinds the lemmas cover. So the invariant is stated once for the program points
of `Sched` and of `Semaphore` (`GInv`), with the one conjunct that semaphores need
(`WaitersFit`), and `IInv` is `GInv` with `TypeOK` and the remark that `Sched` alone
never uses a semaphore's queue (`SemsUnused`).

**Locks and families (`FInv`).** `LockDiscipline` and `ChildrenExact` are proved
together, because neither holds without the other. An exiting thread releases the
lock of the thread that `parent` led it to; that this is the lock it took needs
that the parent is still live and has not given its children away
(`ParentHeld`), which is `ChildrenExact`. And the parent cannot give them away
meanwhile because it waits for the very lock. `FreshAlone` covers a `task_t` that
is used again, `DeadIsDone` that a freed thread has released its last lock, and
`WakeDone` carries the test of `sched.c:63` to the unlock, from which `NoMissedWake`
follows. A lock is a fact about program points, so the proof needs one lemma per
*kind* of move (taking a lock, releasing one, neither: `Takes`, `Frees`, `Keeps`)
and a list of the moves of each kind.

**Counters and forgotten threads (`Counted`).** `list_del` is not told from which
list it removes, and `rr_dequeue` decrements `n_tasks` without a test. That the
thread was linked where the counter counts needs `AccountedFor` (a live thread
outside the windows is on a list), and `AccountedFor` survives the steps of the
interrupt only with `FInv`. So the two are one invariant.

**The reaper (`RInv`).** `ReapedIsDone` says first that no list leads to a thread
whose parent has been freed. It holds because the zombie queue is first in, first out
and a parent enters it after its children: `ChildrenFirst` says so of the queue,
`ParentWaits` of the thread that is about to enter, and `PickedIsHead` that what
the reaper picked is still first when it unlinks it. A thread that the interrupt
takes off the processor between its `dequeue` and the zombie queue never comes
back (`sched_lost`); `ParentWaits` is therefore about the current thread only.
Second, `ReapedIsDone` says who may still have a pointer to the page. A thread inside
`kernel_thread` between `schedule()` and the read of the pid is ready, hence on its run
queue, and the processor goes to the highest priority (`RunsHighest`): while the reaper
runs no such thread has a higher priority (`CreatorsBehind`, with `ReaperLoops`, which
keeps the reaper itself out of the creators).

**Wake-up times (`WInv`).** In the middle of its walk the interrupt has
decremented the counters of the threads before `cursor` and of none from there
on (`WalkedTo`), also when it has just removed the thread at `cursor` and goes on
at the `temp` it saved (`DueAt`). `SleepExact` is the case of a finished walk.

**Semaphores (`SInv`).** Until `broken`, `SInv` is `GInv`, the counts in balance, and
what each call in progress knows (`CallsFit`: its semaphore, its lock, what it has
stored in `wait_for`, the waiter it has taken off). Two dangers meet in it:

* A waiter is `WAITING` before it has said for what (`semaphore.c:7` and 8). A child
  that exits there takes it for a thread in `wait()` and puts it on a run queue.
  `WaitersFit` follows the two ways it may go on: marked ready it is linked, or about
  to be, so that `LinkWaiter` finds it linked (`broken`); or `wait_for` was stored in
  time, and then the test of `sched.c:63` fails. `HandsOff` says that a thread in the
  hands of a post is in nobody else's.
* The count changes long before the queue does. `Balanced` therefore counts threads by
  where they are: from the decrement to the moment they are taken off, and posts from
  the increment to that moment. A step of `Sched` changes neither set (`NextCallers`),
  whichever thread it runs or interrupts; of the steps of a call only the counting ones
  and the unlinking change them, each by one thread and in the same step as the count
  or both sets at once.

The refinement maps `permits` to the count plus the number of waiters. That a post which
unlinks has a permit to use follows from `Balanced`: it is itself one of the posts that
are counted. The steps after `broken` are stutters, and the types survive them.

**The UART (`UInv`).** `Ring` says that the characters of a ring are where its
indices say, modulo the buffer's length; the lemmas on remainders (`Advance`,
`Apart`) make that so through every store. `NeverStranded` is inductive with
`Latched` (a line that is high has been latched, until an interrupt is lost), `Enabled`
(only an IER written back by `ugets` disables the transmitter) and `OneAtATime`. The
second character in the FIFO and the line status are steps like the others here: they
raise the line, and the handler that leaves it high sets `lost`. The refinement of
`Fifo` follows from `Contents` before and after a store. `Room` bounds the lengths
by the model's own bounds, with the frames of unfinished echoes counted, and one character more while the FIFO holds
any (`Received`: only one is read before an interrupt is lost); it is needed for the types
alone.

**kmalloc (`KInv`).** The invariant falls into two halves that meet only in the set
`Used` of objects in use, so that a step that moves an object and one that moves a
page are proved apart:

* `Apart` says *where an object is*: with one holder, on its way from `kfree`, in
  one cache at one place, or in the daemon's hands, and never two of these.
* `Memory` says *where a page is*: `ChainsDescribe` (a descriptor in a chain
  describes a page of its size, the frame table leads back to it, and `ref_cnt` is
  the cardinality of the page's part of `Used`), `UsedDescribed` (an object in use
  is on such a page), `DescsApart` and `FramesApart`.

The hard steps are those where a page changes its descriptor: a new page gets the
head's, and when a page empties the one after it is copied over it. The frame
table is updated with each, and `ChainsDescribe` survives because no two
descriptors of a chain have the same page, which follows from `owner` and is not
stated. Once `kfree` or the daemon has used a descriptor that moved (`stale`) the
code has written into another page's descriptor, and nothing but the types is
claimed; that they survive is part of the theorem. `ObjectsExact` counts *places*
where `KInv` counts objects: a bijection between the two closes the gap.
The refinement needs no more of a step than `HandsOut`: what a call of `kmalloc`
adds to `held` was in use by nobody. That its bytes overlap nobody's is `HeldApart`
and arithmetic (objects of one page have one size and different multiples of it).

**The buddy allocator (`BInv`).** Three things have to be known together for one of
them to survive a step:

* *Who has what.* `Regions` are the free blocks, the allocations and the blocks in
  hand, each tagged with its owner. `Apart` (two regions never meet) and `Covers`
  (together they are the managed frames) are `Tiling` without its cardinality, which
  is derived from them at the end.
* *What the flags say.* `FlagsExact` for the heads of free blocks; for an allocation
  `Holds`, that the first frame of each of its pieces still has the order that `Mark`
  wrote: `buddy_free_frames` passes no size on, and `__buddy_free` reads it there.
* *What is merged.* `Merged`: free blocks are aligned and the buddy of a free block is
  not on the same list. `FailsOnlyWhenFull` follows: in an aligned run of free frames
  that no block covers, take a smallest free block. Its buddy lies in the run, is free,
  and cannot be in pieces, because they would be smaller still; so it is a free block
  of the same order, and the two are unmerged.

Every section under the lock does the same to these: some blocks leave the lists, some
join, and the caller is granted something. `Moves(t, X, K, G)` is that shape, with what
must hold of it (frames taken are frames placed, the flags of all others stay, no block
joins beside its buddy). It is proved once that a step of this shape keeps `BInv`, and
then of each action that it has the shape. For `FreePiece` this rests on the lemma
`Merging`: the block of order `m` around the piece is exactly the piece and its buddies
of the orders from `k` to `m - 1`, so the frames that join are the frames that left.
For `Init`, `Mark` and `Rest` it is that `Rising`, `Falling` and `Halves` tile their
range.

The model writes `1 << o` as `Pow2`, a function that doubles, and not as `2 ^ o`, of
which the provers know nothing. The facts about powers and bits that the argument needs
for every exponent are inductions; they are done on sets, as "the least exponent for
which this fails", which exists because the natural numbers are well-founded
(`LeastIn`) and cannot be 0 or a successor.

**The red-black tree (`RBInv`).** The properties speak of `Walk`, `Most`, `Neighbour`,
`Blacks` and `Depth`, which follow links to an end. Nothing can be said of them while a
rotation is half understood, so the invariant does not mention them. It says that three
functions on the members exist, each of which is constrained one node at a time:

* *Layout* (`Laid`). A node has a position `pos[n]` on a line of `L` places, and two
  bounds `bd[n]` between which its whole subtree lies. A child has its parent's bound on
  its own side and its parent's position on the other; where there is no child the bound
  is the next place. This is the shape of the tree: no cycle (`NoClimb`, `NoDescent`: the
  room between the bounds shrinks on the way down), one parent each, nobody left out.
  Every node that is in no tree is as `rb_init_node` leaves it.
* *Order* (`Sorted`). Positions agree with the keys.
* *Colours* (`Colored`). `Reds` are the rules with their one exception; `Counted` gives
  each node the number of black nodes on any path down, with one more on the short side
  of `nd`'s parent while a deletion is fixed.

A rotation changes the bounds of two nodes, one link of each of up to three others and no
position (`RotateLaid`), so `Walk` is unchanged by every fix-up, which is most of
`ImplementsList`. An insertion makes room for one position (`LeafLaid`), a deletion closes
it (`CutLaid`). When the node has two children, the code moves its successor into its
place; that is a deletion of the successor followed by a *renaming* of the node
(`SpliceRenames`, `RenameLaid`), the two being neighbours on the line. The black counts
then say that a brother of a short node is no sentinel (`BrothersAre`), without which the
fix-up's rotations would not even keep the types; here lies the danger of the sentinel's
own parent, which the loop follows (`Running`).

The recursive functions come last, once each, on a tree that is laid out: the equation
has a solution because a rank falls along the links (`FollowExists`), and the solution is
what the layout says: `Walk` the nodes by position (`WalkIs`), `Neighbour` the next
position (`NeighbourIs`), `Blacks` the count of the root (`BlacksIs`). `FixupAdvances`
needs them only for the rounds that move no pointer: after any other the loop ends.

**Form.** `SchedProofs` and the modules on top of it have one lemma per action or,
where actions are the same operation at different statements (taking a lock, a
dequeue, a mark), one lemma for all of them with the list of the moves it covers
(`Plain`, `DequeueMoves`, `MarkMoves`, `ScheduleMoves`). Each lemma says in a
comment what it is for.

**Only model-checked.**

* `SleeperWakes`, `RoundRobin`, `AllReturned` and `Drains`: the prover has no rules for
  fairness and ENABLED.
* `Pid` is the model of a disagreement; there is nothing in it to prove.

## 5. Not modelled, and why

* `kthread_exit` with a non-zero status: it returns into a word above the first
  frame of the thread, so what follows is undefined. Thread functions of the
  repository return 0.
* `wakeup` (no caller), `task_print` and `total_ticks` (output only).
* Exhaustion of pages: a thread in `Sched` is a `task_t` that the allocators hand
  out when there is one, and `Kmalloc` never runs out.
* `switch_to`: registers and stacks; `Schedule` is its effect.
* Boot: page tables, GDT, IDT, PIC and device set-up run once with interrupts
  disabled. `Init` is the state after `sched_init`. Of the PIC only its latch is
  modelled, in `Uart`. The page directory entries of `mm_init` are wrong above
  4 MB (listed as a hazard); that is a calculation and not a protocol.
* Console, `printk`, ELF symbol lookup, logging: formatting and output.
* `fat_read`: a computation on a disk image that nothing calls.
* `mm/bitmap.c`: compiled out.
* Of the UART, framing errors and breaks, the line parameters, and the text that `ugets`
  collects.
* Counters that wrap only far beyond what the rest of the code survives: `list_len` of an
  object cache (`uint16_t`, `kmalloc.c:233`) is the length of a sequence, and the counts
  of the UART's buffers stay below 65536 by assumption. The daemon empties the caches in
  every round, and a buffer of 64 KB waiting has long overrun.
* `rb_cmp`: in the test of the tree, which is compiled out, it returns 0 or 1 and never a
  negative value, so all its keys are equal to the tree: the constant `Key` of `RBTree`.

## 6. What is left

Nothing that a passing run checks lacks a proof but liveness. Worth adding: the
allocators under `kernel_thread`, so that a creation can fail (`Sched` and `Buddy`
meet only in the abstract `Pages` today); `Pid` with a repaired `alloc_pid`, for which
uniqueness of pids could be stated and proved; and callers of the tree that share it,
whose steps would interleave at the sentinel's parent (listed as a hazard).
