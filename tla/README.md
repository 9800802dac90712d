# UniKernel: a verification project

TLA+ models of the core of UniKernel (an AArch64 unikernel for QEMU's `virt`
machine, two cores, cooperative threads), their TLC configurations, and TLAPS
proofs. Source paths below are relative to the repository.

## 1. The system

| Part | Source | State | Operations |
|---|---|---|---|
| Physical memory manager (PMM) | `src/pmm.c` | `frame_stack`, `stack_top`, `used_frames`, `ref_counts` | init, alloc, free, inc_ref, mark_used_region |
| Virtual memory manager (VMM) | `src/vmm.c` | three levels of page tables in PMM frames, `root_phys` | init, map_region, map_page, map_block |
| Heap | `src/heap.c` | page table `page_metadata`, slab headers inside pages, a partial and a full list per size class | init, malloc, free, calloc, realloc |
| Scheduler | `src/pthread.c`, `src/switch.S` | run queue per priority and a bitmap, task structures, per-core `task` and `task_to_free`, `sched_lock` | create, exit, join, yield, secondary start, context switch |
| Spinlocks, attributes | `src/pthread.c` | one word; a caller's record | lock, trylock, unlock, destroy; setters and getters |
| Network driver | `src/net.c` | RX and TX virtqueues, `tx_desc_idx` | init, send, poll_rx, cleanup_tx, ARP and ICMP replies |
| Exceptions, GIC | `src/exceptions.c`, `src/gic.c`, `src/boot.S` | device registers | IRQ 48 dispatch to the network driver, panics |
| Console | `src/stdio.c` | `print_lock`, `read_lock`, the UART | printf, scanf, gets, number printers |
| Strings | `src/string.c`, `src/stdlib.c` | none | str*, mem*, atoi |
| Clock | `src/pl031.c` | boot epoch | reads of the RTC and the counter |

How they interact. `main` calls `pmm_init`, `init_vmm` (which takes frames from
the PMM for its tables), `heap_init` on a fixed address range, `sched_init`
(tasks and stacks come from the heap), starts core 1 and then `net_init`
(rings and buffers come from the PMM). From then on both cores run threads that
share the run queues under `sched_lock` and the heap under `heap_lock`; on core
0, IRQ 48 interrupts whatever runs and lets the driver allocate and free frames.
The PMM has no lock.

What is hard: a context switch holds `sched_lock` from one thread into
another; a thread is queued again before its context is saved; exit frees the
memory of the thread that is running; join polls without the lock; `realloc` is
three critical sections; slabs change lists by occupancy; block and page
mappings replace each other; the PMM is used from interrupt context; handlers
print on top of code that prints. The hazards, each at its line, are in `PROJECT.json`.

What makes each part correct:

- PMM: no frame has two owners; no frame is lost; its own tables are never given out.
- VMM: a region that was mapped translates as asked; nothing else is mapped; only table frames are written.
- Heap: live blocks are disjoint and inside the heap; nothing leaks; the lists are exact.
- Scheduler: a thread runs on one core; ready threads are exactly those in the queues and run eventually; the lock is released on every path; memory in use is not freed; join returns.
- Network: a buffer belongs to the driver or to the device, never both; every sent buffer is freed once; every packet is handled; an answer goes to the one who asked, with a checksum that fits, and is not answered again.
- Spinlocks: one holder, and ownership passes only through a release.
- Console: a message appears in one piece but for echoed keys, a line has one reader, the locks come back.
- Attributes: every thread has a stack of its own that is as large as was asked for.
- Strings, numbers, clocks: what comes out is what the arguments say, at every edge.

## 2. Modules

| Module | Models | Notes |
|---|---|---|
| `FramePool` | what a frame allocator promises | abstract: number of owners per frame |
| `Pmm` | `src/pmm.c` | implements `FramePool` |
| `PmmProofs` | | proofs about `Pmm` |
| `PageRun` | the first run of n free pages | reference definition |
| `PageScan` | the loop of `alloc_pages_backend` | computes `PageRun!FirstFit` |
| `Allocator` | what malloc, free and realloc promise | abstract: disjoint blocks |
| `Heap` | `src/heap.c` | implements `Allocator`; uses `FirstFit` for the page search |
| `HeapProofs` | | proofs about `Heap` |
| `Sched` | `src/pthread.c`, `src/switch.S` | |
| `SchedProofs` | | proofs about `Sched` |
| `Vmm` | `src/vmm.c` | |
| `VmmLayout` | how the regions that `src/vmm.c` maps lie | what the code relies on without checking |
| `VmmProofs` | | proofs about `Vmm` |
| `Net` | queues and interrupt handler of `src/net.c` | device and frame stack included |
| `NetProofs` | | proofs about `Net` |
| `Division` | | quotients and remainders, for the other proofs |
| `Packet` | packet handlers and checksum of `src/net.c` | operators |
| `Mutex` | what locks promise | abstract: an owner per lock |
| `Spinlock` | spinlocks of `src/pthread.c` | implements `Mutex` |
| `Console` | `src/stdio.c`, panics and interrupts that print | composes `Spinlock` with printf, scanf, the heap's lock and handlers |
| `ConsoleProofs` | | proofs about `Spinlock`, and from them about `Console` |
| `Convert` | number printers of `src/stdio.c`, `atoi` | operators |
| `CString` | `src/string.c` | operators on a memory |
| `ThreadAttr` | attributes and stacks, `src/pthread.c` | |
| `Clock` | `src/pl031.c` | |
| `LibraryProofs` | | proofs about `PageScan`, `ThreadAttr` and `Clock` |
| `MCPmm`, `MCSched`, `MCHeap`, `MCVmm`, `MCVmmLayout`, `MCNet`, `MCConsole` | | constants for TLC |
| `MCLibrary` | | `PageScan`, `Convert`, `CString`, `Packet`, `ThreadAttr`, `Clock` and `Spinlock`, side by side |

### Pmm

Variables have the names of `pmm.c`; addresses are offsets from
`PHY_RAM_BASE`. `held[f]` is the number of references callers have: callers
free and share what they hold and nothing else, which is the contract of the
functions. Each function is an action, except that the loop of
`pmm_mark_used_region` takes one step per frame (`MarkTarget`); `mark` is its
loop variable, and no other call runs meanwhile. Two paths of `pmm_free_frame`
are separate disjuncts: a counted reference (`DropReference`) and a frame whose
count is 0 because it was marked (`ReturnUncounted`). A region that reaches the
end of RAM has the end index `INVALID`, as in the code, so the loop marks all
frames up from its start.

### Sched

A core executes the thread on whose stack it is (`stack[c]`); `task[c]` is
`current_task`. `pc[c]` says where in the code a core is and what it returns to
after `sched_yield`; `ctx[t]` is the saved context, reduced to what the thread
does next. A yield is four steps: the free of the dead task before the lock
(`YieldEnter`), the critical section (`YieldPick`), the switch
(`cpu_switch_to`) and the unlock in the thread that was entered (`YieldUnlock`,
or `ret_from_fork` for a new thread). Critical sections of other functions
that nobody can see half done are one step; the wake-up loop of `pthread_exit` takes a
step per iteration. Run queues are linked through `rq.nxt` and `rq.prv` exactly
as in the code, including the reuse of `next` as the link of the join queue.

A thread may join itself: `pthread_join` does not look.

Not in the model: a freed task's memory is not handed out again; a failed
`malloc` in `pthread_create` (in `ThreadAttr`); a join of a
thread that has exited; `rotate_queue`, which nobody calls; the
idle threads, which are created but never enqueued nor switched to, because
`sched_init` overwrites `cores[].task`, the field `current_task` stands for.

### Heap and PageScan

Pages and slab headers as in the code, with its real page size (4096), header
size (40) and the two largest of its eight classes. `heap.lists` has the first slab
of the partial and of the full list of each class. The free list inside a
slab is the sequence of object offsets. `malloc` and `free` are one step each,
being one critical section of `heap_lock`; `calloc` is `malloc` of a product that
wraps; `realloc` is three steps, or the release of the block when the new size is
0. `live` holds the blocks of the clients with the sizes they asked for. A size near the
top of `size_t` wraps in `PagesNeeded`, so it becomes a request for 0 pages.
`heap.c` finds pages with a loop; `Heap` uses the definition `FirstFit`, and
`PageScan` is that loop, shown (for all inputs, by proof) to compute it.

### Vmm

`mm.cell` holds the entries of every frame, so that a write through a wrong
pointer is a change the model can see. `get_next_table` follows a valid entry
without looking at its type, like the code. One step maps one block or one page.
The PMM appears as the highest free frame: `pmm_init` pushes frames in ascending
order and nothing is freed during boot. A failed allocation leads to `pc =
"hung"`, since the `%llx` of the error message is a format on which `printf`
makes no progress. `Translate` is the MMU (external), written from the bits
the code sets.

`VmmLayout` states the assumption on the regions that the proofs need. It is the
real layout in general terms: everything is page-aligned and inside the 39 bits of
the TCR; kernel and heap (`0x50000000`, 8 MB) lie in RAM (`0x40000000`, 2 GB); the
devices (1 MB each, below RAM) have the same attributes wherever they meet
something else; RAM has a frame left, behind the kernel and the tables of
`pmm_init`, for the root table, whose allocation
`init_vmm` does not check; and no region has single pages where another one is
mapped by blocks. `MCVmmLayout` adds the assumption to the instance of `vmm`, so
that TLC evaluates it; `vmm_in_block` runs without it, since its page inside RAM is
what the last point excludes.

### Net

The two virtqueues with their rings and 16-bit indices (modulo `IdxMod`), the
frame allocator as its stack, and core 0, which is in `net_init`, in thread
code or in the handler of IRQ 48 (`cpu.at`). The device is external: `Fetch`
takes an available descriptor and reads its address, `Use` returns one and
raises the interrupt; receive buffers come back in any order. It runs between
any two steps of the driver. `net_send` is two steps, before and after the
barrier that makes a descriptor visible. A packet is what the driver does about
it: ignore or reply. What it replies is in `Packet`, what it prints in `Console`.

The transmit side has no flow control, in the code and in the model: `net_poll_rx`
can answer any number of packets before `net_cleanup_tx` runs, and `net_send` takes
descriptors in turn without looking whether the last reply in one is still out.
`overrun` is a history variable: `net_send` has sent while `QSize` replies were out.
`FramesAccounted` says exactly what that means. Before it every frame is in
one place; from then on some frame is in none, so the memory is lost for good.
(The frames that are left never fill the stack, so the bound in `pmm_free_frame`
is never met.) `DeviceUndisturbed` holds for the transmit queue until then and for the
receive queue always. The device transmits in order, as QEMU does: this is assumed,
and without it `FramesAccounted` fails, because `net_send` then comes round to a
descriptor that is out although few replies are.
What a device does when an index has run ahead of it by more than a ring is its own
business; here it may go on reading, at any time or never again, and the properties
hold either way.

### Packet

A handler yields the frames it gives to `net_send`. Two-byte fields are kept in
wire order and read through `load16`, so that a missing byte swap would show. A
byte has `Base` values, an IP address is one number, a MAC address a value of its
own. Lengths inside packets are assumed to fit the frame: a header that claims
more, or less than its own size, is not an input, and echo requests with IP
options are handled but `RepliesAreRight` says nothing about them (the code computes
the checksum from the wrong place).

### Spinlock and Mutex

A lock is a word; `at[a][l]` says where agent `a` is in `pthread_spin_lock`. The
weak compare-and-swap may fail on a free lock (`CompareFails` has no guard on the
word). An agent is code that runs in sequence: a core's threads or a handler. The
refinement maps the owner to the agent that is past the compare-and-swap.

### Console

Each iteration of the loops of `printf` and `scanf` is a step, so other agents run
between any two characters. A format is a sequence of the characters the scanners
tell apart and a printed argument is one token. `uart` holds what was put
since the `printf` under way began, by anybody. `getchar` echoes each key without
`print_lock`, so keys can appear between any two characters of a message;
`OutputWhole` is about what is left without them. Locks are used only when `mmu_enabled` was set, as in the
code. A handler (`over[h]`) runs on top of a thread, which stands still
meanwhile: the interrupt on core 0 prints and returns, the panic on any core
prints and stops it. A thread can hold `heap_lock` while it prints, as `free` and
`heap_debug` do. The loops that never end (`%l` and an unknown letter in `printf`,
anything but `%d` in `scanf`) are in the model and in the instances.

### Convert and CString

Operators, one per function, on integers of `Word` values that wrap, and on a
memory of `Size` bytes in which a pointer is an index and NULL is `None`. Functions
that copy byte by byte, or a vector at a time, do so in the model, since the order
decides what happens with overlaps. Their edges are stated where they differ from
the C library: the least integer prints as `-`, `%x` of a negative number prints
one character, `strnlen` can return `maxlen + 1`, `strncat` without room leaves no
terminator, `strlcat` can write the byte behind a buffer of n bytes.

### ThreadAttr

The attribute record, the two allocations of a stack in `pthread_create` with
either failing, and what `sched_yield` frees. The heap is a set of blocks found by
first fit. `Lost` are the stacks nobody points to: `OneStackLostPerCreate` says
exactly how fast they accumulate.

### Clock

The counter and the PL031 tick together with an arbitrary phase; `since` remembers
when `pl031_init_time` ran. `RealtimeLead`, a conjunct of `ClocksExact`, states
what the time of day is worth: it is ahead by the time from boot to that call, because `boot_time` stays 0.

## 3. Runs

| Run | Result | States | What it shows |
|---|---|---|---|
| `pmm` | pass | 58,644 | `TypeOK`, `Conserved`, `NoDoubleGrant`, `TablesNeverFree`, and that `Pmm` implements `FramePool` |
| `sched` | pass | 1,822,460 | `TypeOK`, `RunQueuesSound`, `OneCorePerThread`, `LockHandedOver`, `FreedOnce` |
| `sched_live` | pass | 8,784 | `ReadyRuns` under `FairSpec` |
| `sched_exit` | violation | | `StackAllocated`: the exiting thread's stack is freed under it |
| `sched_join` | violation | | `JoinReturns`: the wake-up loop never ends |
| `heap` | pass | 964,717 | `TypeOK`, `HeadersIntact`, `SlabsSound`, `NoLeak`, and that `Heap` implements `Allocator` |
| `vmm` | pass | 2,332 | `TypeOK`, `IdentityMap`, `TablesOnly`, `MapsTheRegion` |
| `vmm_in_block` | violation | | `MapsTheRegion`: a page mapped inside a block |
| `net` | pass | 578,462 | `TypeOK`, `RingsKept`, `FramesAccounted`, `DeviceUndisturbed`, `RxDescriptorsKept`, and `PacketsHandled` under `FairSpec` |
| `console` | pass | 223,502 | `TypeOK`, `OutputWhole`, `LineWhole`, that the locks implement `Mutex`, and `PrintLockReleased` under `FairSpec` |
| `console_irq` | violation | | `HandlerPrints`: the handler waits for a lock its own core holds |
| `library` | pass | 87,211 | the remaining parts: `NumbersReadBack`, `CopiesAreExact`, `TextsAreExact`, `RepliesAreRight`, `ScanIsFirstFit`, `StacksSound`, `OneStackLostPerCreate`, `ClocksExact`, `MutualExclusion` |

Bounds, and why they are enough.

- `pmm`: 8 frames of 16 bytes. The tables end in the middle of the fifth, so
  the rounding matters; 3 frames are free, at most 3 references each. Regions
  are aligned, straddling, partly reserved, at the end of RAM, empty and
  outside.
- `sched`: 2 cores as in the kernel, main, the startup task and 3 more threads,
  3 priorities with attribute values 0, 2 and 4 (4 exceeds the number of
  priorities and is reduced modulo it). Queues of four exist, so unlinking at
  the head, in the middle and at the tail happens. Threads are symmetric.
  `sched_live` uses two threads, no symmetry (it would be unsound for
  liveness) and two priorities.
- `heap`: 4 pages, one of them the page table, two symmetric clients, and
  sizes of classes with one and with three objects per slab, so slabs fill,
  empty and move between lists, and blocks of two pages. Requests include 0 and
  a size that wraps; `calloc` has products that fit and that wrap.
- `vmm*`: tables of 4 entries, pages of 2 units, kernels of 1 to 17 units
  (less than a page to more than two blocks, aligned and not) and four sizes
  of RAM. In the smallest ones RAM cannot hold the tables and boot hangs.
  Boot ends, so deadlock is not checked. `vmm` then maps a block and a page
  that init_vmm did not, `vmm_in_block` a page of RAM.
- `net`: queues of two descriptors, indices modulo 4 so that they wrap, and one or
  three frames to spare: with one the allocator runs out, with three the transmit
  queue is overrun.
- `console`: two cores, the interrupt and a panic; formats with every case of the
  scanner, two of them endless; lines of up to two characters, and up to two keys
  echoed (`EchoMax`) inside a message. `console_irq`: core
  0 and the interrupt, with formats that end.
- `library`: all 2048 values of an 11-bit integer; all texts of up to 4 characters
  over two digits, sign, blank and letter; all memories of 7 bytes over 3 values
  with vectors of 2 bytes, for every pair of pointers and length; ARP and ICMP
  frames with right and wrong lengths, opcodes, addresses, odd and even data,
  padding and a byte of 16 values; all 128 sets of free pages of a 7-page heap and
  requests of 0 to 8 pages; two threads in a heap that holds three or four stacks, so
  that either allocation fails; 14 ticks of a clock with 3 ticks and 10
  nanoseconds to the second and all phases; three agents on one lock. The pure
  parts have no steps and the clock stops at its bound, so deadlock is not checked.

Fairness of `Net`: core 0 takes a pending interrupt (`boot.S` unmasks them) and
the handler goes on. Nothing is assumed of the device.

Fairness of `Console`: code that waits for nobody goes on, the loads of a waiting
core see a released word, and a free lock that some agents try to take is taken
by one of them. Nothing is assumed of the typist, nor that anybody calls
`printf` outside the handlers. `StrongSpec` adds that nobody is passed over for ever and is used only
to show that `HandlerPrints` fails even then. `PrintLockReleased` has two
exceptions, both the code's: formats on which `printf` does not advance, and a
handler that prints on top of the holder.

Fairness (`sched_live`, `sched_join`). `Fairness` says that a core that needs
nobody goes on, that a running thread eventually yields (scheduling is
cooperative, so nothing runs otherwise), and that a free lock some cores spin on
is taken by one of them: a compare-and-swap promises no more. `StrongSpec` adds
that no core is passed over for ever; the code does not guarantee it, and it is
used only to show that `JoinReturns` fails even then.

Findings, with the lines they contradict, are in `PROJECT.json`. One more
divergence has no run: `pmm.c` says `pmm_mark_used_region` "is called just at
the start of the kernel", but nothing calls it, so the frames of the heap at
`0x50000000` stay on the free stack of the PMM.

## 4. Proofs

`PmmProofs` proves, for every number of frames, page size, kernel size, set of
regions and addresses, and bound `MaxHolders <= RefMax` (assumption
`PmmAssumption`), that `Pmm` satisfies `TypeOK`, `Conserved`, `NoDoubleGrant`
and `TablesNeverFree`, and implements `FramePool`.

The inductive invariant `IInv` is `TypeOK`, the balance of used and free
frames, `NoDoubleGrant`, and two facts the code relies on without stating them:

- `CountsAgree`: the count of a frame is the number of its holders, except for a
  marked one, which has one holder and count 0. Without it the test
  `ref_counts[idx] == 0` says nothing about whether a push is safe.
- `KernelKeeps`: the reserved frames are always held, hence never on the stack.

Three lemmas say what popping, pushing and replacing by the top do to the set
of frames on the stack; there is one lemma per action. That the unguarded push
stays inside the array (`HeldMeansRoom`) is a counting argument: a full stack
without repetitions contains every frame, so a held one cannot exist. For the
refinement, `IInv` makes the mapped owner count equal `held`, and each action
changes it for one frame by one. Saturation of the u8 count is excluded by
`MaxHolders <= RefMax`; with more than 255 sharers the theorems do not hold.

`LibraryProofs` has three parts.

- `ScanIsFirstFit` for every heap size, set of free pages and request. The loop
  invariant: the last `free_run` pages are free, fewer than asked for, and no long
  enough run starts before them.
- `StacksSound` and `OneStackLostPerCreate` for all sizes of heap and stacks and any
  number of threads. `AttrInv` adds that the stacks are finitely many, inside the
  heap and at different addresses (a thread finds its own stack by its address
  only), and that an initialised attribute has a size of at least `MinStack`. A
  caller's stacks lie outside the heap (`ThreadAttrAssumption`).
- `ClocksExact` for every frequency, phase and length of run. The invariant relates
  the PL031 to the carries of the counter since `pl031_init_time` (`Carries`).

`SchedProofs` proves `TypeOK`, `OneCorePerThread`, `LockHandedOver`, `FreedOnce`
and `RunQueuesSound`, for all finite sets of cores and threads and every number of
priorities (`SchedAssumption`). The inductive invariant `SchedInv` adds:

- `StackSound`, `FlowSound`, `FreeSound`: a core executes its current task except
  between the pick and the switch; what it returns to fits where it is; a core is
  about to free its own task only, which is still allocated. Mutual exclusion of
  stacks needs the first, since the pick looks at queues and not at stacks.
- `Quiet`, unless a core is in the wake-up loop of `pthread_exit` (`NoWake`): task
  states, allocation and run queues agree. The loop breaks the queues, but a core
  that enters it never leaves and never gives `sched_lock` back, so nobody looks at
  them again; each step that takes the lock implies `NoWake`. This is also why
  `RunQueuesSound` is stated outside the loop.

A run queue is a list because its tasks can be numbered from head to tail
(`Numbered`): the lemmas on enqueueing at the tail and unlinking at the head, in the
middle and at the tail say how the numbers change. That a thread is in no
queue twice follows from the numbers being different.

`ConsoleProofs` begins with the locks alone: for every set of locks and agents
(`SpinAssumption`: `Nobody` is not an agent; nothing else is used, in particular not
which locks the console has), `MutualExclusion` and that `Spinlock` implements
`Mutex`. The inductive invariant adds to the types that the word is 1 exactly
while somebody is inside: mutual exclusion alone is not inductive, because the
compare-and-swap looks at the word only. Two lemmas say what a taken and a
released lock do to the abstract owner, one that everything else leaves it alone.

It then proves that the locks inside the console implement `Mutex`, by
showing that every step of `Console` is a step of `Spinlock` or leaves it alone, and
then, for every set of threads, set of formats (sequences of strings), line
length and number of echoed keys, `TypeOK`, `OutputWhole` and `LineWhole`. `ConsoleInv` adds that an agent in
a call took its lock exactly if `mmu_enabled` was set, and that only the boot thread
prints before (`CallsSound`); that only the reader in `gets` has characters
(`ReaderSound`); and that `p` never stands inside a conversion that `printf` knows
(`Passed`, in `TextSound`), without which the text put so far is not determined by
`p`. `UartSound` says that the characters that are no echo can be counted off, which
is why an echo leaves them as they are (`EchoApart`) and a printed character comes
behind them (`ShownLast`), and that there are none before a `printf` is under way.

`NetProofs` proves `TypeOK`, `RingsKept`, `FramesAccounted`, `DeviceUndisturbed` and
`RxDescriptorsKept` for every queue size, every number of index values that the
queue size divides (a power of two is not needed), every size of the rings and every
amount of memory that `net_init` can start with, and any number of replies. The
order of transmission is an assumption of the model (section 2). The invariant says
that the indices of a queue are four numbers that never wrap, l <= u <= n <= a <=
l + `QSize`, modulo `IdxMod` (`Positions`): used, with the device, available. Each
receive descriptor is at exactly one position from l to a - 1 (`Holder`). The frames:
`net_init` takes them from the top of memory in order, so the rings and receive
buffers have fixed places. The transmit queue is in one of two conditions. Until it
is overrun (`TxInOrder`) a position's descriptor is its number modulo `QSize` and
each frame below is on the stack, under one reply or in `net_send`'s hand
(`FramesAt`). Afterwards (`TxOverrun`) there is a frame that is neither free nor in
a transmit descriptor nor in hand (`Lost`), and no step brings it back, since frames
come to the stack from transmit descriptors only. `FramesAccounted`, which compares
cardinalities, follows by counting. `Division` has the arithmetic: what
`%` and `\div` do for divisors that are not known numbers.

`HeapProofs` proves `TypeOK`, `HeadersIntact`, `SlabsSound`, `NoLeak` and that `Heap`
implements `Allocator`, for every number of pages below 2^16 (the width of `count`;
the kernel has 2048), page and header size, increasing sequence of classes that
leave room for one object behind the header, set of clients, and requests below
`Word`, which is at least a page (`HeapAssumption`). The inductive invariant `IInv`
has three parts.

- `HeapOK(heap, Pointers, NULL)` describes the heap from the set of addresses that
  are handed out. A free page has none of them. In a slab (`SlabOK`) they are slots
  that are not in the free list, which has no entry twice; together they are all
  the slab's objects, and `in_use` counts them. A large block (`RunOK`) has the
  first byte of its first page, which knows how many pages with count 0 follow. The
  lists have the slabs that belong in them (`Members`): a list is one whose slabs
  can be numbered along the links (`Numbered`). `SlabsSound` alone is not
  inductive: nothing in it says where an object lies or that a page freed by count
  is not part of another block.
- `LiveOK`: an address tells a block from the others, and the size asked for fits
  the block's room, which is what lets `realloc` grow it in place.
- `ReallocOK`: a client between two critical sections of `realloc` holds a block that
  is still handed out, and no other client holds the same.

`HeapOK` takes the heap and the addresses as arguments, because `cache_alloc` and
`cache_free` go through several heaps: its third argument is the page that may
for a moment be a slab without objects, between the claim of a page and the first
object taken from it. `LinkFirstIs` and `UnlinkIs` are the list surgery,
`CacheAllocOK`, `LargeAllocOK` and `ReleaseOK` the three operations, and
one lemma per action follows from them. `SameRoom` says that no operation changes
the room of another block. Disjointness is not in the invariant: each block has an
extent of whole pages, or a slot of one page (`Extent`), and two different ones are
apart (`Apart`). The refinement then needs only that all blocks fit after each step.

`VmmProofs` proves `TypeOK`, `TablesOnly`, `MapsTheRegion` and `IdentityMap` for
tables of any number of entries, any page size, all sizes of RAM and kernel, any
sequence of devices and any set of later regions (`VmmAssumption` and
`LayoutAssumption`). The inductive invariant `IInv` is, once there is a root table:

- `TreeOK`, also when boot hangs: the root has entries that lead to tables, those
  have blocks and entries that lead to tables, and those have pages (`Level1` to
  `Level3`); no two entries lead to the same table and none to the root (`OneWay`);
  what is not a table is empty. `TablesOnly` alone is not inductive, because it
  does not say on which level a table is used.
- `InBlock` pages lie in blocks that some region has (`BlocksOf`), at first only
  the kernel. With `NoPageInBlock` this is why `get_next_table` never takes a
  block's memory for a table, though it does not look at the entry's type.
- `Progress`: the pages of the regions that are done and of the done part of the
  current one are mapped to themselves, all others are not mapped. Later
  regions are outside it, as in `IdentityMap`.
- `At`: the loop of `vmm_map_region` is never inside a block that it maps as one; so
  its choice between block and page (`TakesBlock`) depends on the region alone
  (`AsBlock`).
- `Maps`: what `MapsTheRegion` says, of the current region.

A walk (`Walk`, which is `Translate` for any memory) is followed through each write.
A new table changes no walk (`LinkedFromRoot`, `LinkedFromTable`), because it is empty
and the entry that leads to it was. An entry for a page or block changes
the walk of that page or of that block's pages only (`PageWritten`, `BlockWritten`):
here `OneWay` is used. `PageMapped` and `BlockMapped` put them together for the two
functions, `RegionStep` for an iteration of the loop, and there is one lemma per
action. That an unaligned kernel ends in a page that RAM's blocks then cover, and
that the heap is mapped a second time, are cases of `StepProgress`: the pages stay
mapped to themselves with the same attributes. The arithmetic of pages and blocks is
in `RegionPages`, `Multiples` and `ScaledRemainder`, on `Division`.

Only model-checked: the operators of `Convert`, `CString` and `Packet` (what a
fold computes for every input needs induction over data, which is outside the
prover), and all liveness (so is fairness).

## 5. Plan

Modelled: all parts of section 1 with the exceptions of section 6.

1. Should thread code come to send packets or to allocate frames: its race with
   the handler, since neither the PMM nor `net_send` has a lock. Today nothing in
   the repository calls them after boot outside the handler.
2. Scheduler: reuse of freed task memory by later threads.

## 6. Not modelled

- `errno`: constants; the source file is empty.
- The assembly of boot and of the exception vectors (register saves, stacks,
  system registers), cache maintenance and the memory model: memory is
  sequentially consistent here.
- The GIC's registers: an interrupt is delivered when it is pending and the core
  has not masked it.
- Getters of attributes, the detach state and the scheduling policy: nothing reads
  them.
- The frames at `0x50000000`, owned by the heap and by the PMM: whether anybody takes
  them depends on a quarter of a million allocations, out of reach of an instance.
- Malformed lengths in packets and uninitialised buffers (`scand` of an empty line):
  what is read then is not determined by the source.
- A heap too small for its own page table, on which `heap_init` gives up, and one of
  65536 pages or more, where `count` wraps.
- Misuse the code does not guard against and the models exclude: more than 255
  sharers of a frame, `pmm_inc_ref` of a frame whose count is 0 because it was marked
  (its first free would push a frame that is still held; nothing calls
  `pmm_inc_ref`), a slab object freed twice, a caller's stack that lies in the
  heap, `net_init` without enough frames, `setstacksize` after `setstack`.
- The UART's FIFO: `putchar` tests for room and writes in two steps, so an echo on one
  core and a `printf` on the other could lose a character to a full one.
- A thread created with priority IDLE, which is never queued.
- The unit tests, which stress the heap and the scheduler.
