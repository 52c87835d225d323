# Kernel-Test verification project

Kernel-Test is a small C++ kernel for 32-bit x86 machines with one CPU. This
directory holds TLA+ models of its parts, the TLC configurations that check them
on small instances, and TLAPS proofs of what matters most for every size.
Paths below are relative to `src/src/`.

## 1. The system: inventory

| component | code | state | operations | hard behaviour |
|---|---|---|---|---|
| spin lock | `task/spin.cpp` | two words: held, number of waiters | `spin_lock`, `spin_wait`, `spin_unlock` | preemption between any two accesses |
| task scheduler | `task/task.cpp`, `task/process.cpp` | `current_task`, `task_queue`, one wait list per device and per task, `sleep_queue`, process tree, duty-cycle counters | `switch_task`, `sleep_on`, `sleep_until`, `wakeup_queue`, `wakeup_sleepers`, `spawn_proc`, `kexit`, `waitpid`, `task_set_ttl` | timer and device interrupts inside every one of these; zombies; reaping |
| interrupt flag | `arch/x86/irq/irq.cpp` | global nesting depth, chains of handlers | `int_disable`, `int_resume`, `irq_install_handler`, `irq_handler` | one depth for all tasks |
| FPU | `modules/fpu.cpp` | `fpu_thread`, saved registers | trap on first use after a switch | an owner that is dead, an address used again |
| pipe | `modules/fs/pipe.cpp` | ring of bytes, two pointers, two locks, two wait lists | `read_pipe`, `write_pipe`, `pipe_size` | one end is an interrupt handler that may sleep |
| ring buffer, unix pipe | `libc/data_struct/ringbuffer.cpp`, `modules/fs/unixpipe.cpp` | ring, one lock, two wait lists, stop flags | read, write, close | interrupted sleepers, SIGPIPE |
| heap | `memory/alloc.cpp` | bins, slabs, skip list, big blocks | malloc, free, realloc | transitions of a bin, lock |
| list, tree, hash map | `libc/data_struct/` | linked nodes | insert, remove, merge, copy | a node in two lists, a missing key |
| module loader | `module.cpp`, `module.h` | module table, calls put off by name | load, add, remove, schedule | order of the ram disk, names that are not unique |
| VFS | `vfs.cpp` | mount tree, reference counts | mount, open, close, path lookup | links inside paths, error numbers as pointers |
| ext2 | `modules/fs/ext2.cpp` | bitmaps, inodes, blocks (the cache is compiled out: `USE_CACHE 0`) | create, mkdir, symlink, unlink, read, write, truncate | order of writes, power failure, full disk |
| ATA | `modules/ata.cpp` | status of a drive | read and write a sector | polling |
| boot, main loop | `kmain.cpp`, `ktest.cpp` | - | a straight line of initialisers, then a polling loop | what one initialiser needs of another |
| keyboard, mouse, serial | `modules/kbd`, `modules/mouse`, `serial.cpp` | pipe, packet under assembly, receive buffer | handlers, callbacks | full pipes, lost bytes |
| signals | `task/signal.cpp` | signal queue, saved kernel stack | `send_signal`, `handle_signal`, `fix_signal_stacks` | nested delivery |
| PIT, CMOS clock | `modules/clock/` | ticks, callbacks | handler, install, uninstall | hole left by an uninstall |
| paging | `memory/mem.cpp` | frame bitmap, directories | alloc, clone, release | shared frames |
| system calls, ELF, initrd, PCI, speaker, terminal, video, C library, ring 3, vm8086 | the rest | - | straight-line code, port I/O, parsing | - |

How they interact. The PIT's interrupt calls `pit_switch_task`, which preempts
whatever runs with interrupts on. Device handlers run on the stack of the task
they interrupt, write to a pipe, and so call `wakeup_queue`, and `sleep_on` when
the pipe is full. Pipes and ring buffers rest on spin locks and wait lists; spin
locks rest on `switch_task`. `switch_task` moves no FPU registers, only arms the
trap of `fpu.cpp`. Drivers are modules: the loader runs their initialisers, these
ask the module named `pipe_driver` for a pipe and mount it in the VFS, and `kinit`,
the first task, opens the files by path and polls them in `ktest.cpp`. All tasks share
the intrusive nodes of one `task_t` (`sched_node`, `sleep_node`), which is why the
lists are where the correctness of the kernel is decided.

What has to be true, per component: a lock excludes; no task is lost, queued
twice, or run after its end; a parent in `waitpid` is not left asleep and nobody keeps
a freed parent; interrupts stay off for the whole of a section; a task finds its own
registers; bytes of a pipe are read once and in order; a block of the disk has one
owner and is read as written, also after a crash; a path opens the file it means;
locks, counters, bitmaps and maps agree with what they stand for after every step.
`PROJECT.json` lists the single hazards with the line at which each bites.

Facts about this build that the models rest on. All gates are interrupt gates, so
a user task's kernel code has interrupts off until it sleeps; `kinit` and tasklets
have them on. The objects are unoptimised, so each load in the source is a load
in the program. `send_signal`, `task_set_ttl` and `waitpid` have no caller
that runs at present (their system calls are stubs), nor have the writing calls
of `ext2.cpp`, reached through `fs_create_file` and its like; they are modelled as the
interface they are.

## 2. What is modelled

Modules, in the order to read them.

**`Mutex`** - the promise of a lock. **`SpinLock`** - `spin.cpp` word by word
(`lock`, `waiters`; `pc` says between which two accesses a task is). `Swap` is the
`xchg`; `WaitInc`, `WaitSeesFree`, `WaitDec` are `spin_wait`; `SpinUnlock`,
`Store`, `CheckWaiters` are `spin_unlock`. `SpinLock` implements `Mutex` under
`holders <- Holders`.

**`Scheduler`** - `task.cpp` and `process.cpp`. A list is the sequence of the
tasks whose node is in it; this stands for the intrusive list as long as no node
is in two of them, and `Next` stops where that ends (`ListsIntact`). Code and
model correspond as follows.

| model | code |
|---|---|
| `current`, `ready`, `waitq[q]`, `sleepq` | `current_task`, `task_queue`, the wait lists and each task's `wait_queue`, `sleep_queue` |
| `Dispatch` | the loop of `switch_task` over `fetch_next_task` and `task_ttl_canlive` |
| `Tick` | `pit_switch_task`: `wakeup_sleepers`, `make_task_ready(current)`, dispatch |
| `IrqWakeup` | a handler's `wakeup_queue`, interrupts off |
| `SleepOn`, `Deschedule` | the two halves of `sleep_on`: `list_append`, `switch_task(0)` |
| `Wakeup`, `WakeCheck`, `WakePop`, `WakeReady` | a task's `wakeup_queue`: the test outside the lock, `list_pop`, `make_task_ready` |
| `Waitpid`, `ScanFindsNone`, `WaitForChild`, `Reap` | `waitpid`, `task_reap` |
| `Spawn`, `Exit`, `SetTtl`, `SetTtlMode` | `spawn_proc`, `kexit`/`task_exit`, `task_set_ttl`, `task_set_ttl_mode` |

`resumed` records which tasks have slept in their call (they come back with
interrupts on). `preempted` is history: the exception of `NobodyLost` and of
`NoMissedChild` is stated with it.

**`TaskSwitch`** - what the tasks share of the processor: the interrupt flag with
`sync_depth` of `irq.cpp`, and the registers of the FPU. A task is an address;
`frames` are the sections (`Off`, `Res`) and handlers (`Irq`, `IrqEnd`) it is
inside of. `Switch` may go to any task. `Trap` is the fault of the first FPU
instruction after it (`fpu_inv_op`: save for `fpu_thread`, then restore or `init_fpu`),
`Compute` the use of the registers; `Exit`, `Reap`, `Spawn` free a `task_t` and use
its address again. `across`, `mine` and `heirs` are history.

**`Pipe`** - `pipe.cpp` with the keyboard handler at one end and readers at the
other. A reader is a sequence of steps, one per load or store of a pointer. A
handler is one step (interrupts are off) unless the pipe is full or another
handler that lost the CPU holds `lock_write`: then its host, the task it
interrupted, sleeps with it, and the rest of `write_pipe` becomes steps of its own
(`frame`). A byte is the number of its interrupt, so order and duplication can be
told. The handler does not sleep on a host that is between `list_append` and
`switch_task` of its own `sleep_on`: that double use of one node is
`NoNodeAppendedTwice` of `Scheduler`.

**`BoundedFifo`** - the promise of a buffer. **`RingBuffer`** - `ringbuffer.cpp`
between preemptible tasks: `Lock`, `TakeByte`/`PutByte` (one iteration under the
lock), `Unlock`, `Wake`, `Sleep`, `Return`, `ClearStop`, `Last` are the passes of
`ring_buffer_read` and `ring_buffer_write`, `Interrupt`, `InterruptReaders`,
`InterruptWriters` are `ring_buffer_interrupt`. It implements `BoundedFifo` under
`queue <- Contents`. `cut` is history: the tasks past their last look when bytes moved.

**`UnixPipe`** - `unixpipe.cpp` over `RingBuffer`: `PipeInner`, `PipeTake`,
`PipeClearStop`, `PipeInterrupt` are steps inside the ring buffer, `ReadTest` and
`WriteTest` the loops of `read_unixpipe` and `write_unixpipe`, `CloseRead`, `CloseWrite`,
`CloseInterrupts` the two closes. `late` is history: the tasks an interruption may miss.

**`Heap`** - `alloc.cpp`. `heap` is the state of the allocator, a record of the heap's
end, each page's header and cell stack, the page lists of the bins and the forward
pointers of the skip list; `live` is what the callers hold. `Kmalloc` and `Kfree` are the
internal functions, from state to state, so that `Realloc` can call one after the
other; `Walk`, `Update`, `Insert`, `Delete` follow the skip list level by level, with
the random level of an insertion left open.

**`Ext2`** - writing through `ext2.cpp`. The disk is `bitmap`, `free`, `imarked`,
`itable`, `content` and `entry`, the root directory; every write of a block is a step, and
`Crash` may come between any two of them and forgets the rest. `Create`, `Write`,
`Unlink` and `Truncate` are the calls; `WriteInode`, `CreateEntry`, `WriteSize` are the
rest of making a file, `Scan`, `Count`, `Zero` the writes of `allocate_block`, `Link` of
`set_block_number`, `Grow` of `allocate_inode_block`, `WriteBlock` the block itself. A block holds words, so
that a block of pointers and a block of data are told apart by what was written there.
An inode is a file, a directory, a link with a block, or a link of at most 60 bytes (`"embedded"`), whose
target stands where others have pointers (`Text`, `PointersIn`). `Numbered` tells the writes that have a
block number from those that go to whatever word was found; these may hit any block, and `Overrun`
is what they may do to the file system's own. `file`, `lost`, `cut`, `enough` and `broken` are history.

**`HashMap`** - `hashmap.cpp`, chain by chain, as operators. **`ModuleLoader`** -
`module.cpp` over three such maps: `PassOver`, `Load`, `RunScheduled`, `FilesDone`,
`RunLate` are the passes of `modules_load`, `RunInit` is what an initialiser asks
of `module_schedule`, `ModuleRemove` and `AddAgain` come after.

**`Vfs`** - `vfs.cpp` as operators on the tree of mounts, a function from paths:
`Canonicalize`, `VfsMount`, `MountDepth` (`get_mount_point`), `Walk` and `Follow` (the loop of
`kopen_recur` and what it does at a link). `RealPath` and `FileNamed` say what a
path means, step by step. **`Boot`** - `kmain.cpp` from `vfs_install` to the root file
system: each step of `ModuleLoader` with the mounts the module makes (`LoadModule`,
`RunScheduledCall`), `SerialInitLate`, and `MountRoot`, which opens the disk with
`Kopen` and mounts ext2 at `/`.

**`SpinLockProofs`**, **`SchedulerProofs`**, **`TaskSwitchProofs`**, **`RingBufferProofs`**, **`PipeProofs`**,
**`HeapProofs`**, **`Ext2Proofs`**, **`BootProofs`** hold lemmas and theorems; **`MC*`** give TLC its instances.

## 3. What each run checks

| run | instance | question and answer |
|---|---|---|
| `spin` | 4 tasks | Exclusion, the count of waiters, progress, implementation of `Mutex`: hold. |
| `sched_core` | kinit, 2 user tasks, 1 tasklet, a list woken by a handler and one by a task, waitpid | No task is lost or appended twice, no child is missed, `list_pop` finds a node, no freed parent. Hold, with the exceptions the properties name (a tick inside `sleep_on`). |
| `sched_live` | kinit, 1 user task, 1 tasklet, `sleep_until`, throttling, an exiting root | A task with a node in `sleep_queue` is never in the task queue as well; every ready task with a full duty cycle runs; `wakeup_queue` reaches the sleeper. |
| `switch` | 2 addresses of tasks, 3 levels of nesting, 3 register values | Interrupts are off to the end of every section, though one depth serves all tasks; a task finds its own registers, but for the heir of a dead owner's address. |
| `pipe_safe` | kinit polling, a tasklet reading 1 or 2 bytes, 3 slots, 5 bytes | Order and integrity of the bytes, bounds of the index, the only missed wakeup. |
| `pipe_kinit` | kinit polling, one other task, 3 slots, 5 bytes | kinit never sleeps in `fread`, every byte is read, a sleeping handler is woken. |
| `unixpipe` | a reader, a writer, a closer; 2 slots, calls of 2 bytes | A bounded FIFO; one task in the loop; nobody sleeps without reason except in the gap between `spin_unlock` and `sleep_on`; the end of file and SIGPIPE are reached wherever the close comes, with the exceptions below. |
| `heap` | the constants of `alloc.cpp`; a bin of 3 cells, one of 1, big blocks of 1 to 3 pages, 4 pages, 3 blocks in use, 2 levels | No byte given twice, no cell lost, page lists and skip list sound, best fit. |
| `ext2` | 20 blocks, 1 direct block, 2 pointers in a block, 3 calls, 1 crash | A block has one owner, a file reads as written, entries have inodes and links their targets, the free count is right, calls return while there is room. Hold up to the first write of a block without a number, with the exceptions the properties name. |
| `boot` | 54 ram disks of up to 8 files, with and without a disk, a root directory with 7 links, 2 removals | Each call put off in time runs once; every driver's file is found; `kopen` opens what a path means; a module gets its own callbacks back. Hold, with the exceptions the properties name. |

Two runs end in a counterexample.

| run | the code says | what happens |
|---|---|---|
| `sched_zombie` | "Remember that this 'for' won't be actually running" (`task.cpp:216`) | `switch_task(TASKST_READY)` makes the finished task ready again; it takes a time slice in each round. |
| `ext2_image` | "Allocate a block in an inode." (`ext2.cpp:782`) | With blocks of 1024 bytes bit 0 of the bitmap stands for block 1 (`first_data_block`), and `allocate_block` takes the bit for the block: it hands out the block before the free one. On `iso/hda.img` the first clear bit is 587, and block 587 is the content of `runme.o`. |

### Bounds, and why they are enough

*Scheduler.* Three or four tasks: a waker, a sleeper, one more sleeper or a
child, and the root. A hazard needs two tasks and an interrupt, a chain of three
(waker pops, sleeper, new current) is the longest the code can build. Both kinds of
list are there. No counter is capped: the state space is finite by itself.
`MAX_TTL` is 1 (2000 in the source; the code only compares with it). `WakeupReaches`
is checked with one sleeper per list: `list_pop` takes the last node first, and with two
a task that keeps coming back starves the other.

*TaskSwitch.* Two addresses are enough for an owner and its heir. `MaxFrames` is 3: a
section, a handler in it after a switch, a section in that. `sync_depth` grows by one
with every switch and never comes down by it; `MaxDepth` is 4, a constraint in
`MCTaskSwitch` (the proof has no bound).

*Pipe.* Three slots is the least with a wrap in the middle of a two-byte content;
`MaxSent = 5` bytes pass the wrap twice for reader and writer and fill the pipe
(2 bytes) with two more handlers waiting. Interrupts stop after that,
so "every byte is read" is asked of a finite burst.

*RingBuffer, UnixPipe.* Two slots, so that every second byte meets a full or an empty
buffer, and calls of two bytes, which wrap, fill the buffer and have to sleep in the
middle; a byte is a newline or not. Readers against readers and other sizes are left to the
proofs, which have no bound.

*Heap.* Three blocks give equal and unequal sizes on both levels of the skip list, and
four pages let a bin have two pages with a big block between them. `SKIP_MAX_LEVEL` is 1
(6 in the source): the loops treat each level from its neighbour above. The bound on
pages is where `sbrk` would panic.

*Ext2.* With one direct block and two pointers in a block, the blocks 0, 2, 5 and 7 that
are written lie on each level of the map; a file of 8 blocks takes 7 more of pointers,
so the disk gets full. `MaxCalls` 3 allows create, write and
one more on either file; one crash (`MaxCrashes`) shows every cut, as a second finds a
disk of the same kind. Five inodes: root, a file of mke2fs, two to make, and the last one.
Block 7 is written twice, so that the second write goes through pointers that are data.

*Boot.* Of the modules in the ram disk those are taken that share a name or wait for
one, and one of each other kind; only the order of the first matters, and all 24 are
there. One module (`pit`) also puts a call off with `MODULE_SCHED_LATE`, which the
interface offers and no module uses. The links are relative and absolute, to a file, a
directory, a mount, a link, nowhere and themselves. `MAX_SYMLINK_DEPTH` is 3 (8 in the
source), which is what `/twice` needs: a relative link is looked up from a path in which
links are not resolved, and so are followed again one level deeper.

### Fairness, and why the code justifies it

*Scheduler.* Strong fairness of `Tick`: the PIT raises its line again and again and
the controller keeps the request while interrupts are off, so a tick that is
possible again and again happens. Strong fairness of `Continue(t)`: a time slice is
long enough for a task to take its next step. Nothing is assumed of interrupts
by devices or of what tasks choose to call.

*SpinLock, Pipe, RingBuffer, UnixPipe.* Weak fairness of each task's steps inside its call
(and of each suspended handler's): round robin, which is `ReadyRuns` of the scheduler. A task
need not start a call; no interrupt need come.

*Ext2.* Weak fairness of `Proceed`, the next write of a call: the task that makes it is
scheduled again and again. No call need be made and no crash need come.

*Deadlock.* Checked in `spin`, `sched_core`, `sched_live` and `switch`. Not in those of `Pipe` and
`UnixPipe`, where a reader really may wait for ever for a key or for a writer; of `Heap`, where
`realloc(p, 0)` spins on its own lock; of `Ext2` and `Boot`, which end when their calls are used up
or where the code reads memory that is not its own. The violation runs switch it off because the
system they examine may stop first.

## 4. What is proved

For any number of tasks, queues and any constants that satisfy the assumptions.

*`SpinLockProofs`.* `TypeCorrect`, `LockCorrect` (exclusion, and `lock = 1` exactly
while somebody is inside), `WaitersCorrect` (`lock[1]` is the number of tasks in
`spin_wait`; by cardinality lemmas), `SpinLockImplementsMutex`. The invariant is the
conjunction: a swap that sees 0 meets nobody inside because the word tells the
truth.

*`SchedulerProofs`.* `TypeCorrect`, `ListsCorrect` (`ReadyOnce`,
`NoNodeAppendedTwice`, `PopFindsNode`), `NobodyIsLost` (`NobodyLost`). The properties are
not inductive by themselves. `IInv` adds:

- `WaitInv`: a task on a list is descheduled or about to be, and `target` names
  the list - so it is on one list only;
- `ReadyInv`: a ready task is on no list, in nobody's hand and not current;
- `HandInv`: what a waker has popped is asleep and on no list, and held once;
- `WakerInv`: a list woken by a task has one waker, and between its test and its
  `list_pop` a descheduled task stays on the list, which only the waker can remove (`Waker` gives one
  waker to each list; two that race on one list are outside `PopFindsNode`);
- `EnqueuedInv`: a task that is about to sleep on a device's list has
  interrupts off, unless it is a tasklet;
- `CurrentInv`: the current task is neither unborn nor asleep, and the root does
  not sleep.

There is a lemma per action; `Dispatch` is treated once (`SwitchStep`) for `Tick` and
`Deschedule`, and so is the waking of a whole list (`WokenStep`) for `IrqWakeup` and
`Exit`. The assumption `QuietSleepers` says that no tasklet sleeps on a list a handler
wakes. It is needed: the handler can make a tasklet ready that is between `list_append` and
`switch_task(0)` of `sleep_on`, and the timer then links its `sched_node` a second
time ("Node is already in a list.", `list.cpp:26`, an assertion that is commented out).
`NobodyIsLost` also assumes `NoThrottleNoDelay`: a task that may not live in a cycle has
been dequeued and is not put back, and after `sleep_until` nobody makes a task ready.

*`SchedulerProofs`, second part.* `ParentsAlive` (`NoFreedParent`) and `ChildrenReaped` (`NoMissedChild`), under
`QuietSleepers`, on top of `IInv`. `TreeInv`: whatever is freed has finished, no task keeps a
freed parent, and kinit, who inherits the children of the reaped, is never freed. For the second,
`Sure` says how long a parent's scan can be relied on: up to `list_append`
the parent keeps the CPU, so no child exits, unless the timer came between; and while it is on
its own wait list a child that exits takes it off.

*`TaskSwitchProofs`.* `InterruptsCorrect` (`SectionsClosed`): of the frames of the current
task that no switch left open, all but the lowest are sections, interrupts are off exactly while there
is one, and the depth is at least their number, and equal to it if the lowest is a section; so
only the end of the lowest brings interrupts back. `RegistersCorrect`
(`RegistersOwn`): while the trap is off the current task owns the registers; otherwise what it
left is in the FPU if it is `fpu_thread`, and in its own area if not.

*`RingBufferProofs`.* `TypeCorrect`, `LoopCorrect`, `RingImplementsFifo`, `SleepersCorrect`
(`SleepersHaveReason`), for every size of the ring and every number of tasks, and for both
specifications that use it: the ring alone and inside `UnixPipe` (`SpecRing`, `PipeRing`: every step
of either is a step of the ring's operations or leaves it alone). The invariant is `TypeOK` and
"whoever is in the loop holds the lock". The contents are the sequence of `Unread` slots from
`readp` on, across the wrap; `PutAppends` and `TakeRemoves` show that a put appends to
it and a get removes its head, which makes every step a step of `BoundedFifo`. `SleepInv` adds for
the sleepers who is on which wait list, that a task that left the list is awake, and that a task
that found nothing found it under the lock: afterwards either that is still so, or the other end
moved a byte and has its `wakeup_queue` to call, or the byte came in the gap (`cut`).

*`PipeProofs`.* `TypeCorrect`, `FifoCorrect` (`FifoUntilYield`), `SleeperCorrect`
(`SleeperMissedByte`) and `PollerCorrect` (`PollerNeverSleeps`), for every size of the buffer, any
number of readers, writers, pollers and handlers. `LockInv`: `lock_read` and `lock_write` each have
one holder, and a pointer is past the end only between the two halves of its holder's increment.
`ContentsInv` gives every slot its byte by its distance from `read_ptr`, across the wrap;
`FoundInv`: a reader about to take a byte found one, and no other took it; `WaitInv` and
`LookedInv`: who is on the list of waiting readers, and that one on its way to sleep saw an empty
pipe that is still empty, unless a byte came in the gap (`cut`) or a handler has woken it
(`queued`). All but `LockInv` and `WaitInv` hold only until a handler yields inside
`write_pipe`: then a second writer runs between the two halves of the first one's increment.
`PollerCorrect` assumes `OneReader`: with a second reader the bytes that `pipe_size` told of may be
gone; in the kernel kinit is the only reader of these pipes.

*`HeapProofs`.* `OverlapCorrect` (`NoOverlap`), `AccountedCorrect` (`CellsAccounted`),
`ListedCorrect` (`PagesListed`), `BestFitCorrect` (`BestFit`) and `SkipListCorrect` (`SkipListSound`), for any sizes of
pages, headers, heap and requests, any number of bins and levels, and any levels that are drawn. None
is inductive without the others: that two blocks do not overlap rests on the stacks, these on
the page lists, and what is taken from a page rests on where the headers are. `HeapInv` is

- `PagesInv`: each page is unused, or holds the cells of one bin, each once, on its stack
  or in use by one block that fits into it, or is a big block, free or one call's;
- `LayoutInv`: a block of pages has `bucket + BigHeader` bytes, ends below the next header
  and below the heap's end, so that a fresh page never had a header;
- `BinsInv`: `PagesListed`, said of the state;
- `SkipInv`: there is an order (`rank`) of the free big blocks by size, and sets `on[i]` of those
  on level i, each within the one below, such that every link leads to the next of its level.

`SkipInv` speaks of the order by its existence because equal sizes stand in the order of their
insertion. On it rest `UpdateEnds` (the walk of each level ends before the first block that is not
smaller, although each starts where the one above ended), `FindBestFits`, `InsertLinks` (the
ranks are doubled to make room) and `DeleteLinks` (the best block stands behind `update[i]` on
every level it is on, so the loop that stops at the first other level leaves none). The walks are
recursive functions: `WalkStep` and `UpdateStep` show that such a function exists. `ChainIs` follows the
links of one level from the head: the ranks fall from step to step, no block of the level is passed over,
and as there are fewer pages than steps the end is reached; so the chain is the level. `HomeFound` finds the
page of a pointer, for `valloc`'s one page back; that needs `ValSizeBig`, no `valloc` is served
from a bin. `SizeAssumption` holds of the constants of `alloc.cpp`: a cell of the largest bin fits
behind a header, what is left of a page is more than `NUM_BINS`, which is how `klfree` tells a big
block, and requests are below 2^30, which is where the model counts bits.

*`Ext2Proofs`.* All of it holds up to the first write of a block without a number (`broken`).
`FreeCorrect` (`FreeCounted`), on a disk of any size: the free count is the number
of clear bits plus the allocation under way plus those cut by crashes. It is inductive with the
types of the counters and "the bitmap is a set of bits"; one lemma on cardinalities does the scan.
`BlocksCorrect` (`BlocksOwned`), for any number of direct blocks, of pointers in a block, of inodes
and blocks: what a pointer names is marked, not the file system's, and named once. `BlockInv` adds

- `AllocInv`: the block that was allocated and the file's next one are `Held` - marked
  and named by nobody -, are two, and the one to be linked as a block of pointers is empty;
- `CopyInv`: the inode in memory is the one on the disk, but for a direct block that is
  about to be written back;
- `SelfInv`: the words in a block of the third level are its own number or a file's data: a write
  through it that has a number goes to that block itself, every other one ends the promise.

Pointers are what `PointersIn` takes from an inode; of an embedded link there are none (`NewInodes`), and
such an inode is never given a block (`CopyInv`: the call that made it is over after its entry).

From "named once" alone it follows that the levels have no block in common (`OuterNotInner`,
`ThirdApart`), hence that no write of a file's block, and none of the third level's
odd links, changes a pointer. `OwnStep` is the general step: all pointers were there before
but one, which names a block that was `Held`; `TableStep`, `WordStep`, `LeafStep` and
`ElsewhereStep` are its four uses. The theorem assumes `FirstDataBlock = 0`; for 1 the run
`ext2_image` shows it false.

`ReadCorrect` (`ReadBack`) and `EntriesCorrect` (`EntriesInitialised`), on the same assumption,
rest on `BlockInv` and on what is known of the files (`FileInv`, `EntryInv`, `TextInv`):

- `LengthInv`: the history `file` is zero past a file's end, an inode that is not marked has
  no blocks, and the inode in memory counts as many as the one on the disk;
- `FilledInv`: every block below the end is there and holds what was written last, or a
  block of pointers on its way is missing, and then no block is free. It is needed because
  `allocate_inode_block` counts a block into the file also when `set_block_number` found none for the
  pointers to it;
- `NextInv`: the block to be the file's next is empty until it is linked, and once the way to
  it is complete it is the one at its end;
- `DotsInv`: a directory or link with a block of its own that has a size has that block, or is being
  made, or was cut by a crash;
- `TextInv`: an embedded link has its target, on the disk and in memory, from the moment it is made.

`RecordsWrite` and its companions carry `LengthInv`, `DotsInv` and `EntryInv` over each call and step;
`WayKept` and `SlotsApart` say that a step which keeps all pointers but those of a set `S`, none of them to a block
of pointers, moves no other block of any file.

*`BootProofs`.* `CallbacksAreKept` (`CallbacksKept`), `ScheduledCallsRunOnce` (`ScheduledRunOnce`),
`LoaderTypes` (`TypeOK`), `DevicesAreFound` (`DevicesFound`) and `LinklessPathsOpen`, for any modules, names, hash function
and orders of the ram disk. First the hash map is shown to be a dictionary: `WellFormed` says
that a key stands once, in its bucket, and `SetFacts`, `RemoveFacts` that `HashSet` and
`HashRemove` keep that and change what is found under no other key. `CallbacksKept` is then
inductive with `OrderInv` (where the loader is; while files are loaded the list is the modules begun with)
and `ListInv` (both maps hold the same, the list names each module once). That a call runs
once is not: nothing in it says that a call stands under one number. `LoaderInv` adds

- `NumbersInv`: the calls put off for a name are numbered without a gap, those that ran are the
  first, the others are in the map under their numbers, no two are the same, and the early ones are
  among them (`Call(i)` is the i-th, wherever it is);
- `QuickInv`: until the module that is waited for comes, none has run and its name is a key of the map,
  so the loop starts when it does; afterwards all the early ones have run;
- `LateInv`: the bucket of the calls for all modules is their list, under the numbers 0, 1, ...;
- `OverInv`: when the files are done the early calls have run, but for the late one.

`LoadQuick` is the step that needs all of it; the numbers stay below the number of `Calls`
(`LoadNumbers`, `LateBound`: by an injection), so the assumption on keys is about finitely many. For
`DevicesFound`, `MountInv` says that a driver whose init or call was run has its file in the
tree; `CanonicalPath`, `MountedDepth` and `WalkNowhere` evaluate `canonicalize_path`, `get_mount_point` and
the loop of `kopen_recur` at such a path. `LinklessPathsOpen` is about every other path on which no link is
met, relative ones and dots included: `kopen`, which starts at the last mount on the path, answers
`NodeAt`, which starts at the root and takes each mount as it comes to it. `Iterated` says that a recursion
along numbers has a solution and `Iteration` that it has one; `CanonicalWords`, `NodesOnPath` and
`WalkLinkless` are its uses. Without a root the path "/" is left out: `kopen` copies from address 0 then.

`ScheduleAssumption` is what this proof rests on: all calls wait for one name (keyboard and mouse, the only
ones, wait for `pipe_driver`), no module's name looks like a key `name_0`, and a disk that has a
waiting module has one of that name (the image is built with all modules). `DeviceAssumption`:
no two drivers mount at one path, none at the serial port's, and none writes dots in it.

*Only model-checked.* Liveness (`SomebodyEnters`, `ReadyRuns`, `WakeupReaches`,
`EveryByteRead`, `HandlerWakes`, `EofReached`, `BrokenPipeSeen`, `CallReturns`): TLAPS does not reason
about fairness here. `OpenFindsFile`, for paths with links: it compares `kopen` with `RealPath`, a
recursion over links into links, which is an induction over data; and it is true of the links of the run
only, not of every table of them (a chain of more than `MAX_SYMLINK_DEPTH` links that is no loop is cut
off). What it says of paths without links is `LinklessPathsOpen`.

## 5. What is left out of the modelled parts

- `Scheduler`: interrupts inside a section under `task_queue_lock`, `wait_lock_tmp` or `tree_lock`:
  those are single steps. The deadlock this hides is listed as a hazard.
- `sleep_until` reads an uninitialised pointer (`process.cpp:225`) and inserts the
  node before whatever it holds: the model takes the outcome in which the node
  ends up in the list. The order in `sleep_queue` has no effect: `wakeup_sleepers` frees
  the expired nodes and wakes nobody (`process.cpp:125-126` is commented out), so the
  "Delay for any other task" of `speaker.cpp:50` never ends.
- `sleep_until` is one step. In the code the owner of the sleep node is set with interrupts on
  (`process.cpp:220`), and `make_task_ready` frees `timed_sleep_node` without clearing it: a tick before
  interrupts are off (222) of a second `sleep_until` deletes the old node a second time.
- Heap lifetimes: a child that exits after its parent reads the parent's freed
  wait list; the model takes its length as 0.
- The guard "Do not let the main task kill itself" (`task.cpp:195`) tests pid 0 while
  the main task has pid 1; `RootExits` lets the root exit, which the code does not stop.
- `kexit` of user tasks (interrupts are off in the grave then), thread groups,
  `fork`, `task_clone`, descriptor tables, page directories and stacks.
- Signals: nothing that runs sends one, so the signal parts of `switch_task` do
  nothing.
- `TaskSwitch`: the chains of handlers of one interrupt and their installation. The save into
  the freed memory of a dead owner is taken to have no effect on others. "If the FPU has not been used
  in this thread previously, we need to initialize it." (`fpu.cpp:87`) is not done for a new task
  whose address is still `fpu_thread`: it keeps what is in the FPU (`heirs`).
- `Pipe`: the pipe of the keyboard. kinit asks `serial.is_ready()` before it looks at the serial port's
  (`ktest.cpp:56`), which is not modelled: what is said of polling says nothing of that one.
  No tick between the two halves of its `sleep_on` (that is `Scheduler`'s
  subject), at most one suspended handler per task, some other task ready when all
  of the modelled ones sleep, no writer that is a task, no `dead` pipe. After a
  handler has given the CPU away on a full pipe, `FifoUntilYield` promises nothing:
  its `++write_ptr` and `write_ptr = 0` can be apart, a reader that wraps to 0 in
  between finds the pointers equal only after reading the whole buffer once more.
- `RingBuffer`: an iteration of the loop under the lock is one step (`LoopExclusive`
  says why it may be), `wakeup_queue` and `sleep_on` are single steps, other tasks are
  ready when these sleep, `ring_buffer_destroy` has no caller. A read of 0 bytes never
  returns in the code and is not made.
- `UnixPipe`: `read_unixpipe` looks at the pointers without the lock; this is one
  step, which is exact for a single reader (only `write_ptr` moves, and no torn view of
  it turns bytes into none). `handle_signal` only ends the call. A reader or
  writer may stay asleep past a close in three cases, which `EofReached` and
  `BrokenPipeSeen` except: it was between its last look and its `sleep_on`, another
  task cleared the one `internal_stop`, or both ends were closed and neither close
  interrupted.
- `Heap`: each call is one step, since it holds `mem_lock` throughout (`SpinLock`). The addresses
  `sbrk` gives are consecutive. Contents, `newest_big`, `prev` and `next` of big blocks
  have no effect on what is returned. `realloc(p, 0)` ends the behaviour with the lock
  held ("free the pointer and return NULL", `alloc.cpp:884`, calls `free`, which waits
  for `mem_lock`); no caller passes 0 at present. `realloc` of a `valloc` pointer would
  look for its header in the wrong page and has no caller either.
- `Ext2`: one task writes; `fs->lock` covers single blocks only, and two writers would be given one
  block. A block is written whole: ATA writes sectors, two for a block of 1024 bytes, and a crash between
  them is not modelled. The entries of a directory always have room. `ext2_unlink` uses the inode it has
  freed (`ext2.cpp:386`, `394`); the model takes the value it had. Two ways lead to a write that has no
  block number (`broken`). A block of pointers is missing because the disk was full and
  `set_block_number`'s failure is not looked at: the number is read from memory nobody wrote. Or the
  block is on the third level: its block of pointers names itself (`ext2.cpp:969`, against "Set the
  "real" block number", `ext2.cpp:867`), and the block allocated is named nowhere: the first write goes
  over it, and the next one takes a word of the file for the number (`ext2.cpp:855-858`). In the model
  such a write hits nothing or any block, the file system's own included (their bits, inodes or entries
  are then all of one kind, which stands for what the words happen to be); no call begins after it and
  nothing is promised. What was written to the third level reads back wrong before that already
  (`ReadBack` ends below it). The last inode of a group is written to no place (`ext2.cpp:1163` divides
  before it takes 1), an exception of the properties.
- `ModuleLoader`, `Boot`: relocation and symbols (`elf.cpp`). A behaviour ends where the code would
  use a null pointer: a pipe asked of `unixpipe.cpp`, whose module has the name of `pipe.cpp`'s, and the
  second late call, read beyond a map of one bucket. `module_remove` by number takes the length of the
  list for an index too (`module.cpp:24`, `list.cpp:158`), where there is no module; the model takes those there are.
  The calls put off are numbered over all names and run up to the first gap,
  so a second awaited name would miss its call ("could be more than 1",
  `module.cpp:230`); every module waits for `pipe_driver`.
- `Vfs`: reference counts. Directories on the way of a path go from 0 to -1 at `fclose` and are never
  freed; a leaf reached by a link is opened twice. A link's target is shorter than `MAX_SYMLINK_SIZE`,
  and reading it does not fail (the answers -3 and -4, `vfs.cpp:672-681`).
  `map_vfs_directory` gets null from `vfs_mount`, so a directory of mounts lists nothing. `fs_mkdir`,
  `fs_unlink` and the like have no caller, and the only paths opened now are `ktest.cpp`'s and `/dev/hda`.
- Serial: `serial_cback` reads through `serial.read()`, which gives back the byte kept before instead of
  the new one, and `read_async` drops the new one: until `ktest.cpp` calls `flush`, the pipe gets
  the old byte again. One actor alone, seen by reading; no model was made of it.

### Not modelled

Signals, exceptions and descriptor tables, PIT callbacks, CMOS clock, paging, ATA, system calls, ELF,
initrd, PCI, terminal, video, the C library, ring 3. Either nothing that runs calls them (signals, `fork`,
`exec`, system calls), or they are port I/O, tables, arithmetic and parsing without interleaving. The
notes in `PROJECT.json` give the reason for each.

## 6. Plan

What would come next, in this order.

1. `Scheduler` with the sections under `task_queue_lock` opened up, to show which handlers meet
   a lock that their host holds.
2. Reference counts of open files, and `PitCallbacks` with the hole an uninstall leaves.
3. Signals and `fork`, once something that runs uses them.
