# A verification project for Tacos

Tacos is a small kernel for one RISC-V hart: preemptive kernel threads with
priorities and priority donation, semaphores, locks and condition variables, a
page allocator and a heap, a file system on a virtio disk, and user processes in
address spaces of their own.  This directory
holds TLA+ modules that model its core, the TLC configurations that check them
on small instances, and proofs that TLAPS checks for all instances.
`PROJECT.json` maps each definition to the lines it models.

## 1. Inventory

| component | state | operations | talks to |
|---|---|---|---|
| thread manager (`thread.rs`, `thread/manager.rs`, `thread/imp.rs`) | current thread, run queue, `all`, status, priorities | spawn, exit, schedule, block, wake_up, set_priority, sleep | scheduler, timer, every primitive |
| schedulers (`thread/scheduler/*`) | a deque, or one per priority | register, schedule, update_priority | called by the manager |
| sleep queue and timer (`sleepq.rs`, `sbi/timer.rs`) | clock, heap of wake times | tick, push, pop | wake_up |
| trap handler (`trap.rs`, `trap/pagefault.rs`) | CSRs, trap frames on the stacks | entry and exit for user and kernel, timer, external, ecall, page fault | tick, schedule, driver, exit |
| semaphore (`sync/sema.rs`) | value, waiters, the interrupt bit saved by each call | down, up, get_maxpriority | block, wake_up, schedule |
| sleep lock (`sync/sleep.rs`, `thread/imp.rs`) | holder, records of donations, stored priorities | acquire, donate, release | semaphore, schedule |
| mutex, condition variable (`sync/mutex.rs`, `sync/condvar.rs`) | list of waiters' semaphores | wait, notify_one, notify_all | semaphore, lock |
| interrupt lock, once, lazy (`sync/intr.rs`, `once.rs`, `lazy.rs`) | saved bit, state of the cell | acquire, release, call_once | interrupts |
| page allocator (`mem/palloc.rs`, `mem/utils/list.rs`) | free lists by order | insert_range, alloc, dealloc | heap, page tables |
| heap (`mem/malloc.rs`) | descriptors, arenas | alloc, dealloc | page allocator |
| page tables (`mem/pagetable.rs`) | entries, the effective table | map, destroy, clone, activate | page allocator, switch, drop of a thread |
| free map (`fs/disk/free_map.rs`) | a bit per sector | alloc, in_place_alloc, dealloc, load, flush | inodes |
| disk file system (`fs/disk.rs`, `inode.rs`, `dir.rs`) | inodes on disk and in memory, root directory, inode table | create, open, remove, read, write, resize, close, mount, unmount | free map, driver, locks |
| virtio driver (`device/virtio.rs`, `plic.rs`) | descriptors, rings, one semaphore, a Lazy cell | read_sector, write_sector, interrupt, claim, completion | semaphore, mutex, trap, device |
| user processes (`userproc.rs`, `userproc/load.rs`) | address space, first trap frame | execute, start, exit; wait is a stub | loader, page tables, trap exit |

What is hard in it:

* **Preemption.**  The timer trap may be taken wherever interrupts are on, and
  its handler turns them on again before it calls `schedule()`, so that traps
  nest on one stack.  `schedule()`, `down()` and parts of `up()` and `sleep()`
  run with interrupts off; everything else is interleaved.  Each of them saves the
  interrupt bit of its caller and restores it, across switches.
* **A switch runs on two stacks.**  `schedule_tail` deals with the previous
  thread on the stack of the next.
* **State that is checked under one lock and used under another**: the two
  halves of `register()`, the holder in `acquire()`, the donation that is
  stored before it is recorded, the lookups of `create()` and `open()`.
* **Borrows and locks held across a switch**: `notify_all()`, `remove()`, and the
  holder of a sleep lock, whose cell `acquire()` and `release()` borrow with
  interrupts on.
* **A reset without unmount.**  The free map is written by `unmount()` only, inodes and
  entries at once; the panic handler resets the machine without it.
* **Registers of the hart.**  `sscratch`, `sepc`, `stvec` and `sstatus` are one set
  for all threads, and `switch` saves none of them.
* **A device that works at the same time**: it fills a ring that the driver reads,
  and its interrupt is claimed, handled and completed on the stack of a
  thread that has nothing to do with it, perhaps with a switch in between.
* **Shared ownership**: whoever drops the last `Arc` of a thread frees its
  address space.
* **Boundaries**: memory ranges aligned at neither end, blocks next to an
  arena's header, the slack of a lazily shrunk file.

What makes each part correct is stated as the properties of section 4; the list
of hazards in `PROJECT.json` names the line where each can go wrong.

## 2. Modules

| module | models | state and actions |
|---|---|---|
| `Threads` | manager, threads, sleep queue, timer trap | `current`, `status`, `rq`, `all`, `prio`, `sleepq`, `ticks`, one `pc` per thread; one action per stretch of code between two points where a trap may come |
| `SchedulerContract` | the trait `Schedule` | `KeepsContract`: what the manager needs of a scheduler, as an assumption on the constants; `ServesHighest`: what the priority scheduler promises beyond that; `ThreadInv`, the invariant of the manager on such a scheduler |
| `PriorityScheduler`, `Fcfs` | its two implementations | operators on queues, `update_priority` as a recursive function |
| `Deques` | `VecDeque::retain`, as `delete_donation` and `update_priority` use it | an operator on sequences |
| `Semaphores` | `Semaphore`, EXTENDS `Threads` | `value`, `waiters`, the saved bit `old`; `DownTake`, `DownBlock`, `UpFree`, `UpWake` say what a call does, the callers add where they are; `Mask` and `Unmask` are callers that turn interrupts off and on |
| `SleepLocks` | `Sleep`, EXTENDS `Semaphores` | `holder`, `donationq`, `stored_prev` and the locals of `acquire()`, `release()` and `find_and_donate()`; an expression that borrows the holder's cell is two steps, and the cell is borrowed in between |
| `Condvars` | `Condvar` and `Mutex`, EXTENDS `Semaphores` | the list `cv`, the guard, the local index of `notify_all()` |
| `BuddyAllocator` | `BuddyAllocator`, `Palloc`, `InMemList` | `free_lists` by order, and `refused`, the request that `alloc` has panicked at; `alloc` and `dealloc` as operators, an action for each call |
| `Heap` | `Desc`, `Arena`, `Heap`, EXTENDS `BuddyAllocator` | free blocks of each class, arenas, spilled allocations |
| `FreeMap` | `FreeMap` | operators on the set of taken sectors |
| `DiskFs` | `DiskFs`, `RootDir`, `Inode`, `File`, EXTENDS `FreeMap` | `bits`, `disk`, `dir`, the Inodes in memory with their strong counts, the table, the holders of two locks, the free map on disk, one `pc` per thread; `Unmount` and `Reset` may come between any two steps |
| `Virtio` | driver, PLIC, external interrupt, `Lazy`/`Once`/`Intr` of the driver | the rings, the semaphore, the two interrupt bits, the state of the cell; one action per step of a call, of the handler, and of the device (external) |
| `SectorDisk` | what `read_sector` and `write_sector` promise | a disk on which each call takes effect at one moment; `Virtio` implements it |
| `Traps` | `trap.rs`, `pagefault.rs`, `start()`, `switch` | mode, CSRs, `pc`, `sp` and the frames on each stack; entry is one step, `trap_exit_u` one step per `csrw` |
| `AddressSpace` | `PageTable`, `KernelPgTable`, `execute()`, loader, drop of `Thread` | page tables as a function from pages to entries, `satp`, the phases of a process, the Arcs of `Manager::all`, the two locks of `register()`, the two steps of `schedule_tail` |
| `ThreadsProofs` | | the proofs about `PriorityScheduler`, `Fcfs` and `Deques`, about `Threads` and about `Semaphores` |
| `SleepLocksProofs`, `CondvarsProofs` | | the proofs about what runs on semaphores; both use `ThreadsProofs` |
| `HeapProofs` | | the proofs about `BuddyAllocator` and about `Heap`, with its refinement of the former |
| `VirtioProofs`, `TrapsProofs` | | the proofs about `Virtio`, with its refinement of `SectorDisk`, and about `Traps` |
| `AddressSpaceProofs`, `DiskFsProofs` | | the proofs about `AddressSpace` and about `DiskFs` |
| `MC...` | | values of the constants for TLC |

**Steps.**  In `Threads` and above, only the current thread executes, and a step
is a stretch with interrupts off or between two such stretches.  `Manager::schedule`
is one step up to the end of `schedule_tail`, because interrupts are off all
through it; the thread that is switched out goes on from its `pc` later.  An
atomic operation is one step, and so is a stretch with an `Intr` lock taken, as each of the
two in `delete_donation()`.  Where the code does
several such operations in a row and no property tells their order apart, they
are one step: the two loads of priorities in `donation_wrapped`, the reads of
`stored_prev` and of the thread's own records in `release()`, the loop of
`notify_one()` over its waiters, the counters of a spilled allocation.

**Borrows.**  `self.holder.borrow_mut().replace(thread::current())` takes the borrow before
it evaluates its argument, and `thread::current()` turns interrupts off and on again: a
timer interrupt that has become pending is taken with the cell borrowed.  So
each expression of `sync/sleep.rs` on the holder is two steps, one that borrows and one that
uses the cell and gives it back.  A second borrow that meets the first is a panic
(`"borrow"`), unless both only read.

`Virtio`, `Traps` and `AddressSpace` do not extend `Threads`: the scheduler's choice
is left open there, so that they hold for any.  In `Virtio` a woken waiter may or
may not preempt the interrupted thread.

**Composition.**  `Heap` runs on `BuddyAllocator` itself: the allocator's properties
are checked for the calls the heap makes, and `UsesPalloc` says that each of them is
a step the allocator's own specification allows.  `SleepLocks` and `Condvars` run on
`Semaphores`, that on `Threads`, that on a scheduler.

**Panics.**  An assertion that fails sets `panic` and stops the model, as the
panic handler shuts the machine down.  Which assertions can fail is a question
for the properties, not an assumption.

**Abstractions.**  Stacks, registers, names and output are left out.  Priorities
run from 0 to `MaxPrio`.  The mutex in `Condvars` is a sleep lock without
donation and without the holder's cell, which are the business of `SleepLocks`; threads do not
sleep in those two modules.  The callers of `Semaphores` may have interrupts off; those of
locks and condition variables have them on.  (A lock is taken with interrupts off in one
place: `schedule_tail` may drop the last Arc of a dead process, whose File is then closed.  The
`schedule()` of that lock's `release()`, inside `schedule_tail`, is not modelled.)  A heap request of size 0 is left out, as Rust never passes one.  In
`DiskFs` the locks are taken to exclude (`SleepLocks` is about that), a file has
no bytes, and a sector holds an inode or data, which is what `Inode::open` can
tell apart.  `deny_write`, positions and the swap file are left out.

A `Reset` of `DiskFs` may come at any step of any call, for any part of the kernel may
panic; memory is lost, and the free map is the one on disk, which is empty before the
first `unmount()`, as `new_format` does not write it.  If that map has all sectors that are
taken, life goes on.  If not, `panic` is `"torn"`: the next `create()` may hand out the sectors
of a file or of the directory, and what follows is not modelled.  The map is written in one step.

In `Virtio` the mutex around the driver is taken to exclude.  The device is
modelled from what the driver relies on and, for the interrupt, from the PLIC of
QEMU: a source becomes pending when the device raises its line, and is not
signalled again before its completion.  The cell of `USED_RING_NOTIFICATION` is
taken to be initialised.  The two kinds of masking are kept apart: `off` is the
level of `sbi::interrupt::set`, which each thread saves and restores for itself;
`sie` is the bit of `sstatus`, of which there is one.

In `Traps` the masking by `sbi::interrupt::set` is left out, so that traps may come
where the code shuts them out: more behaviours, not fewer.  Registers other
than `sp` are left out, and so is the content of memory that a frame on a wrong
stack overwrites.  Page faults in supervisor mode panic or belong to `userbuf`, which nobody
calls; the kernel as modelled takes none.

In `AddressSpace` there are three levels of tables, of two entries for TLC and of any
number for the proofs; an entry is absent, a leaf or a pointer, global or not.  The pages
of segments are disjoint from each other and from the stack, and user pages have other
root entries than the kernel, which lies in the upper half: the linker script of user
programs (`user/lib/user.ld`) and `init_sp` see to that, and `SpaceAssumption` says it.
The lock of a table
is an `Intr` lock, and building a table is not interrupted by other users of it.  The Arcs of
a process are those of the scheduler and of the running thread, which go with the
switch away from it, that of its loader, and that of `Manager::all`.

**Mutants.**  Definitions with a suffix and a comment that begins with "Mutant"
are the plausible mistakes that `PROJECT.json` lists; each run must notice those
that are aimed at its properties.  No specification uses them.

## 3. Assumptions and bounds

Every bound is a constant with "bound" in its comment.

* `MaxTicks`: the clock saturates; `sleep()` past it is not started.  Three ticks
  let two sleepers be due at once, at different times and out of order.
* `MaxNest`: traps on one stack.  Two are enough for a trap inside the handler
  of another; with one, a trap may still come between any two steps.
* `MaxValue`, `MaxWaits`, `MaxAcquires`, `Setters`: calls.  Three threads beside
  the idle thread, two acquisitions for the one in the middle of a chain.  Of the
  locks only that thread uses both, and it has the highest priority; the thread at
  the end of the chain may set its priority back after a donation, and the one at
  the beginning then passes on more than it has itself.  That is the hardest case of
  `DonationPreempts`; what `locks` checks is proved for any number of threads,
  priorities and locks (section 5).
* `MaxBlocks`, `Start`, `End`: six pages from page 3 to page 8, so that neither
  end is aligned; orders up to 2, requests of 1, 2 and 3 pages, limited by the
  pool alone; two small blocks at a time, from two descriptors.
* `Lens`, `MaxCalls`, `MaxInodes`, `MaxBoots`: sectors of two bytes, so that a
  length of 3 ends in the middle of one; five free sectors, so that files are
  neighbours, have to move, and run out of space; four calls by two threads
  in any shares, and closing a File is not counted; two resets, so that a map that an
  earlier boot has written is mounted again after a reset without `unmount()`.  An Inode is opened only while
  fewer than `MaxInodes` are in memory (`Room`); three are enough for these calls.
* `QUEUE_SIZE` and `IdxMod` are both 2, so that the ring indices wrap with every other
  request; one sector and two values, one reader and one writer, and as many
  requests as they like.  One trap frame per stack (`Interruptible`): nested traps
  are the subject of `Threads` and `Traps`.
* `MaxFrames`: three frames on one stack, enough for a trap inside a handler
  inside the window of `trap_exit_u`.
* `KPages`, `UPages`: enough for two processes, and few enough that the pools are
  exhausted in some behaviours.

**Fairness.**  Three runs assume some.  In `Threads`: the timer re-arms itself
and its interrupt stays pending until it is taken: strong fairness of
`TimerInterrupt`, because interrupts may be off again and again.  A handler that
has been entered runs on: weak fairness of `TrapStep`.  Nothing is assumed of
threads; they may compute for ever.

In `Virtio`, for `RequestsReturn`: the processor does not stop in the code of driver, cell and
handler (weak fairness of those steps), and a thread in the driver that runs again and
again gets on with its call (strong fairness of its steps); the device serves what it was
notified of (weak); a pending interrupt is taken if that is possible again and again
(strong, as SIE and the level may forbid it for a while).  Nothing is assumed of threads
outside the driver, of the timer or of the scheduler: a thread may compute for ever and
is not made to yield, with SIE clear or set.  In return the property says: unless a thread that
could go on is passed over for ever, by one that computes.  That is the case after
the switch in the external handler, where SIE is clear and the completion not
written, or if a thread's priority is too low.
Waiting for the mutex is not part of the property, since a sleep lock goes to
whoever comes first.

## 4. Runs

Passing runs:

* `threads_priority` (3 threads, sleeping, nested traps): TLC evaluates `Contract` and
  `HighestFirst` for `PriorityScheduler` on every queue, and checks the
  inductive invariant `ThreadInv` and what it is for: `ReadyExact` (the run queue
  holds exactly the Ready threads) and `ManagerSafe` (the manager's assertions).
  The run also checks `HighestPriorityRuns`, `AllCoversLive`, `NoOversleep` and
  `SleepersStayBlocked`.
* `live_fcfs`: the contract for `Fcfs`; every Ready thread runs (`ReadyRuns`) and
  every sleeper runs again (`SleeperRuns`).
* `live_priority`: threads of the highest priority are served in turn
  (`TopReadyRuns`), with four threads, because it takes three that compete.
* `sema_priority`: `NoLostWakeup`, `WaitersBlocked`, `InterruptsRestored` (outside `down()`'s loop
  and `tick()` a thread has the interrupts that its own code has chosen, which `level`
  remembers; `intr` is what the saved bits have made of it).  The threads turn their
  interrupts off and on around their calls, and a thread that is woken in vain goes
  through the loop again: a `down()` that saved the bit in each turn is noticed.
* `locks`: `MutualExclusion` (one guard at a time, and the recorded holder is its
  owner), `DonationPreempts` (a donation takes effect at once although the
  acceptor is queued), `OnlyHolderPanics` (of all that `acquire()`, `release()` and what they
  call may panic on, only the `unwrap()` of the holder and a borrow of its cell can fail, and
  the thread that has the cell borrowed then is not Blocked).  Both failures are real,
  see below.
* `condvars`: `NotifyExactlyOnce` (no notification is lost or doubled, wherever in
  `wait()` the waiter is), `CondvarSafe` (one guard at a time, and no borrow of the
  list meets a `notify_all()` that has been switched out).
* `heap`: of the page allocator `PagesPartitioned` (free and allocated pages make up
  the range, and the counter agrees), `FullyMerged` (no two free buddies, and all
  is whole again when all is given back), `RefusesOnlyWhenFull` (a request that fails
  finds a block handed out in every aligned place of its own rounded-up size); of the heap `BlocksSafe` (blocks do not meet each other or
  the header of their arena), `FromBlockHolds` (the arena is found from any of its
  blocks); of the two together `UsesPalloc`.
* `fs`: `SectorsDisjoint`, `DirSound`, `MemoryMatchesDisk`, `FilesAlive`.  They hold
  until `Inode::open` is given a file that is already open or removed, or a free map is
  mounted that lacks sectors taken since it was written: stale lookups, and resets
  that come between the taking of a sector and the next `unmount()`, are the two sources
  of corruption.  Other resets, with or without `unmount()` and at any point of the calls, do
  no harm: sectors may stay taken for good, but none is shared.  `SectorsAccounted`, an action property:
  short of a reset, sectors are lost in two ways only.  `close()` rounds the slack of a
  lazy shrink down (three bytes cut to none, in sectors of two) and leaves the last sector
  of it taken.  And a `create()` that has found the root directory full leaves a file
  without an entry, which is lost as a whole when its last Arc is dropped: another thread
  may have got it from the table in the meantime, by an old inode number, and have written
  to it.
  The run also checks for deadlock, and the action `Rest` names the only one there is.
* `virtio`: `AtomicSectors`, the refinement: under the mapping `Phase` each behaviour of
  the driver with its device and interrupts is one of `SectorDisk`.  `QuietWhenFree`
  (a request leaves no notification, interrupt or ring entry to the next),
  `DriverAssertions` (of its assertions only that on the status byte can fail, and
  only if the device has failed), `LazyOnce`, `MaskedUntilCompletion` (the PLIC's
  claim and SIE agree across the switch that `up()` makes inside the handler), and
  the liveness property `RequestsReturn` (who has the driver gets an answer, unless a thread
  that could go on is passed over for ever).
* `traps`: `UserContext` (in user mode the hart is set up for the next trap of this very
  process), `ReturnsHome` (a process that has got to its user code always
  comes back to it), `OwnStack` (frames are stored on the interrupted thread's own
  kernel stack, but for one window).
* `addrspace`: `SpacesSound` (no table that is in use is freed, spaces are disjoint,
  the kernel is mapped in each) and `NothingLeaks` (every allocated page has an owner, and a dead process whose loader has
  let go of it is dropped, unless it died between the two locks of `register()`).

A run that TLC must find violated, because a test says otherwise:

* `locks_restore`: preempted between a donation and its record, the acceptor
  keeps the donated priority and the donner ends up with the acceptor's.

Further places where the models reach a failed assertion or a surprising state,
and no run is devoted to it:

* `sleep()` turns interrupts on before `block()`; a tick in between passes `wake_up()` a
  thread that is not Blocked, which fails its assertion (`thread.rs:74`);
* after `block()` has marked the thread in `sleep()`, a tick may wake it while it
  is current; the next switch reaches `unreachable!()` in `schedule_tail`.  The
  properties about the manager say "unless `selfWoken`" for this reason;
* two calls of `up()` before the first woken waiter runs fail `assert_eq!(count, 0)`;
* the holder may release the lock between the test and the `unwrap()` of
  `acquire()`, which then panics;
* a thread that is preempted while it has the holder's cell borrowed, as in
  `replace(thread::current())` (`sync/sleep.rs:83`), makes the next thread that borrows it panic;
* `find_and_donate()` passes on what the threads of the chain have, not what the caller
  has: if the last of them has called `set_priority()` since, a caller of low priority
  raises it above itself, and runs on until the `schedule()` that ends the donation;
* a thread that runs and exits before its spawner finishes `register()` is
  entered into `all` after its death and never taken out again; if it is a process, its page
  tables and pages are never freed;
* on a disk that the kernel has formatted itself, a panic before the first `unmount()` leaves an empty
  free map, and the next boot hands out sector 0;
* `notify_one()` counts a waiter that has not got to `down()` as priority 0, and may
  pass it over;
* `create()` of an existing file that is not open makes an Inode that the table does
  not know, and the next call makes another (`fs/disk.rs:145`);
* the frame that `start()` makes has SIE set, so that on its first way to user mode a
  process may be interrupted after `stvec` is `trap_entry_u` and before `sscratch` holds
  the kernel stack, which the comments at `trap.rs:134` and `trap.rs:264` rule out.
  The trap is then handled on whatever stack `sscratch` names.  `OwnStack` and
  `ReturnsHome` make this exception and no other;
* `Virtio::get()` releases a mutex inside the closure of its `Lazy`, which calls
  `schedule()` with the Intr lock of the cell taken; a second thread that uses the
  disk for the first time then panics in `acquire()`.  `LazyOnce` says that this
  is the only way the cell fails;
* `up()` in the external handler may switch threads with SIE clear and the claim open; the
  thread that runs next is not preempted, and no disk interrupt comes, until a
  switch brings back a thread from a timer trap, or the interrupted one;
* `remove()` of a file that nobody has open waits for a lock it holds;
* the second lookup of `create()` and `open()` may fail its `unwrap()`; extending a
  file whose neighbours are free up to the end of the disk asserts; a file
  that shrinks within a sector's rounding leaves a sector taken for good.

## 5. Proofs

Every theorem holds for all values of the constants that satisfy the named
assumptions: any number of threads, priorities, semaphores, locks, sectors,
trap frames, ring entries, page tables, pages, requests for memory and programs, and
any value of the bounds of section 3.

| module | theorem | what it says |
|---|---|---|
| `ThreadsProofs` | `FcfsKeepsContract`, `PriorityKeepsContract` | both schedulers keep the contract |
| | `PriorityServesHighest` | `schedule()` returns a thread of the highest priority |
| | `ThreadInvariant` | always `ThreadInv` |
| | `ManagerAssertions`, `ThreadsCorrect` | always `ManagerSafe`; always the types, `ReadyExact` and `OneRunner` |
| | `SleepersBlocked`, `AllOnRecord`, `NobodyOversleeps`, `HighestPriority` | always `SleepersStayBlocked`, `AllCoversLive`, `NoOversleep`, `HighestPriorityRuns` |
| | `SemaInvariant` | always `ThreadInv`, `SleepInv` and `SemaInv` |
| | `WakeupsNotLost`, `WaitersAreBlocked`, `InterruptsComeBack` | always `NoLostWakeup`, `WaitersBlocked`, `InterruptsRestored` |
| `SleepLocksProofs` | `LockInvariant`, `LocksExclude`, `OnlyHolderFails` | always `LockInv`, `MutualExclusion`, `OnlyHolderPanics` |
| | `DonationsPreempt` | with a scheduler that serves the highest priority first, always `DonationPreempts` |
| `CondvarsProofs` | `CondInvariant`, `NotifiedOnce`, `CondvarsSafe` | always `CondInv`, `NotifyExactlyOnce`, `CondvarSafe` |
| `VirtioProofs` | `VirtioInvariant` | always `VirtioInv` |
| | `AssertionsHold`, `LazyRunsOnce`, `NothingLeftOver`, `MaskedOnlyWhileClaimed` | always `DriverAssertions`, `LazyOnce`, `QuietWhenFree`, `MaskedUntilCompletion` |
| | `SectorsAtomic` | the driver implements `SectorDisk` |
| `TrapsProofs` | `TrapInvariant`, `UserModeReady`, `AlwaysHome`, `StacksOwned` | always `TrapInv`, `UserContext`, `ReturnsHome`, `OwnStack` |
| `HeapProofs` | `BuddyInvariant` | always `BuddyInv`, of any caller of the page allocator that gives back what it has |
| | `PagesStayPartitioned`, `AlwaysFullyMerged`, `PanicsOnlyWhenFull` | always `PagesPartitioned`, `FullyMerged`, `RefusesOnlyWhenFull` |
| | `HeapInvariant` | always `HeapInv` |
| | `HeapBlocksSafe`, `HeapFromBlockHolds` | always `BlocksSafe`, `FromBlockHolds` |
| | `HeapUsesPalloc`, `HeapKeepsPages` | the heap implements `BuddySpec`, so the pages under it keep the allocator's properties |
| `AddressSpaceProofs` | `SpaceInvariant`, `SpacesAreSound`, `NoPageIsLost` | always `SpaceInv`, `SpacesSound`, `NothingLeaks` |
| `DiskFsProofs` | `FsInvariant` | always `FsInv` |
| | `FilesAreDisjoint`, `EntriesNameFiles`, `InodesAreFlushed`, `OpenFilesLive` | always `SectorsDisjoint`, `DirSound`, `MemoryMatchesDisk`, `FilesAlive` |
| | `SectorsStayAccounted` | each step keeps to `SectorsAccounted` |

**Assumptions.**  `ThreadAssumption`, `SemaAssumption`, `LockAssumption`,
`CondvarAssumption`, `VirtioAssumption`, `TrapsAssumption`, `SpaceAssumption`,
`BuddyAssumption`, `HeapAssumption`,
`DiskSizeAssumption`, `DiskFsAssumption` and `NothingAssumption` are about
the constants only, and TLC evaluates each.  That the disk has room for the map and the
root directory is part of `DiskFsAssumption`: on a smaller one `DiskFs::mount` fails, and with
it the `expect()` of `DISKFS`.  `HeapAssumption` asks for what the sizes in `mem/malloc.rs`
have: pages and alignments are powers of two, no alignment is above a page, the header of
an arena is not larger than a `Desc`, and after a `Desc` a page has room for a block of each class.
Without the third, blocks would run past the page, for `Desc::new` counts with one size and
`get_block` with the other.  `KernelAssumption` is one of them too: what
`KernelPgTable::init_inner` builds at boot, a fold over the kernel's pages, are three levels
of global entries in which each kernel page is found.  The provers cannot show what a
fold computes, so the proofs start from this; TLC evaluates it on the instance of
`addrspace`.  `Contract` is the assumption on the scheduler, under
which `ThreadsProofs`, `SleepLocksProofs` and `CondvarsProofs` stand; `FcfsKeepsContract` and
`PriorityKeepsContract` prove it of the two schedulers there are, for queues that
hold no thread twice, and use none of it.  `HighestPriority` has one hypothesis
more, `HighestFirst`, which `PriorityServesHighest` proves of the priority scheduler
and which the first-come one does not keep.

**Until a tick wakes the thread it interrupts.**  Where threads sleep, the tick that
comes between the two halves of `sleep()` breaks the manager (section 4), and what the
theorems of `ThreadsProofs` say, they say of the states before that:
`~selfWoken`.  `NobodyOversleeps` needs no such condition.  In `SleepLocks` and
`Condvars` nobody sleeps, `selfWoken` stays FALSE, and the theorems have no condition
at all.

**The schedulers.**  A queue is a sequence, and register, retain, pop and the
concatenation of deques each have a lemma that says which elements the result holds and
that none is held twice.  `Retain` and `update_priority` are recursive functions, about
which the provers know nothing: that such a function exists, and what holds of its
values, is shown by a least counterexample, with the well-foundedness of the natural
numbers from the library (`LeastNatural`).  For `update_priority` the invariant of the
loop is that after turn `i` nobody is lost and the deques up to `i` hold threads of
their own priority only; a thread moved back to a lower deque belongs there.

**The manager.**  None of the properties is inductive alone: that `schedule()` finds
a Ready thread needs the idle thread to be Ready or Running, that it is needs
`pc[Idle] = "run"`; that `spawn` and `set_priority` end in well-typed states needs
the local values to fit the `pc`.  `ThreadInv` is their conjunction.  Lemma
`ScheduleKeeps` does the work: from statuses that agree with the queue, a call of
`schedule()` fails no assertion and leaves them in agreement, whatever status its
caller has just set for the current thread.  Each action then is a call of
`schedule()`, a `Register`, or leaves the manager alone.  On top of it `SleepInv` places
every entry of the sleep queue in the calls of `sleep()`, `AllInv` every living thread in
`all` or in the hands of its spawner, and `ClockInv`, which needs nothing else,
the clock before the earliest entry outside `tick()`.

**Semaphores, locks, condition variables.**  `SemaInv` adds that exactly the threads on
the lists are Blocked in `down()`, that a
positive value with waiters has a woken thread coming for it, and of the interrupts three
things: outside the loop and `tick()` they are as the thread's code has chosen, what a
thread inside `down()` or `up()` has saved is that choice (`SavedLevel`), and the tick has
interrupted no thread that masks it (`TickTaken`).  The second is what makes the first
inductive.  `LockInv` counts each lock once:
its unit is in the semaphore, with the one thread that has passed `down()`, or on its
way in `release()`; whoever has a guard, or is in `release()` before the cell is cleared,
is the recorded holder (`HolderKnown`), so that the assertion and the `unwrap()` there hold;
who has a cell borrowed is not Blocked (`BorrowersAwake`); the locals of `find_and_donate()` and the records of donations only
have to be well typed for `release()` not to fail, which is why mutual exclusion
survives every confusion of priorities.  Nor does `DonationPreempts` need to know how the
donations came about: from `SchedulePicksTop` every call of `schedule()` leaves nobody of
higher priority waiting, and a step that changes a priority or a status without calling
it ends at a place from which the thread goes straight on to it.  `CondInv` puts the semaphore of each wait
in exactly one place: in the list, in the hands of a notifier, or notified.

**The driver.**  `VirtioInv` follows one request through the rings: who has the
mutex, whether the device has been notified and has answered, where the interrupt is
(line, pending, claimed, handled) and where the notification is.  At most one of
them is under way, from which each property follows.  The refinement then goes
action by action: only the steps that complete a request change the abstract disk.

**Traps.**  `TrapInv` says for each place in the entry and exit code which CSRs already
have their values for the thread that runs, and that switched-out threads have theirs in their
frames; `frames` are tied to `pc` and to the window on the first way out.

**The page allocator.**  A block is `<<first page, order, pages asked for>>`.  `BuddyInv` says
that the blocks on the lists and those handed out are a `Partition` of the range: aligned,
inside it, disjoint, covering.  Splitting and merging replace blocks by others that hold
the same pages, and one lemma (`Recut`) says that this keeps a partition, however many
halves there are; that the halves `alloc` leaves behind with the block it returns, and
the buddies `dealloc` removes with the block it is given, are the pages of the
larger block, is an induction on the order (`LowCut`).  What `insert_range` cuts
is shown by induction from the end of the range downwards.  `FullyMerged` needs one
thing more than that no two buddies are free: that after everything is given back
the lists are those of the beginning.  It holds because a range has only one cut into
merged blocks (`OneCut`): any aligned run of free pages lies inside one free block
(`Whole`), which is also why a refusal means that no run was left (`NoPlaceLeft`).
Powers of two and recursive functions are unknown to the provers; their few facts
(`Pow2Def`, `Pow2Mono`, `Multiples`, `Nested`) are proved from the least element of a set of numbers.
The counter is compared with the number of pairs of a block and a page of it, which
`MapThenSumSet` is shown to count.

**The heap.**  `HeapInv` adds that an arena is a page that the allocator has handed out
alone, that every block of a class, free or not, is an aligned slot behind the header of an
arena of that class, that nothing is handed out twice or while it is on a list, and
that a large block begins at a page handed out with just its number of pages.  It says
so of four values, the arenas, the lists, the blocks and the allocator's blocks, and there is a
lemma for each way in which they change (`TakeSlot`, `NewArena`, `NewLarge`, `GiveSlot`,
`GiveLarge`).  That a large block is known to the allocator makes `FreeSpill` a legal `Dealloc`, and that is
the refinement.  For `BlocksSafe`, a byte in two blocks would be in a page with
one owner (`OneOwner`), so in two slots of one arena, and aligned slots of one size are the same
or apart.

**Address spaces.**  Neither property is inductive: that a page has no second owner says
nothing yet of the tables on the way to it.  `SpaceInv` says that there are an owner and a
level for every table (`Sorted`), such that an entry leads one level down to a table of
the same owner, or of the kernel when it is global; no two entries of processes lead to
the same table or page; every table but a root is found from one of its owner; and the
root of a process agrees with the kernel's wherever the kernel is mapped.  What `destroy()`
reaches is then what the process owns (`TreeOwned`, `PagesOwned`), and one lemma per
operation on tables (`CloneSound`, `WalkSound`, `LeafSound`, `MapSound`, `DestroySound`)
gives the owners and levels after it.  `map()` must not replace an entry, or its page
would be lost: that is why the invariant also says that nothing `execute()` has yet to load
is mapped, and each lemma says what it maps.  The rest ties `satp`, the phases of
processes and the Arcs of `all` to the two steps of `schedule_tail` and the two of `register()`.  The invariant was checked by TLC before it
was proved, with owners and levels computed from the tables.

**The file system.**  As long as no lookup has gone stale and no map was mounted that lacks taken
sectors (`~stale`), `FsInv` says that every
sector that is not free has one use (an inode, content, or a call that has taken it or is
about to free it) and one owner: `SectorsOwned` asks for two functions, and each lemma about
an action gives the new ones.  A file's content is claimed twice, by its DiskInode
(`Stored`) and by an open Inode with its slack (`Occupied`), and both have the same owner;
that neither is freed under the other needs `InodesSound`: a file has at most one Inode that
is open or removed, and that one is as on the disk.  This in turn needs the strong counts
to be exact (`RefsExact`: the number of threads that have the Inode as their File or in
hand), so that the count falls to 0 when nobody refers to the Inode, and one thread alone
closes it (`ClosersSound`).  What a resize does is said once for its four ways (`Resized`: the
new content is in what the file had or in what was free, and no sector of anything else is
freed or written), from what first fit, growth in place and `dealloc` return.  Sectors
are quotients by any `SECTOR_SIZE`; a few lemmas (`SectorsMono`, `SectorsTail`) are all that
the proof needs of them.  `SectorsDisjoint` and the three others follow at once.  The
invariant was checked by TLC on the instance of `fs` before it was proved.

`SectorsAccounted` looks the other way: what is taken in the map has somebody to account
for it.  With `FsInv` each action is shown to leave `Lost` as it was or smaller, or to be
one of the two exceptions.  Most steps free and take nothing and hand a file over at most,
from its entry to the `remove()` that has made it invalid and from there to the Inode that
is tagged (`QuietLosesNothing`).  The others need that `dealloc` frees all it is given
(`DeallocFreesAll`, since the sectors are all taken), that a resize frees all that it leaves
(`Trimmed`), and that rounding the slack down misses one sector at most, and none if the
slack is whole (`SectorsSlack`).  The attempt to prove an earlier form, which had the file
without an entry lose no more than the sector of its inode, failed at the drop of the last
Arc, and showed the case of the thread with an old inode number.

**Only model-checked:**

* liveness (`ReadyRuns`, `SleeperRuns`, `TopReadyRuns`, `RequestsReturn`), which the prover
  does not do under fairness;
* that the kernel's tables at boot are as `KernelAssumption` says: induction over data.

## 6. Plan

Done: `Threads` with its schedulers, semaphores, locks, condition variables, page
allocator and heap, file system, driver with an abstract disk, traps, address
spaces; proofs of all that rests on `Threads`, of the page allocator and the heap, of the
driver, of the traps, of address spaces and of the file system.

Next, in this order:

1. Deadlocking lock orders and the creation of lock ids in `SleepLocks`;
   `deny_write` and the bytes of a file in `DiskFs`.
2. An abstract mutex that `SleepLocks` implements.

Not modelled: boot, the console and SBI calls (pure I/O); the bytes of ELF files
and of user memory; the callee-saved registers of `switch.rs`; user programs and
`mkfs.c`; system calls, `wait()` and arguments, which are stubs; `userbuf.rs` and
`sync/spin.rs`, which nobody uses; the swap file; the memory file system
`fs/inmem.rs`, a vector of bytes with no concurrency of its own; the build tool.
