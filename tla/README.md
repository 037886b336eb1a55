# The Chaotix kernel in TLA+

Chaotix is a UNIX-like operating system for one i686 processor. This directory
holds TLA+ models of its kernel (`src/kernel/`) and its userland, the TLC configurations that
check them on small instances, and proofs for TLAPS.

## The system

One CPU runs user processes and, on their behalf, the kernel. System calls enter
through a trap gate (`idt.c`), so **interrupts stay enabled inside the kernel** and
the timer (`pit.c`) can preempt a process between any two statements of a system
call. Code that must not be preempted disables interrupts with `push_cli()` or takes
a mutex; the mutex spins and yields. A process that has to wait hands the scheduler a
condition (`scheduler_block()`), which every context switch evaluates for every
blocked process. There are no wait queues and no explicit wakeups. Nothing is
persistent, so there is no crash recovery; a failed `ASSERT` halts the machine.

| part | state | operations | interacts through | what is hard |
|---|---|---|---|---|
| scheduler, processes (`scheduler.c`, `process.c`, `syscall/process.c`) | process list, ready queue, process states, pending signals, blockers | fork, exit, crash, waitpid, kill, setpgid, yield, block, tick, context switch | every other part blocks or yields through it; terminals send signals from interrupts | preemption inside `scheduler_block()`, kills that race with blocking, several waiters for one zombie, death during other calls |
| mutex (`lock.c`) | holder, level, spin flag | lock, unlock, unlock_if_locked | all shared kernel data | preemption between statements |
| ring buffer (`ring_buf.c`) | indices and bytes | read, write, write evicting | fifos, sockets, serial console | wrap-around, full against empty |
| fifos (`fs/fifo.c`) | ring buffer, numbers of readers and writers | open, close, read, write | mutex, blocking, SIGPIPE | conditions that are stale when the process runs, EOF against data |
| page allocator, paging, ranges (`memory/`) | bitmap, 8-bit reference counts, page tables, free lists | alloc, ref, unref, map, unmap, clone, destroy | fork, exec, mmap, exit | saturation, error paths, a lock that is kept |
| heap (`memory/kmalloc.c`) | blocks with headers, the kernel's free ranges | kmalloc, kaligned_alloc, krealloc, kfree | everything | preemption between ranges and mappings, exhaustion |
| files (`fs/fs.c`, `syscall/fs.c`, `fs/vfs.c`, `fs/tmpfs.c`, `fs/dentry.c`, `growable_buf.c`) | descriptor tables, descriptions, inodes, directories, contents | open, close, dup2, link, unlink, rename, rmdir, lseek, read, write, truncate, mmap, getdents | fork shares descriptions, mappings share pages | reference counts, check-then-act on directories, offsets, moving buffers |
| sockets (`unix_socket.c`, `syscall/socket.c`) | pending queue, connection flag, two ring buffers | bind, listen, accept, connect, read, write | mutex, blocking | two acceptors, backlog |
| clocks (`time.c`, `syscall/clock.c`) | current time | tick, now, sleep | timer interrupt | torn reads |
| interrupts (`irq.c`, `idt.c`, `interrupt.S`, `pit.c`) | controllers, gates, kernel stacks, interrupt flag | stubs, handlers, push_cli, pop_cli | thread switches inside handlers | nesting, end-of-interrupt |
| input, terminals (`hid/`, `serial.c`, `console/`) | event rings, scan code state, escape sequence state, cells, foreground group | interrupt handlers, read, write, ioctl | signals, blocking | overflow in interrupts, sequences of bytes |
| sound card, frame buffer (`ac97.c`, `graphics/`) | descriptor list, pages, geometry | write, interrupt, mmap | the devices; programs that share the screen | indices of a ring the card moves, unlocked drawing |
| exec (`syscall/exec.c`) | strings, pointers, the new stack | execve, execvpe | page directory, heap | sizes at the limit of the stack, error paths |
| library (`common/`, `userland/lib/`) | blocks with headers, else none | memmove, qsort, printf, dates, fread, malloc, realloc, free | kernel and programs | boundaries, sizes that a header keeps |
| shell, init and programs (`userland/`) | the line, the syntax tree, descriptors, children | edit, parse, run, decode, list | fork, wait, pipes, terminal | forgotten pipe ends, failures half-way, partial reads |

What makes the parts correct: nobody who can run is missing from the ready queue and
nobody is in it twice; every zombie is reaped exactly once, by a living parent or
init; whoever sleeps is woken when what it waits for has happened; a mutex excludes
and is passed on; a pipe delivers its bytes in order, once, and its ends notice each
other's departure; reference counts equal the references there are.

## The modules

**Scheduler** models the life of processes. `pc[p]` says where process `p` is in its
system call; a step of `p` needs the CPU (`At`). The points between which the code
can be preempted are different values of `pc`: finding the target of a `kill()` and
sending the signal, finding that of a `setpgid()` and writing its group, drawing the pid, registering and enqueueing in `fork()`, and the
four parts of `scheduler_block()` (test, `state`, blocker, yield). Code between
`push_cli()` and `pop_cli()` is one step. A context switch is the steps of `mode`
`"scan"` (one per blocked process, in list order, because evaluating a blocker can
unlink a zombie) and `"deque"`, in which nobody else moves. The process list is a
set, since the code keeps it sorted by pid; the ready queue is the sequence of nodes
of the linked list, plus `looped` for the shape that enqueueing a process twice
gives it (the process cuts off what was behind it and points to itself; the next
enqueue of somebody else never ends). `mode` also records why the kernel has
stopped. `raced` is a history variable: an interrupt has hit a process between the
test in `scheduler_block()` and its yield. `Workload` selects the requests that an
instance makes. A blocker other than that of `waitpid()` is an `event` that comes and
goes. After an interrupt that is not the timer's, the idle loop yields as well; that
is `scheduler_tick` with the idle process. The panic of a dying init happens at the
point `"die"`.

**Mutex** has one step per statement of `lock.c` that writes a shared field; the
compare-and-exchange that fails is a stuttering step. **RecursiveLock** is what it
promises.

**RingBuf** defines the ring buffer as a value. **Fifo** composes it with the mutex
(as the lock that Mutex is shown to implement) and with blocking (a process goes on
some time after its condition was seen true): the per-byte steps of the copy loops
are visible to the conditions of others, which are evaluated without the lock.
**ByteStream** is what a pipe promises. Bytes are numbered modulo `Modulus`, which
exceeds the capacity, so that a lost, repeated or reordered byte shows while the
state space stays finite without a bound on the traffic.

**PageAllocator** defines the frame bitmap with its 8-bit reference counts as a value,
**RangeAllocator** the free list of virtual pages. **AddressSpace** composes them into
the memory side of `mmap()`, `munmap()`, `fork()`, `exec()` and `exit()`. A space is a
page directory with the `vaddr_allocator` that goes with it; only its owner changes
it, so a process is named by its space and `pc` is where it is in its system call.
`fork()` and `exec()` build a second space, their `peer`, which takes the steps of the
call. Frames are drawn and given back one page at a time (`todo` is what the loop has
left), since each draw takes and releases the allocator's mutex: any draw may be the
one that fails, and other processes run in between. The header of a free range lives
in the range's first page, so splitting, merging and moving headers changes page
tables and reference counts too, as in the code. `user` are the pages that `mmap()`
has given to the program; a program unmaps only what it has got. `lock` is the mutex of a
free list: `"own"` after a failed allocation, which returns without unlocking (the
owner may lock it again, the mutex is recursive), and `"foreign"` in a child that was
forked then: its copy of the mutex names the parent as the holder and nobody will
release it (`Spins`). `lost` is a history variable: the references that a failed
`fork()` forgot. `panic` records which assertion stopped the machine. The kernel heap
is abstract: `kaligned_alloc()` and `kmalloc()` may always fail.

**Heap** is `kmalloc.c` over the same RangeAllocator. A thread is preempted between the
assertion of the allocator and its lock, and between taking a range and mapping it; `heapLost`
remembers the pages that `krealloc()` and failed mappings leave to nobody, and `heapLocked` who has
left the lock taken after a call that found no range: the lock is recursive, so that thread goes
on, and the others wait. An empty list of ranges stops the kernel (`heapPanic`) at the next call
of either kind.

**Descriptors** are the tables and the descriptions they share: one action per call on
them, with `exit()` closing one entry after another while others run. **Paths** turns path names into components and **Inodes** runs
every call that takes one: a step is a section under a directory's lock with the
counter changes around it; references that a step gives up wait in `drop` until they are
released one at a time. `debt` counts references the code has lost track of (the
directories of the initrd, some failures of `rename()`), so that `CountsAreExact` is about all
other inodes and paths; `stopped` names the assertion that failed. **MemoryFile** is the contents of a file: the buffer's
frames, their growth and moves, mappings of the same frames, and the offset that
processes share. **SparseFile** is what it promises. **Listing** is `getdents()` of tmpfs and procfs
with the programs that list, `ls` and `ps`, while entries come and go.

**FileOps** is between the descriptors and the files: which operations an inode has, which
of them the flags of a description allow, and what outlives the flags: `granted` are the
rights a description of the regular file once had, and `trespassed` an access without
one, by a call or through a mapping. It also has the text that procfs makes at `open()`, and the
generator behind `/dev/random`, reduced to its low bits. The three kinds of files have nothing to
do with each other, so a behaviour is about one `group` of them. A refused call changes
nothing and is left out (what `mmap()` leaves behind when it is refused is in AddressSpace).

**Interrupts** has the two controllers, the gates, and a stack of frames per thread, each with the interrupt flag to
restore. **Clock** has the tick and a copy of the time in two halves. **Sockets** has the
pending queue, with the counter that is changed outside its lock as steps of its own.
**Sound** is the ring of pages and descriptors between `ac97.c` and the card, which is an
external process. **Input** has the three interrupt handlers, their rings and the readers.
**Console** is the parser of escape sequences with its cells; what is on the screen is
kept apart from them. **Framebuffer** has two programs that draw on one mapped screen.

**ExecArgs** pushes the arguments onto the new stack, byte addresses and all.
**LineEditor**, **ShellParser** and **ShellRun** are the three layers of the shell; the last one has
the processes, descriptors and pipes that a tree of commands makes, a frame per call of
`run_command()`. **Programs** and **ImageView** are the loops and decoders of the programs, with any
cut of the input and any choice of chunks. **UserHeap** is `malloc()` and `realloc()` in the words of
the memory they manage: headers, data (each word with its place in its block) and unmapped words, so that a
copy that is too long shows as a neighbour's word and one that is too short as a missing one. The program fills what
it gets, also what `realloc()` adds to a block. A copy past the end of a block is the last step that is followed. **CLib** and **Calendar** are functions of the library, evaluated on
all small inputs against what they are for.

**MC...** modules instantiate these for TLC. The proofs are in **SchedulerProofs**, **RangeAllocatorProofs** (lemmas about free lists, which the next two use),
**AddressSpaceProofs**, **HeapProofs**, **InodesProofs** (the tree), **FilesProofs**
(descriptor tables), **StreamProofs** (pipes and sockets) and **DeviceProofs** (the mutex, clock,
interrupts, sound card). MCKernel, MCLive and MCPrograms each join several components that share no
variable: `part` says which one a behaviour is about, only that one moves, and
a property says for which part it speaks (`In`). This is the sum of their state graphs, not the
product; the conjuncts of a property are properties of the single components.
`Finished` lets a component rest that has used up its bounds. Fairness is
stated for the part that moves.

Definitions that are marked as a fault are variants of the definition below them, as
a mistake in the code would make them. No specification uses them; putting one in
the place of the original makes TLC report the property that the pair is meant for
(`PROJECT.json`, `mutants`).

## The runs

| run | asks |
|---|---|
| `scheduler_wait` | 3 processes: fork, exit, setpgid, waitpid for children, groups and one pid, with and without WNOHANG. `ReadyQueueSound` and `NobodyIsLost` hold as long as no interrupt hit the window of `scheduler_block()`; `SchedulerAsserts`, `ZombieHasOneOwner`, `NoOrphans`, `OnlyZombiesAreReaped` hold in any case. Three processes are needed for two waiters of one zombie and for an orphan. |
| `scheduler_signals` | 2 processes and every request, with a fatal signal, an unimplemented one and signal 0 (which has no disposition and panics): `StaysSoundUnderSignals` (the same, and `BlockersMatchStates`), and `DeadIsFinal`. |
| `scheduler_liveness` | 2 processes: `QueuedRuns`, `WaiterIsWoken`, `SignalWakes`. |
| `scheduler_assert` | counterexample to `ASSERT(it->should_unblock)`. |
| `scheduler_lost_kill` | counterexample to `KilledProcessDies`, with no interrupt in the window. |
| `mutex_lseek_stuck` | 2 processes, one `mutex_unlock_if_locked()` as in `lseek()`: counterexample to `SomebodyGetsIt`. The process locks and unlocks with `mutex_unlock_if_locked()`, which leaves `holder` set with `level` 0, and from then on every try of the other one takes the spin flag, fails the test and releases it. `Sought` is that state, and the exception of `SomebodyGetsItUnlessSought`. |
| `space_mmap` | 2 processes, 9 frames: mmap of shared memory and of the frame buffer, munmap of any part, fork, exit, while frames run out and counts saturate: `RefCountsMatch`, `PrivateFramesAreExclusive`, `RangesStaySound`. |
| `space_fork_exec` | 4 page directories, 8 frames: forks that compete for the quickmap page, execs that fail at every page: `FailuresGiveBack`, `CallsReturn`. |
| `space_ranges_assert` | counterexample to `ASSERT(allocator->ranges)`. |
| `kernel` | 3 users of a pipe, 2 processes with two calls each on the tree and one failing allocation, 2 descriptor tables, 2 users of a memory file, listings with 5 pids and 4 files, 3 threads with nested interrupts, 2 processes that open, map and change the flags of files: `TreeIsSound`, `DescriptorsAreCounted`, `OpenFilesAreSound`, `ListingIsComplete`, `LinesStayOpen`, and refinement of ByteStream (`PipeIsAStream`) and of SparseFile. |
| `live` | The mutex (4 processes, 3 levels, two that call `mutex_unlock_if_locked()` the way `lseek()` does): `MutualExclusion`, `UnlockAsserts`, refinement of RecursiveLock, `SomebodyGetsItUnlessSought`. Sockets (2 clients, 2 servers, backlog 1): `ClientsAreServedOnce`. Clock: `NeverWakesEarly`. Sound card (2 writers): `TuneIsPlayed`. Shell: `PromptIsRestored`, `PromptReturns`. All of them and pipes: `WhoWaitsIsServed`. |
| `programs` | Input (3 devices, rings of 4 slots, so of up to 3 items; 4 bytes, 3 motions, reads of 2 and of 4): `InputArrives`. Arguments of exec: `ArgsArrive`. Editor (any sequence of 11 keys on a line of up to 4 bytes, until it outgrows its buffer; one parameter byte in an escape sequence) and parser (all lines up to 5 bytes): `LinesAreUnderstood`. Library on all small inputs, the calendar around leap years, and 4 blocks of one or two pages that are allocated, moved and freed in any order: `LibraryIsRight`. Loading, copying, counting, decoding, drawing, and a console (3 by 2 cells, up to 6 bytes): `ContentsArriveWhole`. 2 users of the kernel's heap: `HeapIsPartitioned`. |

Deadlock is checked everywhere; a kernel that has stopped takes the stuttering step
`Halted`.

**Bounds.** `MaxPid` bounds how many processes a behaviour creates, since pids are
not reused. The queue shapes that matter (a process behind the one that is enqueued
twice, two waiters, a parent that dies before its child) need three. In AddressSpace, `Space` bounds the page directories that exist at the same
time, `NPages` the address space, `NFrames` the memory. `NFrames` is chosen so that two
processes fit and further requests do not: every path that runs out of memory is
taken. Seven pages with two page tables leave three for `mmap()`, enough for every way
in which a freed range touches its neighbours. `MaxRef` stands for 255; 3 is the least value at which a
count can be above one without being saturated. Bytes of a pipe are numbered
modulo 4 with room for 2, so that a lost or repeated one shows. Two calls per process
on the tree make every pair of calls race and every call follow every other one. Tables have 2
entries, files 2 frames of 2 bytes, the heap 5 pages and 4 frames: the least at which they
wrap, split, move and run full; the input rings have 4 slots, so that the three bytes of an arrow key fit,
items can be exchanged, a read takes a part of what is there, and a fourth item makes the ring look empty. The readers of a device are
interchangeable, and so are the threads of the heap, the processes on the tree and two of the
users of the pipe, which share their names for it (symmetry). A console of 3 by 2 has an edge, a last
line and a tab stop inside. The typed commands have every node, two pipes in each
other on either side, and one failing fork or open.

**Fairness.** Scheduler: the context switch and the timer are weakly fair (the CPU
does not stop); the steps of a process inside the kernel are strongly fair, because a
process that gets the CPU again and again executes some statements in each of its
time slices. Nothing is assumed of user code: no process has to make a system call.
Mutex: weak fairness of the statements, as `QueuedRuns` justifies, and of unlocking; and
strong fairness of the compare-and-exchange of `mutex_lock()`. The spin flag is held for a few statements, so a
process that comes by again and again does not find it taken each time, which would need
the timer to hit somebody between these few statements in every round. This makes the
counterexample of `mutex_lseek_stuck` one of the holder that is left set, not of bad luck at the flag.
Fifo: the same, with strong fairness of taking the lock: the mutex alone does not
exclude that the timer preempts another holder inside its critical section each time
a process tries. AddressSpace: weak fairness of a system call's steps, strong fairness
of taking the quickmap lock. Sockets, Clock, Sound, ShellRun: weak fairness of
the steps inside a call, of the timer, of the card's progress, and of servers that have
called `accept()`; nobody has to connect, write or type.

## What is proved

The mutex (`DeviceProofs`), for every set of processes and every nesting depth:
`MutexExcludes` (`Spec => []MutualExclusion`), `UnlockAssertsHold`, and `Refinement`
(`Spec => Lock!Spec`). The inductive invariant `Inv` adds to the type invariant that
only one process is between the compare-and-exchange and the releasing store
(`OneInside`), that `level` is what the holder has taken (`LevelIsHolders`), and what
a process has found out in an earlier statement and still relies on (`Relies`):
exclusion is not inductive without it, because `holder` and `level` are written in
different steps. `Shallow` says that `mutex_unlock_if_locked()` is not called for a
nested mutex, as in the kernel; with nesting it clears the holder of a mutex that is
still locked.

`SchedulerProofs`, for every number of processes, workload and set of signals, and
whether or not an interrupt has hit the window of `scheduler_block()`: `TypeCorrect`;
`ZombieOwned` (`Spec => []ZombieHasOneOwner`); `SchedulerAssertsHold`; and from the same
invariant the action properties `TheDeadStayDead` (`DeadIsFinal`) and
`ReapedByTheirOwner` (`OnlyZombiesAreReaped`). The assumptions are those on the constants
in `Scheduler`. What carries the argument is that nobody dead is in the queue or on the
CPU (`QueueAlive`), and this is not inductive by itself:

- a child that `fork()` has made and not enqueued yet is untouched, so that it is alive
  when it is enqueued, once (`Embryos`), and who never had the CPU has made no call
  (`Fresh`);
- a process may stay in the queue while it runs, after a tick in the window and
  `unblock_processes()` have both enqueued it. It might then die in the queue. It does
  not, because the `scheduler_yield()` of its `scheduler_block()` is still before it:
  it is at `block_yield`, with its blocker gone (`Residue`, `Loop`), and once that yield
  has taken it off the CPU it is an ordinary queued process;
- to know that, a process that is queued or running with a blocker set must have its
  yield before it (`Armed`), or `unblock_processes()` could make the residue elsewhere;
- a zombie that was taken is out of the list (`ZombieHasOneOwner` itself) and only what
  is in the list can be taken (`TakeFacts`), so it is taken once; and the list holds no
  freed process (`Listed`).

TLC has checked `Inv` on the instances of `scheduler_wait` and `scheduler_signals`.
`NextInv` has one lemma per action or per group of actions with the same argument
(`SimpleStep`: a step that leaves the queue alone; `LeaveStep`: a process yields or is
woken; `QuietStep`: only the CPU's mode changes).

The second half of the module adds `Orderly` to `Inv` and has from it `EveryoneHasAParent`
(`NoOrphans`), `QueueStaysSound` (`ReadyQueueSound`), `TheSchedulerLosesNobody`
(`NobodyIsLost`), `SleepersHaveBlockers` (`BlockersMatchStates`) and `SignalsDoNoHarm`
(`StaysSoundUnderSignals`). `Family` says that who is in the list has its parent in the list
and alive, also between the registration of a child and its enqueueing and while `die()`
hands the children over. `Calm` is what holds as long as `raced` is false: a process is in
the queue once, on its way or asleep with a blocker, and only the one that is inside
`scheduler_block()` may be between these states.

`AddressSpaceProofs`, for every number of frames, device frames, pages, page directories and
requests, every page table size and every `MaxRef` above 2: `CountsNeverDrift` (`RefCountsMatch`),
`ProcessesStayApart` (`PrivateFramesAreExclusive`), `FreeListsStaySound` (`RangesStaySound`) and
`FailedCallsGiveBack` (`FailuresGiveBack`), all from one invariant `Inv`. It says of the
frames (`Frames`) that the count of each is `MaxRef` or its tally, that is the number of
slots that refer to it, and that a frame in two slots is shared by both; and of each space
(`Sound`) what it is like at the point of the call where its owner is. What made the parts
inductive:

- a free list is in order and apart (`FreeListOf`), and its headers are private pages
  (`Headers(s) \cap shared[s] = {}`): splitting and merging moves a header's frame from page to
  page, and a shared one could be in use elsewhere;
- the pages that a call still has to go through are exactly those of its request that are
  not yet mapped, or not yet unmapped (`Held`, `Local`), so that a call that fails half way
  leaves the rest untouched;
- a copy in progress has, of each page table that it has made, the pages it has copied and
  those left to do (`Cloned`), although frames run out at any of them and the parent is
  otherwise at rest (`Pair`): giving up forgets no slot of anybody else (`Forgotten`);
- the quickmap page is held by a parent whose child is copying (`Quick`);
- frames of devices are only ever mapped as shared (`Exclusive`), so that no private page can
  become one.

The lemmas about the values come first: what `Taken` and `Returned` do to a free list
(`TakenFacts`, `ReturnedFacts` of RangeAllocatorProofs), and what drawing, linking, moving and dropping a reference do
to memory, tables and tally (`PageDrawn`, `PageLinked`, `PageMoved`, `PageDropped` and
`TableDrawn`, `TableDropped`). Then there is one lemma per action.

`HeapProofs`, for every size of the heap, of the memory and of the blocks and every set of threads:
`TheHeapStaysPartitioned` (`HeapIsPartitioned`). The invariant says whose every page is: free, inside
one block, taken by one thread that has not mapped it yet or not returned it yet, or lost (`heapLost`), and that the
extents of two owners are apart, so that what a thread found when it was preempted is still so.

`InodesProofs`, for every finite set of processes, every number of inodes that fit the heap, every set
of paths and every number of failing allocations: `TheTreeStaysSound` (`TreeIsSound`). An inode is named in two
families of lists, the entries of the directories and what each process holds, and the theorem is
about two cardinalities: the positions in either family that name it. `PointersMoved` says that
when one list of a family changes, the cardinality changes by what that list names more or less;
`TreeStep`, that a step of one process which changes what it holds and the entries of one directory keeps the
invariant if the counters follow. `TreeStep` is cited, through `CallStep`, `TreeCallStep`, `ReturnStep` and
others, by the one lemma per action. `TreeInv` adds to the property what makes it inductive:

- which variables a call uses at each point (`CallIsSound`): a reference that a call has taken is
  named until it is given up. Without it a step that overwrites a variable could forget one
  that the counts still have;
- what a call relies on although it looked long ago (`KindsAreKnown`): the parent in which `create` and `link`
  append is a directory. That holds while others unlink it, because the call's reference keeps the inode from
  being destroyed and its number from being used for something else;
- the types (`TreeTypes`), with a list of entries for every inode.

That `inode_destroy()` never finds a child without links (dentry.c:138), and that `drop`'s head is
never at zero (fs.c:92), follow from the counts themselves.

`FilesProofs`, for every set of processes, table size and number of descriptions:
`DescriptionsAreCounted` (`DescriptorsAreCounted`). Counting is by cardinality: an entry that is set
adds one pair to the set that names its new description and takes one from that of the old one
(`Naming`), and `fork()`, which copies a table in one step, adds a set as large as the description's
share in the parent's table. `DescriptorsInv` adds the types, that a description without references is
empty and one with references has been made (`DescsAreSound`), so that a new one takes nobody's
place, and that who is not running has an empty table.

`StreamProofs` has two parts. Pipes, for every capacity, set of processes and modulus: `PipeNeverOverruns`, and the
refinement `PipeImplementsStream` (`PipeIsAStream`), step by step: `WriteByte` is a `Put`,
`ReadByte` is a `Get`, and everything else a stutter. The invariant adds to the types that
who is between `mutex_lock()` and `mutex_unlock()` holds the lock, and that what the buffer was
found to be under the lock it still is (`LockProtects`); and that `num_readers` and `num_writers`
are the numbers of open descriptions of either mode (`EndsAreCounted`), without which a read
could take the end of the file for real while a writer is left.

Sockets, for every number of clients and servers, every backlog and every width of the
counter: `EveryClientIsServedOnce` (`ClientsAreServedOnce`), and `AcceptsOnce`: the connector that a
server has dequeued is unconnected when it comes to `ASSERT(!connector->connected)`, so `accept()` never
stops the kernel there, and what does is `deque_pending()` of an empty queue. The counter is
changed outside the lock of the queue, so that it is right only up to the clients and servers
between the two steps; the invariant counts these (`Cardinality`), modulo the word.

The rest of `DeviceProofs`: first the clock, `SleepersNeverWakeEarly`, for every set of sleepers and every set of requests with
less than a second of nanoseconds (`SleepRequestsAssumption`: the kernel does not check it, but
the callers in userland keep to it). The invariant relates the halves of a reading of the time to
when each was taken. Then the interrupts: `InterruptLinesStayOpen`, for any threads and lines. The
end of interrupt is sent before the handler does anything else, so no line is in service between
two steps (`NothingInService`); that userland finds interrupts enabled needs the flags on the
stack of every thread to be nested (`CliIsNested`) and a thread without the processor to be inside
`scheduler_yield()` (`ThreadsAreSuspended`). Last the sound card: `TheTuneIsPlayed` (`TuneIsPlayed`), for
any number of writers, list entries and output pages. While writers take turns all indices are
those of two counters, what was published and what was played, modulo their rings (`IndicesFollow`);
who is past the check is alone and has a page that is not being played (`RoomIsReserved`); and every
buffer between the counters is in its entry and in its page (`BuffersAreKept`), because two numbers
less than a round apart have different remainders (`ModDiffers`).

The assumptions of all these theorems are those that the modules state about their constants.

**What is model-checked only.** Liveness: TLAPS does not reason about fairness here.
`AssertShouldUnblock`, `KilledProcessDies`, `AssertRanges` and `SomebodyGetsIt` have
counterexamples. The properties of `programs`, `HeapIsPartitioned` apart, are about modules that reach recursive operators (the
parser, the C library); what those compute for every input is induction over data, which is
beyond TLAPS. Of the run `kernel`, `OpenFilesAreSound` (but for `NoOverrun`, which is
part of `PipeNeverOverruns`), `ListingIsComplete` and `ImplementsSparseFile`, and of `live`,
`PromptIsRestored`, have no proof: a listing is what a fold over all entries leaves, so that it is induction
over data again; `OpenFilesAreSound` joins four components, and part of it (`NumbersAreFresh`) rests
on the period of a generator, which is evaluated and not derived; a prompt is restored by a stack of calls of any depth, each related to the next.

## What the runs found

- `scheduler_block()` sets `state` before `should_unblock` with interrupts enabled; a
  tick in between makes `unblock_processes()` panic (`scheduler_assert`).
- a process that was killed while it was inside a system call, before it blocks,
  forgets the kill: `BLOCKED` overwrites `DYING` (`scheduler_lost_kill`).
- `mutex_unlock_if_locked()` leaves the holder set when the mutex becomes free
  (`mutex_lseek_stuck`).
- an `mmap()` of exactly the last free range empties the list; the next `mmap()` or
  `munmap()` fails an assertion instead of returning (`space_ranges_assert`).

More behaviours are in the models and have no run of their own; a property that they
would break excepts them by name.

- `range_allocator_alloc()` keeps its lock when no range fits, and a child forked after
  that waits for ever in its next `mmap()` (`CallsReturn`); the kernel heap has the same path.
- A frame of the frame buffer that the console has not mapped has no bit in the bitmap
  and starts from reference count 0: unmapping it fails an assertion (`panic = "bitmap"`).
- `kill()` and `setpgid()` may use a process that was reaped after it was found (`mode` is then
  `"use after free"`), and `kill()` with signal 0 reaches `UNREACHABLE()` instead of testing for the process.
- Two acceptors may be woken for one client; the second dequeues from an empty list
  (`sockStopped`).
- `dup2(fd, fd)` of a description with one reference installs it after it was freed;
  `open()` loses the description when the table is full (`lost`); `F_SETFL` changes the access
  mode that `fifo_close()` goes by (`setfl`).
- `rename()` to another name of the same inode reaches `ASSERT(rc < 0)` with `rc = 0`, and its
  error paths release inodes that were released before (`stopped`, `debt`).
- A sleeper whose deadline was computed from a torn copy of the time wakes up to a
  second early (`torn`).
- A ring that is a lap ahead of its reader looks empty (`InputArrives` counts laps).
- Two writers to the sound card that pass the check together overwrite each other
  (`overlapped`).
- `push_strings()` checks the size of a string and moves by the next power of two: a string
  may end up in the guard page (`ArgsArrive`).
- `run_pipe()` does not wait for its left part when the right one failed, and a late child
  may take the terminal (`abandoned`).
- `krealloc()` copies the old header over the new one, and `kfree()` then frees too
  little (`heapLost`).
- `realloc()` of the C library does the same, and copies as much as the old header says. A block that was
  made larger and is moved once more keeps only as much as `malloc()` was asked for in the beginning: after
  `malloc(1)`, `realloc(3)` and filling the block, `realloc(3)` loses the second and third word (`first`), and
  `free()` leaves pages mapped (`leaked`). A block that loses a
  page is copied over whatever is mapped behind the new one, or into a page fault (`overran`), and a block from
  `aligned_alloc()` does not keep its contents (`holds`). The only caller in the repository, `readdir()`, asks for one
  size and fills the buffer anew, so no statement about it contradicts this.
- `cp` opens its destination without `O_TRUNC`: what a longer one held stays behind the copy.
- `vsnprintf()` takes an x behind any number (`"%dx"`, `"%#x"`) for a request of `0x` and radix 16, and stores the two
  bytes of `0x` before it compares (`TakesX`).
- The line editor does not check the ends of `input_buf` and `param_buf` (state `"overrun"`).
- `play` reads every piece to the beginning of its buffer, and for ever if the file became shorter
  after `stat()` (`PlayLoadsTheFile` has the exception).
- `urand()` is not locked: readers of `/dev/random` that overlap get the same numbers (`torn`).
- `mouse-cursor` puts back pixels that another program has painted meanwhile.

## Plan

1. Done: the scheduler, memory, the file layer, devices with state, the shell and
   the programs with an algorithm of their own.
2. Proofs: done for the mutex, the scheduler, the address spaces, the kernel heap, inodes, descriptors,
   pipes, sockets, clock, interrupts and the sound card.

## What is not modelled

`munmap()` of what `mmap()` did not give, or of nothing: `sys_munmap()` checks no more than the range
allocator does, and `paging_unmap()` panics. A size 0 and a failing `mmap()` in `malloc()`. The terminal's parser
has a `param_buf` of 1024 bytes whose end it does not check (fb_console.c:423); here a parameter has a
few bytes (`MaxParams`). What follows in memory behind an overrun buffer, in the programs as in the kernel.

Registers, FPU state, formatting, glyphs and fonts. The programming of
controllers and buses (`pci.c`, `ps2.c`, the setup half of every driver), whose other side is
hardware: it happens once, in a fixed order. `nic.c` and `network.c`, which find
a card and send nothing. The texts of `procfs`. Loading of ELF segments beyond
whether it fails. Functions of the C library that walk one string.
Programs that make a few calls in a row, and the test programs, which are used as statements of
what the kernel should do. There is nothing persistent, so there is no recovery to
model.
