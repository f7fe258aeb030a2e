# A TLA+ verification of Oxys-OS

Oxys-OS is a small operating system for x86-64: a C kernel with user processes,
signals, pipes, an ext2 filesystem and a window manager, and a userland with an
`init`, a shell and some programs. This directory holds TLA+ models of the parts
whose correctness depends on the order in which several actors move, the TLC
configurations that check them on small instances, and proofs that TLAPS checks
for instances of every size.

Paths below are relative to the repository root (`src/` in `PROJECT.json`).

## 1. Inventory

| Part | Source | State it keeps | What is hard about it |
|---|---|---|---|
| Processes | `kernel/proc/process.c` | process table: state, parent, group, descriptors, alarm | endings, adoptions and waits of a family in any order |
| Signals | `kernel/proc/signal.c`, `kernel/arch/x86_64/syscall/sigframe.c` | pending set, dispositions, stopped or not | a signal that finds its target running, asleep, stopped, not yet run |
| Scheduler | `kernel/proc/sched.c`, `ThreadCreate` … `ThreadSwitchTo` | run queues, thread states, masks, wait channels | several processors, a lock dropped in the middle of a reschedule |
| Pipes, open files | `kernel/fs/vfs/pipe.c`, `kernel/fs/vfs/file.c` | ring buffer and its indices, ends open, holders | lost wakes, last close, reuse of the slot |
| Supervisor | `userland/init/main.c` | service table, the shutdown asked for | signal handlers between any two instructions, endings in any order |
| Shell | `userland/sh/` | job table, who has the terminal | parent and child both set the group; stops and endings among the forks |
| System call entry | `kernel/arch/x86_64/syscall/syscall.c` | none of its own | way out of the kernel, restart of interrupted calls |
| Interrupts, exceptions | `kernel/arch/x86_64/interrupt/` | handler tables | the tick against everything above |
| Processors, locks, shootdown | `kernel/arch/x86_64/smp/`, `cpu/spinlock.c`, `mm/shootdown.c` | online flags, tickets, pending requests | bring-up, mutual exclusion with wrapping counters, acknowledgement |
| Frames, address spaces | `kernel/mm/pmm.c`, `kernel/arch/x86_64/mm/` | frames and their counts, page tables, cached translations | copy on write, destruction of shared spaces |
| Kernel memory | `kernel/mm/vmm.c`, `kernel/mm/heap.c` | free ranges, slabs, free objects | a range half backed, a list at its limit, joining of ranges |
| Block layer, buffer cache | `kernel/block/` | buffers, dirty flags, references, recency | eviction, failed write-back, a crash between writes |
| ext2 | `kernel/fs/ext2/` | bitmaps, inodes, directories | order of writes, a volume that runs full, the clean mark |
| VFS | `kernel/fs/vfs/`, `kernel/fs/ext2_vfs.c` | nodes and their references, mounts, open files | a walk that fails midway, volumes upon volumes, unmounting |
| Terminal | `kernel/terminal/terminal.c` | input queue, foreground group | several readers, group changes, control characters |
| Windows | `graphics/window.c`, `graphics/client.c` | windows, owners, event queues | owner ends while events are queued, stale focus and grab |
| Drawing, fonts, compositor, drivers, ACPI, boot, libc, crypto, session and programs | `graphics/`, `drivers/`, `boot/`, `libc/`, `crypto/`, `userland/` | various | sequential or hardware |

How they meet. A user thread enters the kernel by a system call or a trap and
leaves it through the delivery of signals. Inside, it may sleep upon a channel
(`SchedulerSleep`): its own process for `waitpid` and `pause`, the pipe for a
transfer, one shared channel for `poll`, its stop channel when stopped. Endings,
stops, transfers, closes and signals wake those channels. `init` is an ordinary
process that meets the rest only through `fork`, `waitpid`, `kill` and `pause`, and
so is the shell, with the terminal's foreground group besides. A file call walks
the tree of names, which holds nodes; the filesystem beneath reads and alters
buffers, which the cache writes back when it likes; blocks reach a device or fail
to. Memory is shared by fork and separated by a fault; frames come from one
allocator, and a change of a kernel mapping is announced to every processor.

What makes each part correct: a sleeper is never left with its condition true; a
stopped process runs no further and a continued one does; a thread is in one
place; a pipe loses, repeats and mixes nothing; every ended process is collected
by somebody; a supervisor never runs two of a service; a process reads what it
wrote; every count of references is exact; a block holds what was last put in it;
a volume whose mark says clean is sound. The hazards list of `PROJECT.json` places
each of these at the line where it could go wrong.

## 2. Modules

| Module | Models | Checked by |
|---|---|---|
| `Processes` | the life of processes, waits, signals and job control | `Lifecycle`, `Governors`, `Killing`, `KillUnheard`, `ContinueIgnored`, `ProcessesProofs` |
| `Scheduler` | run queues and reschedules of several processors | `Scheduler`, `ProcessorsProofs` |
| `Pipe` | one slot of the pipe table, its files and descriptors, read, write, poll | `Pipe`, `PipeProofs` |
| `Fifo` | the abstract bounded byte queue `Pipe` implements | `Pipe`, through `IsFifo`; `PipeProofs` |
| `Jobs` | the shell's pipelines, its job table and the terminal's group | `Pipe`, `PipeProofs` |
| `Supervisor` | the main loop of `init` | `Governors`, `ShutdownWaits`, `ProcessesProofs` |
| `BufferCache` | the buffer cache over failing, replaceable devices | `Storage`, `StorageProofs` |
| `Store` | the abstract store `BufferCache` implements | `Storage`, through `IsStore`; `StorageProofs` |
| `Volume` | one ext2 volume, its calls, its mounts and the machine stopping | `Storage`, `StorageProofs`, `VolumeProofs` |
| `Arena` | the kernel's virtual arena and its heap | `Storage`, `MemoryProofs` |
| `Mounts` | the tree of names: walk, nodes, mounts, open files, names made and removed | `Lifecycle`, `UnmountFails` |
| `Memory` | frames, address spaces, copy on write | `Machine`, `MemoryProofs` |
| `Windows` | the window manager and its clients | `Machine`, `DesktopProofs` |
| `Terminal` | the terminal's input and its readers | `Scheduler`, `ReadersFreeze`, `DesktopProofs` |
| `Spinlock` | the ticket lock and the masking of interrupts | `Machine`, `ProcessorsProofs` |
| `Processors` | the start of processors, and the shootdown | `Machine`, `ProcessorsProofs` |
| `ProcessorsProofs`, `PipeProofs`, `MemoryProofs`, `ProcessesProofs`, `StorageProofs`, `VolumeProofs`, `DesktopProofs` | inductive invariants, theorems and refinements | TLAPS |
| `ListFacts` | facts on lists and on least members that they share | TLAPS |

The `MC` modules give the constants their values. Six of them
(`MCLifecycle`, `MCGovernors`, `MCScheduler`, `MCPipe`, `MCStorage`, `MCMachine`) run several
components in one configuration. Those components share no state, so nothing is
gained by interleaving them: a constant choice at the start, `part`, says which one
moves, and each is explored in full while the others stand still. Components that
do share state are composed by being in one module: processes with signals, a
pipe with descriptors, a volume with the buffers beneath it, a shell with the
kernel's children, processors with the mappings they cache.

Operators whose comment begins with "Mutant" are altered forms of the operator
that follows; no specification uses them. Replacing the operator by its altered
form makes TLC report the property `PROJECT.json` pairs it with, which shows the
property can fail.

### Processes

`state`, `parent`, `group`, `pending`, `handlers`, `stopReported` and `alarm` are
the fields of `Process`; `thread` is the state of its one thread, `at` the place
where that thread stands, `call` the interruptible call it is in or will execute
again, `current` the process whose thread the processor runs.

Granularity. User threads have affinity for the bootstrap processor alone, a
system call runs with interrupts masked, and the tick never pre-empts a user
thread inside the kernel. What a thread does in the kernel between two sleeps is
atomic with respect to every other process. `waitpid`, `pause` and a pipe transfer
are a `Begin` step, a scan that returns or sleeps, and, once woken, the scan
again. `SignalDeliver` is one step per signal taken. Two ways into a program pass no
delivery, a child's first entry and an `execve` that succeeds: what is pending stays
so until the next way out.

Abstractions. The wait status, the names, images, address spaces and working
directories are left out. The table's order is left out, so a wait that finds two
ended children may collect either. Identifiers are never handed out twice, as in
the code; `MaxId` bounds how many are. The fields of an ended process nobody reads
again are cleared. The path that runs a child by a call, before the scheduler is
prepared, is left out. Exhaustion (a fork that fails) is a call that changes
nothing. `Calls` says which calls the program of each process makes.

### Scheduler

`queue`, `queued`, `tstate`, `channel`, `affinity` and `current` are the queues and
the fields of `Thread`; `next` is the local of `SchedulerRescheduleLocked` and
`phase` where a processor stands in it. The function takes the queue lock twice
and switches without it, so it is three steps (`Dequeue`/`KeepRunning`/`GoIdle`,
`PlaceBack`/`LeaveOff`, `Switch`) between which every other processor runs. A
section under one lock is one step. `SchedulerWake` walks the table one sleeper at
a time. The processor chosen for an admission is any one the mask permits: the
lengths the code compares are read without the locks. Idle threads are never
queued and are one value, `Idle`, for all processors.

In `WakeSleeper` the clearing of the channel and the admission are one step, and
the admission always succeeds: by the invariant a blocked thread is in no queue
and a user thread's mask holds processor 0.

### Pipe and Fifo

The variables are the fields of `VfsPipe`, `files` for `readers` and `writers`,
`holders` of the two open files, the number of descriptors each process holds of
each end, and for each process the call it sleeps in. Indices are numbers modulo
`IndexModulus`, which stands for 2^64 and, like it, is a multiple of the size.
A transfer made for a program is clamped to the size of the buffer, so the loop of
`VfsPipeWrite` runs once and a write is one piece. `Interrupted` is the EINTR of a
signal, which module Processes explains. Pollers share one channel with every
other source of events (`PollersWoken`).

`Fifo` knows nothing of indices, holders or processes: it has a sequence of bytes,
what the last read returned, and which ends are open. The mapping reads the
sequence off the ring.

### Supervisor

`pid`, `failures` and `abandoned` are the fields of `InitService`; `running`,
`ended` and the orphan counters are the kernel's side; `pc` and `index` place
`main`. The handlers of SIGTERM and SIGINT are one step, possible between any two
others. A call that sleeps when the signal comes returns EINTR; one that is
entered after the handler ran does not. A service's children are numbered by
start, which stands for identifiers that are never reused. A fork that fails
leaves the service down, as the code does.

A child between its fork and its `execve` is `fresh`: it still has init's handler of
SIGTERM, which may take the signal. `told` has only those that ran their program when
they were told, and it is of these that the fairness says they end. A wake of
`SchedulerWake` finds init in `paused` or is lost (`WakePause`): between the ECHILD of
`waitpid` and the sleep of `pause`, init is at "pause".

### Jobs

`table` is `ShellJobs`, `child` what the kernel has of each child (state, group,
whether its stop was told), `foreground` the terminal's group. A step of the shell
or of a child before its program is one system call. `ForkMember`, `Join`, `Give`
are the parent's side of `ShellJobStart`, `ChildSets` and `ChildGives` the child's;
`CollectEnded` and `CollectStopped` are what `waitpid` returns, to the wait for the
foreground and to the report before a prompt. A fork may fail.

### BufferCache and Store

`holds`, `data`, `dirty`, `references` and `recency` are the fields of `Buffer` and
the list through them, `medium` what the devices hold. Nothing in the block layer
sleeps, so a call is one step; `Client` stands for the holders of buffers along a
path of calls. Every transfer may fail, a device may be unregistered and another
registered in its place, and the machine may stop. `Store` knows of blocks, of
what is on the medium and of the answer to the last call; the mapping reads a
block from its buffer, or from the medium where it has none.

### Volume

A volume is the buffers of one ext2 volume: bitmaps, inode sectors, tables,
directory blocks, data and the superblock's mark. Every call of the filesystem is
one step and alters buffers only; `maybe` is every version each buffer had since
the last `BufferSync`, any one of which the medium may hold when the machine stops
(`Stop`, `Settle`). `full` records that an allocation was refused. `Mount`,
`SyncDone` and `Unmount` are the order of `Ext2VfsMount` and `Ext2VfsUnmount`, in
which the mark is cleared or set and forced out.

### Mounts

`nodes`, `mounts`, `rootMount` and `files` are the tables of `kernel/fs/vfs`;
`tree` is what the filesystems say of their volumes. A call is one step whose
inside is computed: a record `w` carries the table of nodes as the walk alters
it, so that each reference taken and dropped is where the code has it. `left`, how
many reads succeed before one fails, is chosen anew for every call, so every walk
fails at every place it can. A filesystem reports a failed read as a name that is
not there, and `VfsOpen` may then go on to create: the second walk finds the
device failing still or well again.

### Arena

Addresses are pages from the base of the arena. `list` is the array of free
ranges, `bump` the first page never issued, `mapped` what each page is mapped to,
`forfeit` what was released when the list was full. `large`, `devices` and `given`
are what callers hold. The heap takes single pages for slabs and whole ranges for
large allocations, as `KernelAllocate` does.

### Memory

An address space is its root and a function from pages to leaf entries; `tlb` is
what the processor has cached for the active one, filled by any access and dropped
where the code drops it. `memory` is what each process wrote, kept only to say
what it must read. `Judge` and `Answer` are a call that tests a page of the caller,
sleeps, and writes its answer.

### Windows

`screen` is the manager (table, stack, focus, grab, drag and event queues) and
`awaits` the windows a sleeping program waits upon. Geometry is a choice: a press
lands upon any part of any window that is shown. A round of `kernel.c` that routes
a key or the mouse is one step, and every call of a client another.

### Terminal

A step is one stretch of a call between its entry, its yields and its return, with
interrupts masked; `TerminalTick` and `Arrives` happen only where interrupts are taken.
Readers that wait yield to one another, or halt when nobody else is runnable. A turn
of the wait looks for input first and asks whether the reader may wait (`MayWait`)
only where there is none, in the order of the code.

### Spinlock

A step is one access others can see: taking a ticket, finding it served, the two
stores of a release, the two reads and the exchange of an attempt. The counters are
numbers modulo `Tickets`. `depth` and `enabled` are the nested masking.

### Processors

`boot` places the bootstrap processor in `SmpInitialise` and in a change of a
mapping; `stage` and `stack` say how far each application processor is, and
`expected` is the index it read as its argument. The parameter block is overwritten
for each start, and a processor reads its stack and its argument from whatever the
block holds by then (`LoadStack`, `Enter`).

A processor given up is not stopped. Its wait may have run out before it answered or
while it was on its way, and it goes on from where it is, while its successor is
started with the index the count still gives, and so with the same stack. Its answer
may be taken for its successor's. It claims whatever area the count has come to;
if that is not the index it read, the kernel panics (`ClaimArea`), and if no area is
left it halts (`parked`). When the trampoline's page is unmapped it loses the ground
beneath it (`GroundLost`). `late` is history: such a processor has gone on. The two
startup interrupts are one; a second that cannot be sent is a start given up before
the answer. A shootdown is sent to those established when it is sent.

## 3. Runs

| Run | Bounds | Shows | States, time |
|---|---|---|---|
| `Lifecycle` | 4 processes, SIGCHLD with and without a handler, waits for any child and for one; 3 volumes, 5 nodes, 3 mounts, 1 descriptor, links 2 deep | `NoLostChild`, `WaiterHasChild`, `EndedHaveCollector`; `NodesCounted`, `TreeHangsTogether`, `UpUndoesDown` | 226 thousand, 130 s |
| `Governors` | 3 processes; KILL, CHLD, CONT, STOP; waits with UNTRACED; 3 services (one started once, one that needs the display), limit 3, 2 requests, 1 orphan | `StoppedIffAsleepStopped`, `PauseHearsSignals`; `OneOfEach`, `RequestHeard`, `EndedCollected` | 332 thousand, 130 s |
| `Killing` | 3 processes; INT, KILL, ALRM, CHLD, STOP, with and without handlers; every call | `KillReaches` | 182 thousand, 95 s |
| `Scheduler` | 2 processors, 2 user and 2 kernel threads, 1 channel; 2 readers of a group each, one of which refuses SIGTTIN, a queue of 2 and a ring of 1 | `QueuedOnce`, `RunsOnce`, `NeverReleased`, `NeverLost`, `UserStaysHome`, `NoStarvation`; `OneReaderProgresses` | 305 thousand, 95 s |
| `Pipe` | 3 processes, 2 bytes of buffer, indices modulo 4, blocks of 1 and 2 bytes; 3 children, 2 jobs of up to 2 commands | `SleepersHaveCause`, `OpenWhileHeld`, `IsFifo`; `JobsAreKnown`, `TerminalComesBack` | 1.9 million, 160 s |
| `Storage` | 2 clients, 3 blocks of 2 devices, 2 buffers, 2 values; 3 inodes, 4 blocks, 2 names, 1 name to a directory block, 1 descriptor; 5 pages, a free list of 2, 3 frames, 2 size classes | `BuffersSound`, `EachListedOnce`, `IsStore`; `MountedIsSound`, `CleanMeansSound`, `ClosedIsDurable`; `ArenaSound` | 399 thousand, 145 s |
| `Machine` | 2 spaces, 3 pages, 5 frames; 2 programs, 2 windows, queues of 1; 3 processors with 4 tickets; 3 application processors, 3 areas, 1 mapping | `Isolated`, `CountsExact`, `ApprovedStaysOwn`; `KeysGoToTop`, `PointerBound`, `SleepersHaveNothing`; `LockExcludes`; `AreasApart`, `TranslationsGone` | 1.3 million, 80 s |
| `KillUnheard`, `ContinueIgnored`, `ShutdownWaits`, `ReadersFreeze`, `UnmountFails` | as small as the disagreement | section 5 | |

The type invariants of the modules (`TypeOK`, `MemoryTypeOK`, `SpinlockTypeOK` …)
are documentation and parts of the inductive invariants; no run spends itself on
them, and section 4 proves them.

Why the bounds are enough to be interesting. Four processes are init, a parent, a
child and a grandchild: the least with which an orphan is adopted while its own
child has already ended. Three with signals are init, a shell and a job. Two
kernel threads beside two user threads let the second processor rotate while the
first sleeps and wakes. A buffer of two bytes with blocks of two and indices that
wrap after two fillings reaches full, empty, one free and every wrap, over several
lives of the slot. A limit of three restarts has a first, a middle and a last.
Two buffers for three blocks evict at every second access, with both held, one
held or none. Three inodes and four blocks are a root, a directory and a file that
grows into its table and runs the volume full. Three volumes with three points
mount one within another, one upon another's root, and one upon a directory of
either; five nodes are too few for some of those trees, so the table's limit is
reached. Five frames hold two spaces only while they share, so fork and the fault
both fail for want of one. Four tickets and three processors wrap the counters with
all but one value taken, which is as full as the code's own counters can be. Three
application processors are one that answers, one given up that may come late, and a
successor. Two readers are one that holds the terminal and one that loses it while it
waits; one refuses SIGTTIN and the other is stopped by it. A signal below SIGKILL,
with a handler, is the least that is delivered before it.

Deadlock is checked in `Scheduler`, `Pipe`, `Storage` and `Machine`: in each there is always
something a processor, a process or a client may do (a machine that has halted is left to itself
by a step of its own). In `Processes` every process may be
asleep, or ended, with nobody left to act, and in `Supervisor` the machine stops;
`Lifecycle`, `Governors` and `Killing` do not check it.

### What the properties do not say

- `NoLostChild` does not claim that init hears of a stop: an orphan that was
  stopped before init adopted it is not announced.
- `WaiterHasChild` does not cover waits upon a group: a `setpgid` that moves the
  last child out of the group is not announced either.
- `KillReaches` is about SIGKILL pending at a way out, and leaves out a process upon
  which a handled signal of a lower number is pending beside it (`Outranked`): that
  one is delivered first, and SIGKILL may then wait without end (section 5).
- `RequestHeard` begins at the top of the loop: a request that arrives after the
  test and before the sleep is heard when a child next ends. It and `EndedCollected`
  allow for a shutdown that waits for a service which was told before it executed
  its program (`Unheard`), which the code may do without end (section 5).
  `EndedCollected` is about the services; of orphans the like is not so (section 5).
- `OneReaderProgresses` is about readers of a group each, while there is a foreground
  group. Two of one group, or of any with no foreground, are `ReadersFreeze`.
- `MountedIsSound` is checked with `PersistAdopts` FALSE. `kernel/fs/persist.c`
  marks the volume it adopts clean on purpose, without its having been unmounted;
  with TRUE a half-written volume is mounted for writing, and the property fails.
- `Lifecycle` has `WriteFails` FALSE: an unmount whose write fails leaves a tree
  that does not hang together, which is what `UnmountFails` shows.
- `UpUndoesDown` leaves out trees in which a second volume is mounted upon `/`.
  `VfsMountVolume` means to refuse to stack mounts (`kernel/fs/vfs/mount.c:269`,
  `docs/storage/VFS.md:107`) and tests the node the walk ends at; but the walk
  crosses into what is mounted, so it ends at the upper root, which nothing covers,
  and the mount is admitted. For `/`, where the walk crosses nothing, the second
  volume is never reached by `/` and is reached by `/..`. Two mounts of one point
  are also withdrawn in the order of the table, so the upper one cannot be
  withdrawn while the lower one is found first and is busy.
- `LockExcludes` assumes (`NotLapped`) that the counter does not go all the way
  round, which is 2^16 acquisitions, between the two reads of one attempt.
- `AreasApart` is about areas, segments, double-fault stacks and records, which belong
  to the index that passed the comparison. Of the stacks the processors start upon
  the like is not so (section 5).
- `TranslationsGone` is claimed until a processor that was given up goes on (`late`). Such
  a one is not counted when a request is sent before it comes online, and answers for
  another when it comes online in between. Nor is it claimed that a shootdown is
  always answered: a processor counts as established before its local controller is
  enabled, and a mapping changed in that interval waits for an answer until the
  kernel panics (`Unacknowledged`).
- `TerminalComesBack` excludes (`early`) a child that SIGSTOP reached before its
  program: continued by `bg`, it takes the terminal. Programs here change neither
  their group nor the terminal's, and do not ignore SIGCONT.
- `JobsAreKnown` says nothing of a job without members. A first `fork` that fails
  (`userland/sh/run.c:325`) leaves one in the table, and `fg` upon it waits for
  group 0, which the kernel takes for any child.

### Fairness

`Scheduler`: a reschedule that has begun ends (interrupts are masked, the lock is
held for a bounded walk), a walk of `SchedulerWake` ends, and each processor's
timer ticks. The tick is strongly fair because an interrupt raised while masked
is taken when the mask is lifted. Nothing is assumed of what threads choose.

`Processes`: the kernel finishes the call it is in, a restarted call is executed,
the tick is strongly fair for the same reason, and a ready thread is resumed
(strongly fair: others may run in between, and the queue is first in, first out,
which is what `NoStarvation` of the scheduler shows). Programs may do nothing.

`Supervisor` (`SupervisorFairness`): init is run in its turn and a program that
SIGTERM ends, and was sent to while it ran, does end. Whoever is told before it has
executed its program need not, and nobody need come to execute it.

`Terminal` (`TerminalFairSpec`): the processor runs on, that is, whoever has it
takes its next step, and the timer keeps ticking. `MCScheduler` states the fairness of
`Scheduler` and of `Terminal` each for the part it belongs to.

## 4. Proofs

`ProcessorsProofs` proves of the scheduler, for any number of processors, user threads, kernel
threads and channels, from three assumptions on the constants (there is a last
processor, user and kernel threads are different and none is the idle thread or
the absence of one, and no channel is the null pointer):

- `TypeCorrect`: `Spec => []TypeOK`
- `QueuesSound`: `Spec => []QueuedOnce`
- `StacksSound`: `Spec => []RunsOnce`
- `ReleasedSound`: `Spec => []NeverReleased`
- `RunnableFound`: `Spec => []NeverLost`
- `UserConfined`: `Spec => []UserStaysHome`

None of these is inductive. `RunsOnce`, say, is broken by a dequeue if the queue
holds a thread another processor executes, and whether it does depends on the
states of threads and on where that processor stands in its own reschedule. The
invariant `IInv` adds what is missing:

- `CurrentState`: phase by phase, the state of the thread a processor executes. A
  thread that has been put back is READY while still executed, and then it is in
  this processor's own queue, which nobody else dequeues. This is the reason the
  code may drop the lock, and why the outgoing thread may not be put on another
  processor's queue.
- `NextState`: what has been dequeued is READY and in no queue, and there is such a
  thread exactly between the dequeue and the switch.
- `Apart`: no two processors execute one thread or have dequeued one.
- `Placed`: what is queued is READY; what is READY is queued or dequeued; what is
  RUNNING is executed.
- `Home`: user threads, and walks of `SchedulerWake`, are of processor 0, and what
  has a channel is a blocked user thread. This is what makes the wake of a thread
  that has not yet switched away impossible.

The lemmas `EnqueueKeeps`, `DequeueKeeps` and `WithdrawKeeps` say what the three
list operations do to `QueuedOnce` and to which queue holds which thread; each
action then has a lemma of its own, and `NextKeeps` puts them together.

`ProcessorsProofs` proves of the lock, for any finite set of processors and counters of any width
that has more values than there are processors:

- `LockInductive`: `LockInv` holds at first and every step preserves it
- `Exclusion`: `SpinlockSpec => []LockExcludes`

Exclusion does not follow from itself: a processor enters when the counter served
reaches its ticket, and that nobody else has that ticket is a fact about all
tickets issued. `LockInv` is the type invariant with

- `Queued`: the tickets issued and not yet served past are as many as there are
  processors inside an acquisition, stand within that distance of the one being
  served, going round, and are each somebody's own. This is what keeps a wrap of
  the counters harmless: the distance is below the number of values.
- `Served`: who is inside has the ticket being served, and the owner is who is in.
- `Attempted`: an attempt whose exchange would now succeed finds the lock free. It
  needs `NotLapped`, without which the ticket could come round to the value read.
- `Masked`: who is in an acquisition takes no interrupt.

The lemmas say what taking a ticket and serving the next do to distances round the
counter; each action then keeps each part.

`PipeProofs` proves of pipes, for any processes and descriptors, any size of the buffer and
any width of the indices that the size divides (`SizeAssumption`: 2^64 and the
code's power of two), with transfers clamped to the size (`TransferAssumption`) and
a poll that watches some end (`WatchedAssumption`: with none it returns at once):

- `PipeInductive`: `PipeInv` holds at first and every step preserves it
- `NoWakeLost`: `Spec => []SleepersHaveCause`
- `EndsExact`: `Spec => []OpenWhileHeld`
- `PipeIsFifo`: `Spec => IsFifo`

That no end closes early depends on every call that makes or drops a descriptor,
so `PipeInv` has `Counted`: an open file's `holders` is the number of descriptors
that name it, its end is open while there is one, and the slot while an end is. It
counts pairs of a process and a number, so that dup, dup2, fork and exit are
unions and differences of finite sets (`OneMore`, `OneLess` and their like).
`Fits` keeps the indices within the size of one another, without which a full
buffer looks like one with room; `InCall` gives a sleeper a call to be asleep in.
The refinement maps the ring to the sequence of the bytes between the indices.
`BytesAre` says what that sequence is, and three lemmas follow it through a
write (bytes appended), a read (bytes taken from the front) and the reuse of the
slot; wrapping is arithmetic modulo the width, and the lemmas on remainders at the
head of the module carry it.

`PipeProofs` proves of the shell, for any finite set of children, any number of slots
of its job table and any length of pipelines (`JobsAssumption`):

- `JobsTypeCorrect`: `JobsSpec => []JobsTypeOK`
- `ChildrenStayKnown`: `JobsSpec => []JobsAreKnown`
- `PromptHasTerminal`: `JobsSpec => []TerminalComesBack`

That a child is never forgotten depends on where the shell stands: between the fork
and the entry into the table the child is known only to the call under way, and
after a wait that ended with a stop only to the table. `JobsInv` says which of the
two at each place of the shell (`ShellStands`, `ChildrenStand`), that a used slot has
members and an unused one none (`TableSound`, `MembersStand`), that no child is in two
(`OneOwner`), that a child which took the terminal for itself is one the shell
waits for (`TakersWaitedFor`), and who has the terminal meanwhile (`TerminalKept`).

`MemoryProofs` proves, for any finite set of processes and pages and any number of
frames with room for one image and stack (`MemoryAssumption`: the model begins
with the first process made):

- `MemoryInductive`: `MemInv` holds at first and every step preserves it
- `FramesCounted`: `MemorySpec => []CountsExact`
- `AnswersLandAtHome`: `MemorySpec => []ApprovedStaysOwn`
- `ProcessesIsolated`: `MemorySpec => []Isolated`

Isolation rests upon the counts, the counts upon the tables, and a stale cached
translation would break both. `MemInv` has the counts exact; `WritableOwn`, that an
entry which permits writes is the only name of its frame (the reason a fault may
make a page writable when the count is 1); `Cached`, that the processor has cached
nothing the active table does not say, which is what each invalidation in the code
is for; `Reads`, that a live process finds in its pages what it wrote; `Waits`, that
a call in its sleep has a page of its own; and `SlotsEmpty`. A count is a number of
leaves plus a number of roots. `RowExact` and `RootExact` say that counts stay exact
when one table, or one root, is replaced and each count follows it; every action
is one or more such replacements, those undone for want of a frame included.

`ProcessesProofs` proves of processes, for any number of processes, any programs and any signals
with SIGCHLD among them, and SIGALRM where a program sets alarms:

- `ProcessesInductive`: `ProcInv` holds at first and every step preserves it
- `NoChildSleptThrough`: `Spec => []NoLostChild`
- `NobodyWaitsInVain`: `Spec => []WaiterHasChild`
- `EndedAreCollectable`: `Spec => []EndedHaveCollector`
- `StopIsSleep`: `Spec => []StoppedIffAsleepStopped`
- `PauseIsHeard`: `Spec => []PauseHearsSignals`

The four about sleep are not inductive by themselves: whether an ending wakes the
parent depends on where the parent's thread stands. `ProcInv` adds `Threads` (the
thread of a process, its state and where it stands fit one another; one thread
runs), `Families` (identifiers are never reused, a parent is older than its child,
and while init lives every other process has a parent alive, so that an adoption
goes to somebody who can be woken) and `Alarms`. `EndedHaveCollector` follows from
`Families`.

`ProcessorsProofs` proves of the start and the shootdown, for any number of processors, areas and mappings:

- `ProcessorsInductive`: `ProcessorsInv` holds at first and every step preserves it
- `AreasNeverShared`: `ProcessorsSpec => []AreasApart`
- `NoStaleTranslation`: `ProcessorsSpec => []TranslationsGone`

An index is prepared by the count at one time and claimed by the count at another.
`Areas` says that whoever has joined passed the comparison with an index below the
count, and that no two did with the same; it holds whoever comes late, because the
count only grows. The rest, `OnTime`, is claimed until `late`. `Starting` says
that only the processor the loop is at is on its way, and that it has claimed its
area exactly when the count has passed what was prepared for it; `Counted` that the
count is one more than the owners. The shootdown counts answers without names:
`Requests` says that there is a set of owners that have answered, that the others
are as many as are still counted, and that nobody in the set translates the page.
When none is left to count, the set is all of them. `Translations` confines what
may be stale to the page of the request under way.

`ProcessesProofs` proves of `init`, for any table of services, restart limit and number of
requests and orphans:

- `SupervisorInductive`: `SupervisorInv` holds at first and every step preserves it
- `NeverTwoOfOne`: `SupervisorSpec => []OneOfEach`

`OneChild` says a child of a service that is not collected is the only one, and is
the one `init` has the number of if it has one; `Limited` ties starts to failures
(a service is started again only after a collection); `Loops` that the first loop
has started nothing it has not come to; `Adopted` bounds the orphans.

`StorageProofs` proves of the cache, for any finite set of clients and any blocks, values and
capacity:

- `CacheInductive`: `CacheInv` holds at first and every step preserves it
- `BuffersStaySound`: `CacheSpec => []BuffersSound`
- `CacheIsStore`: `CacheSpec => IsStore`

`CacheInv` is the types with `Held` (a count is the number of holders, and a holder's
buffer has the block it asked for), `Placed` (one buffer to a block, of a registered
device) and `Written` (what is not dirty is on the medium). For the refinement,
`ContentsIs` says what a reader of a block finds, one way if it has a buffer and the
other if not; `Settles` that a medium each of whose blocks is as before or as the
cache has it is a step the store permits. Each call is then a step of `Store`: an
eviction changes what is durable and not what is read, because the block it gives
up was written back or was not dirty.

`CacheTypeCorrect` gives the types alone. `BuffersStayListed`
(`CacheSpec => []EachListedOnce`) is a theorem beside these, since nothing else depends
on the recency list: `ListInv` says that the list has as many places as there are
entries and no entry twice. A touch moves one entry to the front; a device's
removal discards entries one after another by a recursive function, and that each
step of it keeps the list whole is shown by supposing a least step which does not.

`MemoryProofs` proves of the kernel's arena, for any sizes (`ArenaAssumption`):

- `ArenaStaysSound`: `ArenaInit /\ [][ArenaNext]_arenaVars => []ArenaSound`

`ArenaInv` is `PlacesStand` (the ranges of the free list are in order, never adjacent
and fit the array, and each page below the bump pointer is free, allocated, a
device's, a slab or forfeit, and one of these alone), `UseStands` (each page is mapped
as what it is held for, and the count is exact) and `HeapSound` (the same of the
heap's objects). The merge of a release with the range before, the range after, both
or neither is four cases of lists; `ListFacts` says what inserting and removing do.

`StorageProofs` and `VolumeProofs` prove of one ext2 volume, for any sizes of it, any
finite set of names and any order of calls, refusals, mounts and stops
(`VolumeAssumption`; a count of links is a cardinality of names, so the names are
finitely many):

- `ClosedFilesAreDurable`: `VolumeSpec => []ClosedIsDurable`
- `VolumeTypeCorrect`: `VolumeSpec => []VolumeTypeOK`

and, for a volume that `persist.c` did not adopt (`PersistAdopts = FALSE`):

- `MarkedMediumIsSettled`: `VolumeSpec => []MarkedIsSettled`
- `MountedVolumeIsSound`: `VolumeSpec => []MountedIsSound`
- `CleanMediumIsSound`: `VolumeSpec => []CleanMeansSound`

`VolumeTypeOK` is about every version of every buffer, the one read and those a stop
may leave on the medium: its pointers lead to blocks of the volume and its names to
inodes. A call of ext2 is up to a dozen writes, any of which may be refused; the model
carries a record through them, and the proof follows that record write by write
(`Sane`). Freeing a table of pointers is a recursive function, followed by least
elements as above. `VolumeInv` adds `Unmarked`: while the volume is mounted for
writing, no version of the superblock bears the mark. `SettledWhenClosed`, from which
`ClosedFilesAreDurable` follows, is preserved because the close of the last file ends
in a synchronisation.

`CleanInv` is the order of writes upon which the mark rests: whenever the volume is
not mounted for writing, every buffer but the superblock's is on the medium as it is
read, and of the superblock only the mark may be in doubt (`Clean`, `MarkKnown`). The
mount clears the mark and settles it before anything else is written; the unmount
settles everything and writes the mark last. An adopted volume breaks it, and is the
hazard named at `persist.c:295`, which is why the assumption stands.

`MountedVolumeIsSound` is the largest proof here. What has to agree is spread over the
volume: the maps, the counts of the group and of the superblock, the inodes on it, the
inodes of the nodes in memory, which may be ahead of those, and the blocks of names.
The invariant is taken apart by what a write can disturb:

- the names, as a set of triples of directory, name and inode: `NamesStand` (a name
  is of a directory, leads to an inode in use, is the only one in its directory, and a
  directory has no other), `LinksStand` (the counts of links are those names);
- the ledger of blocks: each block pointed at is marked used and has one pointer
  (`Owned`), each block used has one (`Spent`), and the counts of free blocks are what
  the map says (`Books`);
- of each inode, what the node in memory may have that the volume has not (`Tallies`).

`Sturdy` joins the last two and `NamesHold` is the first, both as they are between
operations. In the middle of one, a single inode is in hand and ahead of all else:
`Under` says how the ledger counts it, `Stepped` and `Worked` what one allocation,
release or write of it leaves, and `Firm` that it has been put back. So each primitive
(an allocation, the map of a block of a file, a truncation, a name added or removed)
has a lemma which speaks of one inode, and each call is a chain of these from `Ready`
to `Ended`. All of them take a parameter, `tight`: that nothing is lost. It is given up
when an allocation finds the volume full, since the code then returns with what it
had already taken; the other parts must hold regardless. `MountedIsSound` says that
nothing is lost of a volume that never was full, and that is `Mounted`, in which
`tight` is `~full`. `SoundInv` is `Mounted` while the volume is mounted for writing;
that no file is open when it is not, and no node in memory but perhaps the root's
(`PutAway`); and, of a volume unmounted,
`Rests`, that is the same with the inodes as the volume has them.

`CleanMediumIsSound` then follows from `CleanInv` and `SoundInv`: a medium that bears the
mark is the volume as it was at the unmount, apart from the mark, and `Rests` does
not look at the mark (`MarkRests`).

`StorageProofs` has the lemmas on names, on pointers and the map of blocks, and on the
operations on one inode; `VolumeProofs` has the calls and the two theorems on
soundness.

`DesktopProofs` proves of the terminal, for any processes, groups and sizes of the
queues:

- `TerminalTypeCorrect`: `TerminalSpec => []TerminalTypeOK`

and of the window manager, for any numbers of windows, programs and events:

- `WindowsTypeCorrect`: the types, by `WindowsInv`
- `FocusIsOnTop`: `WindowsSpec => []KeysGoToTop`
- `PointerStaysBound`: `WindowsSpec => []PointerBound`
- `NoneSleepsOverEvents`: `WindowsSpec => []SleepersHaveNothing`

`WindowsInv` says that the screen is `Good` (the stack holds each window in use once, the
focus is on the topmost window that can have it, a press or a drag binds a window
that is shown), and that who sleeps has nothing queued. An exit destroys all the
windows of a program, one by one, and each destruction may pass the focus on and
queue an event for somebody else: `DestroyOwnedBy` is a recursive function, and that
the screen stays good along it is a least-element argument.

`ListFacts` holds what these share: a non-empty set of naturals has a least member
and, if bounded, a greatest; what `RemoveAt`, `InsertAt` and the removal and addition of
a member do to a list. The library's induction theorems take an operator as
parameter and cannot be used; well-foundedness of the naturals takes a set, and what
a recursive *function* does over an interval follows from it.

Every inductive invariant was checked by TLC on the instance of its run before it
was proved.

Only model-checked, and why:

- liveness (`NoStarvation`, `KillReaches`, `RequestHeard`, `EndedCollected`,
  `OneReaderProgresses`), which is beyond this prover;
- the invariants of `Mounts` (`NodesCounted`, `TreeHangsTogether`, `UpUndoesDown`), whose
  walk follows links and stacked mounts by recursive operators, in a module of which
  the prover can show nothing.

## 5. Where the code and its comments disagree

1. `KillUnheard`. `kernel/proc/signal.c:155` withholds SIGKILL from programs "so
   that a process can always be ended", and line 296 leaves a queued target alone
   because "its next way out of the kernel finds the bit". A forked child's first
   entry to its program (`ThreadTrampolineEntry`) is a way out without a delivery:
   a child killed before it first ran, whose first call sleeps upon a pipe, sleeps
   with SIGKILL pending, and no later SIGKILL of the governor need come. A tick
   that finds it at privilege level 3 first would end it; nothing makes it come.
2. `ContinueIgnored`. The comment at `kernel/proc/signal.c:238` makes SIGCONT to a
   stopped process "the exception" to discarding; the test for an ignored signal
   stands before it, so a stopped process that ignores SIGCONT stays stopped.
3. `ShutdownWaits`. `userland/init/main.c:362` says a service that will not stop
   "is not waited upon for ever"; the wait below it has no bound.
4. `ReadersFreeze`. `kernel/arch/x86_64/syscall/syscall.c:1788` says its loop is
   "the whole of what keeps one terminal to one reader", and line 1811 "One reader
   remains, and it makes progress". `TerminalCallerMayWait`
   (`kernel/terminal/terminal.c:383`) lets every process of the foreground group
   wait, and every process where there is no such group. Two of them yield to one
   another with interrupts masked, neither halts, and no interrupt is taken again.
5. `UnmountFails`. `kernel/fs/ext2_vfs.c:324` says "A failure to write is reported
   but does not prevent the unmount from completing". `VfsUnmount`
   (`kernel/fs/vfs/mount.c:449`) returns upon that report, with the volume freed and
   the root released but the mount still in the table: its device counts as mounted
   for ever, and a second unmount is refused because the mount holds no volume.

Five more have no run of their own. The first two are what the properties named
leave out, and TLC finds each as soon as the exemption is struck out; the model has
the other three as steps, and no property is claimed that they would break.

6. `KillReaches` without `Outranked`. `SignalDeliver` takes the lowest pending number
   first and returns once it has entered a handler
   (`kernel/arch/x86_64/syscall/sigframe.c:316`). A process with SIGKILL and a handled
   SIGINT pending leaves the kernel into the handler, against the two comments of item
   1, and its next call may sleep upon a pipe with SIGKILL pending.
7. `RequestHeard` without `Unheard`. `userland/init/main.c:361` means to "Stop every
   service and collect it, so that the machine stops". A service that a tick pre-empts
   between `OxysFork` and `OxysExecve` (line 239) has init's handler of SIGTERM, which
   records the request in the child's own memory; the program is then executed and runs
   on, and `OxysWaitFor` waits for it without end, though SIGTERM would have ended it.
8. `kernel/proc/process.c:1567` says init "is woken so that its `wait` finds it at once,
   rather than at the next ending of one of its own children". An orphan that has ended
   and is handed over between the ECHILD of `waitpid` and the sleep of `pause`
   (`userland/init/main.c:403`) wakes a process that is not asleep (`WakePause`), and
   its SIGCHLD is discarded: init sleeps with the orphan uncollected.
9. `kernel/terminal/terminal.c:406` says of a reader whose terminal was taken while it
   waited that it "is no longer entitled to the bytes", and `syscall.c:1808` that "the
   wait now returns the moment the caller is no longer the foreground group". The wait
   looks for input first (`terminal.c:404`; the first disjunct of `Turn`), so bytes
   that came since go to that reader.
10. `kernel/arch/x86_64/smp/smp.c:587` says of the index prepared and the
   one claimed "They agree because the processors are started one at a time and each
   is waited for", and that "there is no correct way to continue with two processors
   upon one stack". The waits run out (`smp.c:827`), the processor given up is not
   stopped, and its successor is given its stack (`StartProcessor`, `LoadStack`). Both
   run upon it as far as the comparison, which one of them may pass (`ClaimArea`):
   `AreasApart` is about those that have passed it. The comment at `smp.c:260`, that a
   processor which never answered "cannot be executing anywhere", is of the same
   window.

## 6. Not modelled, and the plan

Left out for good: drawing, fonts, drivers, ACPI, boot, cryptography, the parser
and the variables of the shell, the string work of the C library, and the programs
with one window and one event loop. They are sequential, or compute pixels, or
their behaviour is the hardware's. The kernel's own tests (some 31 thousand lines),
the data of fonts and pictures (some 12 thousand) and the headers (some 14
thousand) are more than half of the repository's lines and hold no behaviour to
model; the models stand for the parts where several actors meet.

Left out of modelled parts: the read-only filesystems and working directories;
several block groups, double and triple indirection and partial blocks of ext2; the
geometry of windows; the validation of executables; the path that runs a child by
a call before the scheduler is prepared.

What is left, in this order:

1. Proofs: `NodesCounted` of `Mounts`, after its recursive operators are recast as
   functions bounded by the number of mounts and the depth of links.
2. The growing tables (`kernel/mm/table.c`) beneath `Mounts` and `Processes`, whose
   stable slots the models take for granted.
3. The session's program (`userland/session/main.c`) as a client of `Windows`.
