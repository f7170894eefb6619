# A TLA+ model of this xv6

The repository is xv6 with kernel threads added: `clone` and `join`, the blocking
calls `setpark`, `park` and `unpark`, and a user-level thread library (mutex,
condition variable, semaphore) built on them. This directory models the kernel and
the programs around it in TLA+, checks the models with TLC on small instances, and
proves with TLAPS, for every instance, what matters most about the mutex, the
condition variable, the heap, the process table and its memory, pipes, the console
and the disk.

`PROJECT.json` ties everything together: which lines each definition models, which
run checks which property, a mutation of the code that each property detects, the
hazards of the code, and the theorems.

## The system

| part | source | modules |
|---|---|---|
| park calls, kill | `kernel/proc.c`, `proc.h` | `Park` |
| mutex over spinlock and pid queue | `user/mutex.c`, `spinlock.c`, `pidqueue.c` | `Mutex`, `MutexClient`, `FifoLock`; proofs `MutexProofs` |
| condition variable, semaphore | `user/condvar.c`, `semaphore.c` | `CondVar`, `Semaphore` |
| bounded-buffer tests | `user/p4test.c` | `Ring`, `BoundedFifo`, `CondBuffer`, `SemBuffer`; proofs `CondProofs` |
| malloc, thread_create, thread_join | `user/umalloc.c`, `threads.c` | `Heap`, `Allocator`; proofs `HeapProofs` |
| process table, scheduler, sleep and wakeup | `kernel/proc.c`, `sysproc.c`, `trap.c`, `user/init.c` | `Proc`; proofs `ProcProofs`, `ThreadProofs` |
| pages and page directories | `kernel/kalloc.c`, `vm.c`, `exec.c` | `Vm` (under `Proc`) |
| pipe | `kernel/pipe.c`, `file.c` | `Pipe`; proofs `PipeProofs` |
| kernel spinlocks, console | `kernel/spinlock.c`, `console.c` | `KSpinlock`, `Console`; proofs `ConsoleProofs` |
| buffer cache, disk driver | `kernel/bio.c`, `ide.c` | `Bio`, `SectorStore`; proofs `DiskProofs` |
| file system, file table, system calls on files | `kernel/fs.c`, `file.c`, `sysfile.c` | `Fs`, `Files` |
| mkfs, layout of the disk | `tools/mkfs.c`, `include/fs.h` | `Mkfs`, `Layout`; proofs `DiskProofs` |
| shell, init | `user/sh.c`, `init.c` | `ShParse`, `Shell` |

How they interact. A user thread in `mutex_lock` enqueues its pid, calls `setpark`,
drops the guard and calls `park`; the owner dequeues the pid and calls `unpark`.
`cv_wait` does the same with the queue of the condition variable and calls the mutex
in the middle; the semaphore is a counter under a mutex and a condition variable. In
the kernel the park calls change an entry of the process table, as do `sleep`,
`wakeup`, `kill`, `exit` and the scheduler. Pipes, the console and the buffer cache
block with `sleep` and `wakeup` under locks of their own. The system calls on files
lock inodes and use the buffer cache, which waits for the disk's interrupt. The shell
wires programs together with `fork`, `pipe`, `dup` and `close`.

Composition follows the code: `Mutex` extends `Park`, `CondVar` extends `Mutex`,
`Semaphore` extends `CondVar` and the buffer programs extend those with `Ring`; `Proc`
extends `Park` and `Vm`; `Console` extends `KSpinlock`; `Files` extends `Fs` and
starts from the image of `Mkfs`; `Shell` extends `ShParse`. Between `Files` and `Bio`
the boundary is the abstract `SectorStore`: `Bio` is shown to implement it, and
`Files` uses a block as one step.

## Modules

`Park` holds the fields `state, isParked, immediateUnpark, setPark, killed` of
`struct proc` and gives the effect of `setpark`, `park`, `unpark` and `kill` on them,
each under `ptable.lock` and so one step. It has no behaviour of its own.

`Mutex` gives every thread a place whose names are the statements of `mutex.c`: `ml_*`
for `mutex_lock`, `mu_*` for `mutex_unlock`. What is done between two accesses to
shared data is one step. A runnable thread can always take a step, so every
interleaving is covered; a killed thread may die before any statement (`Die`), as a
timer interrupt can come anywhere. `MutexClient` has threads lock and unlock as
`add()` in `p4test.c` does. `FifoLock` is what the mutex promises: an owner and a
first-come-first-served queue, with the lock handed over at release.

`CondVar` (`cw_*`, `sg_*`, `bc_*`) and `Semaphore` (`sw_*`, `sp_*`) go on in the same
way. `CondBuffer` and `SemBuffer` are the two producer/consumer programs over `Ring`,
whose `put` and `get` are two steps each, so that a failure of exclusion is visible.
`BoundedFifo` is what both promise. With `Broadcast` a thread may at each wake choose
`cv_broadcast` instead of the `cv_signal` of `p4test.c`.

`Heap` is the sorted circular free list of `umalloc.c` behind `mallocLock`, walked one
block at a time by the threads of a process, with `sbrk` that may fail;
`thread_create` and `thread_join` take and return their stacks there. `Allocator` is
the promise: a block given out is apart from all blocks in use.

`Proc` is the process table. `proc[c]` is the process on CPU `c`, `kpc[s]` where
process `s` is in the kernel. A step is a stretch of code under `ptable.lock`. `fork`,
`clone` and `exec` work without it and are split where another CPU can see the
difference, with their error paths (`fork_fail`, `clone_fail`, `clone_bad`,
`exec_fail`, `exec_bad`). `wait`, `join` and `sys_sleep` sleep and resume at the test of
their loop; `scheduler` walks the table with a cursor per CPU. `Vm` counts the pages
that the free list, every directory and every kernel stack have, and says what
`setupkvm`, `allocuvm`, `copyuvm`, `deallocuvm` and `freevm` do when `kalloc` fails at
any page. Which calls the programs make is a constant of each run.

`Pipe` is one pipe and the processes that hold its ends. Each byte is a step, `sleep`
releases the lock, and `kill`, which does not take it, may come between the test of
`killed` and `sleep`. The counters wrap at `W`.

`KSpinlock` has `acquire`, `release`, `pushcli` and `popcli` statement by statement, on
CPUs with interrupt flags, by processes that move between CPUs and by an interrupt
handler. `Console` runs `consoleread`, `consolewrite` and `consoleintr` on these locks.

`Bio` has the buffers, their flags and LRU list, the request queue of the driver, the
drive and the platter. `SectorStore` is the promise to the file system: one user of a
sector at a time, contents changed by that user only, and lost only by a request that
the drive failed.

`Fs` has the functions of `fs.c` as operators on a record of disk and inode cache;
a block is `BSIZE` cells. `Files` has the system calls on them: a step is what a call
does from one lock of an inode, or one section of `icache.lock`, to the next. `Mkfs` is
the image `mkfs` writes. `Layout` is the arithmetic of `fs.h` against that of `mkfs.c`.

`ShParse` is the recursive-descent parser on tokens; `Line` is its inverse. `Shell` is
`main` and the processes in `runcmd` with their descriptors, where `fork`, `pipe`,
`open` and `exec` may fail, and `init`, which starts a new shell.

`MC*` modules give values to constants, and state the checks of pure functions.

## Runs

| run | instance | states | what it shows |
|---|---|---|---|
| `mutex` | 3 threads, 2 killable | 158,424 | mutual exclusion, the inductive invariant, refinement of `FifoLock`; a queued thread gets the mutex unless a thread was killed |
| `cond_buffer` | 1 producer of 3 items, 2 consumers, ring of 2 | 247,320 | refinement of `BoundedFifo`, no lost signal or unpark, every thread finishes though some are woken in vain |
| `sem_buffer` | 1 producer of 3 items, 2 consumers of 1 each, ring of 2 | 527,115 | refinement of `BoundedFifo`, every thread finishes |
| `heap` | 2 threads, 4 calls, blocks smaller and larger than `sbrk`'s | 156,584 | every unit is in one block, blocks in use are apart (refinement of `Allocator`), every call returns unless `free(0)` has killed a thread |
| `proc_processes` | 2 CPUs, 3 entries, 13 pages that may run out, `sbrk` by -3, -2 and 2 | 875,579 | one CPU per process, parents alive, each page has one owner and none is lost but in `setupkvm` |
| `proc_threads` | 1 CPU, 4 entries, clone, join, park, failures | 604,868 | no exit missed by `wait` or `join`, threads keep their memory, stacks freed once |
| `proc_live` | 1 CPU, 3 entries, clone, kill, sleep, wait, join, park, fair timer | 87,670 | no starvation, killed processes exit, `init` reaps orphans |
| `pipe` | 3 processes, 2 at each end, size 2, wrap at 4, one killable | 73,963 | bytes in order across the wrap, no use after free, 0 only at end of file, every call returns |
| `console` | 2 CPUs, 2 processes, 6 keys, buffer of 2, wrap at 4 | 1,105,036 | locks held by one context with interrupts off, input in order, no reader asleep on a line |
| `disk` | 3 processes, 3 sectors, 2 buffers, one failing request | 108,004 | one buffer per sector, refinement of `SectorStore`, every request is served |
| `files` | 2 processes, 2 calls each of 17, 5 inodes, 9 blocks | 210,973 | references, links and blocks counted right, no panic but for what is full, no deadlock |
| `shell` | 2 lines of 4 commands, any call failing | 51,935 | programs have the descriptors the line says and no others, `;` waits, the prompt comes back |

`Termination`, `CallsReturn`, `QueuedGetsLock`, `RequestsServed`, `PromptReturns` and
the properties of `proc_live` are liveness properties; the refinements are checked as
the abstract specification. Four more facts are evaluated once, as assumptions, because
they are about functions or one state: `ParserInverts` (the parser gives back every
command with at most two constructors around its words), `MkfsIsRead` (files of every
size, and subdirectories, written by `Mkfs` are read back by `Fs`, and the bitmaps
agree), `ImageIsWhole` (the image `files` starts from has a block for every place below
a size) and `LookupAllocates` (a lookup in one that has not; see the deviations).

### Bounds and why they are enough

Three threads let one hold the mutex, one be handed it and one queue behind; two
mutexes add nothing, as mutexes share only the threads. A ring of two
places holds two items at once, so that their order can be wrong, and three items go
round it; the producer still finds it full and the consumers empty. Both
consumers can wait at once, so that a broadcast wakes one too many. Three entries
give init, a child and a grandchild, and two CPUs what can happen at once; the table
is full, and reused, in every run. `MaxPid` bounds the forks, `USERTOP` the pages of a
process, `NPAGES` all pages, `MaxLost` those that `setupkvm` drops. The amounts for `sbrk`
(`Growth`) take a process above and below its size, to exactly 0 and below 0. In
`proc_live` a third process is the last: a thread that outlives its process cannot
`fork` there, and so not panic, which the properties except. The pipe's counters
wrap in five bytes (`MaxSent`) with `W = 4`; `W` is a multiple of `PIPESIZE`, as 2^32 is
of 512, and likewise `WORD` of `INPUT_BUF`. Three sectors in two buffers make every
second read recycle a buffer; `MaxErrors` bounds the failed requests. Two-cell blocks,
one direct address and an indirect block let a file reach both kinds of address. The
file calls are chosen so that each pair that meets in one directory or on one inode is
there (create and rmdir, link and unlink, close and write). `Top` bounds the heap and
`MaxCalls` the calls. The lines of `Shell` have every constructor, nested pipes, and a
redirection around a list and around a pipe.

`CHECK_DEADLOCK FALSE` is set where the system may stop: killed threads die and may
take the mutex with them, programs finish or have made their calls, ends of the pipe
are closed, the console gets no key, `proc_threads` ends after an `unpark` of an unknown
pid, and a shell that hangs violates `PromptReturns`.

### Fairness

Threads of the library: weak fairness of each thread's next step. The scheduler is
round-robin and the timer interrupts everyone; `NoStarvation` shows that a runnable
process gets a CPU. Nobody is obliged to *call* `mutex_lock`. The guard is not fair,
so only threads that have reached the queue are promised the mutex.

`Proc`: weak fairness of the timer, of each CPU's scheduler and of `yield`; strong
fairness of a process's step when it is in the kernel, killed, or init, since it is
interrupted again and again but has time for a step in every slice.

`Pipe`: weak fairness in the kernel, strong fairness of `close`: a process may do other
calls first, and `exit` closes its files. `CallsReturn` excepts a process that sleeps
at one end and keeps the other open: it waits for itself, as pipes are meant to behave.

`Bio`: weak fairness of each process and of the interrupt, which a drive raises after
every command. `Heap` and `Shell`: weak fairness of each thread or process. A program
that reads a pipe reads to its end; others may end at any time.

### Known deviations

What the models do that comments, tests or good sense say otherwise. The properties
are stated for what does hold; the list says where they stop.

Threads and processes:

* `growproc` misses a thread whose `clone` has copied `sz` but not set `parent`, and
  threads of threads (`proc.c:130`, against part 1 d of `src/README`); `sbrk`
  in a forked child or while `fork` fills in an entry that a thread used before
  changes `sz` of processes that share no memory (`proc.c:139`).
* `wait` skips threads, so one that was not joined stays a zombie for ever
  (`proc.c:319`, against the comment at 261).
* `unpark` of an unknown pid works on the entry past the table (`proc.c:639`).
* `isThread` and the park flags survive the reuse of an entry (`proc.c:326`), and an
  entry given back by a failing `fork` or `clone` keeps its pid, which `kill` finds.
* A process killed on its way into `park` sleeps there until it is unparked
  (`proc.c:577`); `KilledExits` excepts it.
* `holding()` is called with interrupts on, so its two reads may be of two CPUs.
* `setupkvm` drops the pages it has when it fails half way (`vm.c:144`): `mem.lost` in
  `PagesConserved`. `sbrk(-sz)` frees all pages, and only then takes the size 0 for an
  error: it returns -1 and leaves `sz` (`proc.c:122`). The program is gone, and the
  process with it at the next trap (`kpc = "gone"`, excepted in `MemoryOwned`). `sbrk` of
  less than `-sz` wraps and reports success without an effect.
* `exec` by a thread frees the memory of its process; `fork` that fails in init ends in
  the panic "init exiting".
* `thread_create` passes a null stack on when `malloc` fails and keeps the stack when
  `clone` fails. `thread_join` of a thread with a null stack calls `free(0)`, which
  reads a header above user memory: the trap kills the caller inside `mallocLock`, and
  every later `malloc` or `free` of the process spins for ever (`page_fault`, excepted in
  `CallsReturn`). `thread_join` also frees a pointer that a failed `join` has not set
  (`threads.c:15`); the threads of `Heap` join what they have created. `sbrk` by two threads at once may return one address
  (`sysproc.c:52`); `malloc` is safe because of its lock.

Disk and files:

* A read that the drive fails makes its buffer valid (`ide.c:109`); `SectorStore` calls
  such a sector suspect. `bget` panics when all buffers are busy.
* `balloc` tries all bits of a bitmap sector, past the size of the disk.
* `mkfs` gives a directory one link and rounds its size up to whole blocks, and one
  block too many if it was whole already (`mkfs.c:191`). The kernel's lookups then ask
  `bmap` for a block that is not there, and `bmap` allocates it in the inode in memory
  only (`fs.c:475`, `fs.c:412`). An entry that `create` later puts there is below `size`,
  so `writei` does not write the inode either: the block and the entry are lost when the
  inode leaves the cache. `Fs` has this (`Visit`), `LookupAllocates` in `MCFiles` shows it,
  and `BlocksOwned` is stated for images without such a directory.
* `create` or `link` in a directory that was removed meanwhile leaves an inode that is
  never freed (`stray` in `Files`). `..` of a removed directory may be an inode that is
  free, which ends in "ilock: no type"; the calls of `files` use `.` but not `..`.

Console and shell:

* A killed reader stays asleep in `consoleread` until the next line; echoed characters
  are written without `cons.lock`.
* `>>` opens like `>`. If the second `fork1` of a pipe fails the shell goes on while the
  left side runs; `Sequenced` is stated for lines without a failed fork.

## Proofs

| module | theorems | for every |
|---|---|---|
| `MutexProofs` | `MutexInvariant`, `TypeCorrect`, `MutualExclusionHolds`, `NoLostHandoffHolds`, `AwokenOwnsHolds`, `FlagMeansOwnedHolds`, `MutexRefinesFifoLock` | set of threads, mutexes and killable threads |
| `CondProofs` | `CondInvariant`, `NoLostWakeupHolds`, `BufferIsFifo` | set of producers and consumers, turns of each, `MAX`, with `cv_signal` or `cv_broadcast` |
| `HeapProofs` | `HeapInvariant`, `UnitsTiled`, `HeapRefinesAllocator` | set of threads, requests, `NALLOC`, size of memory |
| `ProcProofs` | `ProcInvariant`, `OnOneCpuHolds`, `ParentAliveHolds`, `NoMissedExitHolds`, `MemoryOwnedHolds` | number of entries, set of CPUs, choice of calls, failure of `kalloc` |
| `ThreadProofs` | `ThreadsHaveMemoryHolds` | the same |
| `PipeProofs` | `PipeInvariant`, `InOrderHolds`, `NoUseAfterFreeHolds`, `ZeroMeansEofHolds` | set of processes, `PIPESIZE`, `W`, lengths of calls |
| `ConsoleProofs` | `SpinInvariant`, `LocksHeldHolds`, `ReadersWokenHolds`, `InputInOrderHolds` | set of CPUs and processes, `INPUT_BUF`, `WORD` |
| `DiskProofs` | `BioInvariant`, `OneBufferPerSectorHolds`, `CacheRefinesStore`; `RegionsApart`, `PlacesApart`, `MkfsAgrees`, `DiskFits` | set of processes, sectors and contents, `NBUF`, failing requests; number of inodes, size of disk |

The assumptions are the named `ASSUME`s of the modules, which TLC evaluates in the
runs: that names such as `NoOne` are none of the things they stand beside, that sizes
are positive, and that the width of a wrapping counter is a multiple of the size of
its buffer (`W`, `WORD`). Two theorems have a hypothesis on what programs do, stated
where it is used: `NoThreads` (`MemoryOwnedHolds`: nobody calls `clone`, as threads
share memory, or `unpark` with a wild pid) and `Joined` (`ThreadsHaveMemoryHolds`:
a process joins its threads before it exits, there is neither `kill` nor `exec`, which
take the memory from under them, and `sbrk` only grows, as its threads lose the first
page too when it shrinks to 0; see the deviations). The runs
`proc_processes` and `proc_threads` satisfy them.

*Mutex.* Mutual exclusion is not inductive. A thread owns the mutex because it found
`flag = 0` or because an unlocker took it off the queue, and then only the park flags
tell whether its `park` returns. `MutexInv` relates who holds the guard (`GuardInv`),
that queue entries are threads in the slow path, once each (`QueueInv`), that `flag`
is 1 exactly while one thread owns the mutex (`OwnerInv`), what the park flags say of
the position of a thread (`ParkInv`), and that the thread an unlocker is about to
unpark is parking and off the queue (`WakeInv`). The induction has one lemma per action
and frame lemmas for what an action leaves alone.

*Condition variable.* `CondInv` has the same parts for two kinds of queues. A thread in
`cv_wait` calls `mutex_unlock` between `setpark` and `park`, so that it may be on the
queue of the condition variable while it stands in the mutex, and be woken there;
`Due` says who still has an unpark to come, and `ParkOK` that exactly these sleep.
`BufferIsFifo` adds `RingInv`: the indices against the count, and what a thread knows
of the ring once it holds the mutex (`Knows`): its test of `count` still holds at `put`
or `get`, because owners exclude each other and re-test after a wait.

*Heap.* `HeapInv` says that the free list is circular, sorted and merged (`ListInv`),
that all blocks lie apart and cover the memory (`SpaceInv`), that a block is free or
has one owner (`OwnInv`), and that the thread with the lock stands at a block of the
list while it walks (`ThreadOK`). Sortedness is a statement about neighbours: no
block lies between one and its successor. The lemmas show that unlinking, splitting,
inserting and merging on either side keep it; `free` needs it for its wrap-around test.
`NullInv` says that nobody frees a null stack before the list exists: the first
`malloc` of `thread_create` makes it, even if it fails.

*Process table.* `ProcInv` adds to the three properties what makes them inductive:
`fork` and `clone` fill in an entry without the lock, so an entry being made belongs to
one maker, which is not asleep, and has its parent from a known point on
(`MakingInv`); `init` is never a zombie (`InitInv`), so that `exit` may give it the
children; nobody else is its own child (`SelfInv`), or `exit` would give init the exiting
process itself without waking init for it; and whoever sleeps in `wait` or `join` does so
on its own entry (`WaitInv`), which is what `exit` wakes. There is a lemma per way of
changing the table (an entry is taken, given back, run, put to sleep, woken, reaped, or
exits), and one per action that maps it to them.

*Memory.* That directories and processes are one to one breaks in the middle of `fork`
and `exec`, where a directory belongs to no process yet. `MemInv` counts those too
(`Building`): live processes and builders hold all directories, each its own, with the
pages up to `sz` (none after `sbrk(-sz)`), or those the call is making. For threads, `ThrInv` says that only
processes (`Root`) own directories, that a thread has the directory of its parent and
of a process that has not exited, and that threads are not each other's ancestors
(`TreeInv`): a process that has joined has no thread below it, and with a circle of
threads that would not follow. Without induction this is said of sets: of any threads
one has its parent outside.

*Pipe.* The counters wrap, so that nothing about their difference is inductive.
`Bytes` ties them to the numbers of bytes written and read, which do not wrap, and
places byte `j + 1` at `j % PIPESIZE`; lemmas on remainders show that the tests of the
code (`Full`, `Empty`) decide the same on the wrapped counters. `Locked`, `Open` and
`Copying` say who holds the lock, which ends are open, and that a reader that left
the wait has found bytes or no writer.

*Console.* `SpinInv` is about any context on any CPU: a lock has one holder, whose CPU
is written in it, and `ncli` counts the locks of the context that the CPU runs, the
interrupt handler before the process under it. From it follow the tests before each
panic. `SleepInv` (a reader sleeps or is about to only while nothing can be read) uses
that the test and the sleep are under the lock of the input; `InputInv` describes the
ring with the line being edited at its end.

*Disk.* `BioInv` has, besides `OneBufferPerSector`, which process has which buffer by
where it stands (`HasBuffer`), what is in the queue and in the drive (`Queued`), and
that an idle valid buffer is as on the platter or its sector is suspect (`Coherent`),
without which recycling it would lose a write. The theorems on the layout are
arithmetic on `fs.h` and `mkfs.c`.

Only model-checked:

* what has fairness: liveness and `ENABLED` are beyond the prover;
* `PagesConserved` and `UnitsConserved`: a sum over
  a set needs induction over it. `UnitsTiled` says the same of the heap without a sum;
* `Files` and `Shell`, whose modules use recursive operators (paths, parsing, bitmaps), and
  what the functions of the parser and of `mkfs` compute (induction over data), for
  which the assumptions above check bounded inputs;
* `SemBuffer`: its argument is that of `CondBuffer` once more for each semaphore, with
  the mutex of the buffer inside.

## Not modelled

* Boot code, device registers, the keyboard and serial drivers, the context switch:
  hardware, or run once before anything is concurrent.
* System call entry and the fetching of arguments: functions of the registers without
  state of their own.
* The contents of pages, the trap frame, segments and the ELF format: no modelled
  property depends on them; `exec` is its allocations and the moment it commits.
* Utilities, test programs and `printf`: sequential programs that use the kernel
  through the calls modelled here. Of the shell `cd`, `nulterminate` and the reading of
  characters into tokens.
* `cprintf`, the screen and `procdump`'s output; `procdump` itself takes no lock on the
  table.
* `malloc` of a queue cell in `pidqueue.c` is taken to succeed; `xchg` is taken to order
  memory as on the x86.
