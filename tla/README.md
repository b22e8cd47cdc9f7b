# xv6 in TLA+

A model of the xv6 kernel in `src/`: TLA+ modules translated from the C code, TLC
configurations that check them on small instances, and theorems checked by TLAPS.

## The system

xv6 is a Unix-like kernel for x86 multiprocessors. Its parts, bottom up:

| part | source | state |
|---|---|---|
| spin locks, sleep locks | `spinlock.c`, `sleeplock.c` | lock words, per-CPU interrupt nesting |
| processes and scheduler | `proc.c`, `swtch.S` | process table, one scheduler thread per CPU |
| traps and system calls | `trap.c`, `syscall.c` | `killed` checks, timer, device interrupts |
| memory | `kalloc.c`, `vm.c`, `exec.c` | free pages, page tables |
| disk and buffer cache | `ide.c`, `bio.c` | request queue, cached blocks |
| log | `log.c` | transaction in memory, log area on disk |
| inodes, directories, files | `fs.c`, `file.c`, `sysfile.c` | on-disk tree, inode cache, open files |
| pipes, console, clock | `pipe.c`, `console.c`, `uart.c`, `kbd.c`, `sysproc.c` | ring buffers, ticks |
| boot and processors | `bootmain.c`, `main.c`, `mp.c`, `lapic.c`, `ioapic.c` | hardware setup |
| image and user space | `mkfs.c`, `umalloc.c`, `sh.c`, `usertests.c`, ... | file system image, programs |

They interact through two mechanisms: the spin locks, under which every shared
structure is changed, and `sleep`/`wakeup` in the process table, with which a
system call waits for another process or an interrupt. The file system adds a
third, the log, which groups the block writes of concurrent calls into one commit.
`PROJECT.json` lists every part with its status, maps each definition to the lines it
models, and lists the hazards of the code with the properties that watch them.

## Modules

| module | models |
|---|---|
| `AtomicDisk`, `Log` | what the log promises, and `log.c` with the cache and the disk below it |
| `Ide`, `Bio`, `BlockStore` | the disk driver; the buffer cache and its sleep locks on top of it; the locked store of blocks they promise |
| `Fs` | the inode cache, link counts, directories and paths; `open`, `mkdir`, `mknod`, `link`, `unlink`, `chdir` |
| `FsLayout`, `Content` | the block map of an inode; the bytes of files: `balloc`, `bmap`, `readi`, `writei`, `itrunc` |
| `Files` | the file table, descriptors, ends of pipes, shared offsets |
| `Fifo`, `Pipe` | a bounded queue of bytes; `pipe.c` with the processes at its ends |
| `Tty`, `Console`, `Kbd` | a terminal that hands out lines; `console.c`; the modifiers of `kbd.c` |
| `Clock` | the tick, `sys_sleep`, `kill` |
| `Proc` | `proc.c` and the traps that drive it |
| `Spinlock` | `spinlock.c`, interrupts, and the hand-over of a lock through `sched` |
| `Boot` | `kalloc.c` and the start of the processors in `main.c` |
| `Vm` | user memory through `sbrk`, `fork`, `exec`, `exit` and `wait` |
| `UserArgs` | `argint`, `argptr`, `argstr` and the functions they fetch with |
| `Strings` | `memmove`, `strncpy`, `safestrcpy`, `strncmp`, `skipelem` |
| `Mkfs` | the image that `mkfs.c` writes |
| `Malloc` | `umalloc.c` |
| `ShParse`, `ShRun` | the parser of `sh.c` against a grammar; the processes and descriptors of `runcmd` |
| `Grep` | the matcher and the line buffer of `grep.c` |
| `MCLog`, `MCProc`, `MCPipe`, `MCBio`, `MCFiles`, `MCFs` | instances of one component each |
| `MCParts`, `MCLive` | instances of several components that share no state |
| `LogProofs`, `LogTheorems`, `ProcProofs`, `BioProofs`, `SpinlockProofs`, `PipeProofs`, `ClockProofs`, `UserArgsProofs` | the proofs |

`MCParts` and `MCLive` are sums: the first state chooses a `part`, that part takes its own
steps, and the variables of the others stand still. A property of a part is
checked on the behaviours that chose it, exactly as in a run of its own.

### Log

State: the disk (`home`, `logd`, `head`), the cached blocks and their `B_DIRTY` pins
(`cache`, `dirty`), `struct log` (`lh`, `outstanding`, `committing`) and the position
of each process (`pc`, `bp`, `tail`). One action is one critical section of `log.lock`
or one disk write: `begin_op`, `modify` (the caller's change to a buffer),
`log_write` (the checks made outside the lock), `record` (its critical section),
`end_op`, one turn of `write_log`, `write_head`, one turn of `install_trans`, `clear`
(`log.lh.n = 0; write_head()`), `end_commit`, and `read_head` during recovery. `crash`
is enabled in every state. `bread` and `bget_recycle` are other readers that fill and
empty the cache. Disk writes are atomic by block, as the code assumes.

The contents of a block are abstract values, and the header is the list of blocks it
names. The log area's own buffers are written through and left out. Before a crash
the disk holds an empty log, as mkfs makes it.

### Proc

State: the fields of `struct proc` that control depends on, the CPU's `proc`, loaded
page table and running thread, the holder of `ptable.lock`, and each thread's position.
An action is one critical section, split where `swtch` can leave the CPU with the lock
held: `exit`, `wait_sleep` and `yield` end at `sched`, which hands the lock to the
scheduler; `scheduler_pick` hands it to a process, and `sched_return` or `forkret`
releases it. `fork` is four actions, since `allocproc` and `fork` fill the new slot
without the lock; either allocation may fail. `yield` may come at any point without a
lock, which is where interrupts are enabled. `wait` is the one sleep modelled here.

`exit_start` and `fault` exclude initproc, and `KillPids` excludes its pid: the code
answers them with `panic("init exiting")`.

### Spinlock

State: `locked` and `cpu` of each lock (`lcpu`), `ncli` and `intena` of each CPU and its
interrupt flag, the thread each CPU runs (its scheduler, or a process), and that thread's
position in `acquire` or `release`. An action is one access to shared memory: `pushcli`,
the `holding` check, the `xchg` that returns 0, `lk->cpu = mycpu()`, the clearing of
`lk->cpu`, the store that unlocks, `popcli`. A failed assertion sets `panicked`. An
`interrupt` may come wherever the flag is set, and its handler takes locks too. `sched`
saves `intena` and leaves its CPU to the scheduler, which lets any thread continue on it
with `swtch`. Locks are numbered and taken in increasing order, the discipline under
which the kernel nests them; `ptable.lock` comes last. `getcallerpcs` is left out.
Memory is sequentially consistent, as the fences of the code are there to ensure.

### Pipe

State: `struct pipe`, whether its page was freed, the holder of its lock, and for each
process its position, the bytes of the `write` or the size of the `read` in progress, its
descriptor and `killed`. An action is a stretch of code under the pipe's lock: `pipewrite`
copies until the pipe is full or the call ends, `piperead_wait` is a turn of the
waiting loop, `piperead` the copy, `pipeclose` the last close of an end. `kill` does not
take that lock, so it may come between the test of `killed` and `sleep`, which is a step
of its own. The counters wrap at `UINT`, a multiple of `PIPESIZE` as 2^32 is of 512.

`Fifo` has a queue, the bytes each writer has still to write and what each reader got. A
`Put` moves as many bytes as fit, in order, to the end of the queue, and keeps the rest
or gives it up, as a killed writer does. A `Get` takes bytes from the front. A read gets nothing only
when the queue is empty and the write end is closed.

### Ide, Bio and BlockStore

`Ide` is the queue of `iderw`, the command the drive works on, and the interrupt. `Bio` is
the array of buffers in LRU order with `refcnt`, `B_VALID`, `B_DIRTY` and the sleep lock of
each, and the position of every process: one action is a critical section of
`bcache.lock`, of a sleep lock, or of `idelock`. A buffer may stay dirty after
`brelse`, as the log leaves it (`log_write` here is the flag it sets; the rest is in `Log`).
`bget` that finds every buffer in use or dirty stops at its panic, with `bcache.lock` held, and
`idestart` of a block `Beyond` the file system at its own; failed assertions of the others
lead to `"panic"`. `BlockStore` is the promise: a process locks a block,
sees what was last written, writes, and unlocks. The drive fails to read `BadBlocks`;
the promise is about the others. One disk is modelled.

### Files

State: `ftable`, each process's `ofile` and working directory, the two ends of each pipe,
and the reference counts of inodes. The system calls are split where `ftable.lock` or an
inode's lock is given up, so that `fileclose` releases its entry before it closes the
object, and `filewrite` gives up the inode between two chunks. Every table can be full,
and `pipealloc` can fail at each of its steps. A file is opened for reading, writing or both; a call
that it is not open for returns -1 and changes nothing. A write is cut into chunks of one
unit, and `writei` takes all of a chunk or refuses it: `panic("short filewrite")` is there, and
never reached. `filestat`, which changes nothing, is left out.

### Fs

State: the inodes and directories on the disk, the cache (`ref`, `valid`, the copied
fields), the holder of each inode's lock, and for each process its call, path and
position. One action is the code between two points at which a process may wait: taking
an inode's lock, or `iput`'s release of `icache.lock`. `namex` walks the path an element
at a time. A log transaction is atomic with respect to crashes (`AtomicDisk`); here the
calls interleave inside one. The cache is large enough for every process (`NINODE`
suffices for the references a call holds), and a panic stops the system. A slot that nobody
refers to keeps the fields of its inode, `valid` included, until `iget` takes it for another. `late`
and `lost` are history variables: the entries made in a directory after its removal, and
for each inode how many of its links vanished with such a directory (bounded by `MaxLost`).

### Content and FsLayout

The bytes of files over a bitmap of blocks. `FsLayout` has the index arithmetic of direct
and indirect blocks that `Content` and `Mkfs` share. What a file holds at a place is tagged with the
inode, the offset and a version, so that a byte of another file, of another offset or of
an earlier write is told apart. A freed block keeps its old bytes until
`bzero`, so that reading them would be seen. `writei` stops at `MAXFILE`.

### Console, Tty, Kbd and Clock

`Console` has the ring with its `r`, `w` and `e` counters (they wrap at `CUINT`), the
readers with the loop of `consoleread`, and the cursor and cells of the CGA screen. Typing
a character is one action under `cons.lock`. `Tty` is what a reader may rely on: characters
come in order, in pieces of entered lines, and a control-D ends a read. `Kbd` is the
`shift` state (the six modifiers, the three locks and one key without a role) against the keys
that are really held. `Clock` has `ticks`, which wraps at
`TUINT`, and processes that sleep and are killed.

### Boot and Vm

`Boot` starts the processors one after the other while they share the word below the
entry code and the free list, which has no lock until `kinit2`. `Vm` counts pages: each
process has a page table with the state of every user page, and every `kalloc` of
`setupkvm`, `walkpgdir`, `allocuvm`, `copyuvm` and `exec` is a step that fails when no page
is left.

### UserArgs, Strings, Mkfs, Malloc, ShParse, Grep

`UserArgs` is a process whose memory and registers are arbitrary, calling the functions that
fetch arguments; addresses are words that wrap. The others are algorithms checked against
definitions of what they should compute: `Strings` on all small buffers and paths (one
step each), `Mkfs` on all sequences of file lengths, `Malloc` on every order of calls,
`ShParse` on every short line, `Grep` on every short pattern and text.

In `Grep`, a `read` of a file fills the rest of the buffer, and one of standard input may be short
anywhere. `PrintsMatches` says what is printed for both, lines that the loop cuts included,
and `FilesWhole` that no line of a file is cut when each fits the buffer. In `Malloc`, requests
are bytes, converted to units as `malloc` does, in a sum that wraps. In `Mkfs`, the size
of the root is compared before and after it is rounded, and `balloc` has its assertion. `ShParse`
compares the mode and descriptor of every redirection too.

### ShRun

The processes of a command line with their descriptors, pipes and children: `runcmd` for
every kind of node, with `fork`, `pipe`, `dup`, `close`, `wait` and `exit` as steps. The kernel
below is modelled by what those calls do. A line is typed when the processes of the last
one are gone. `cd` is done by the shell itself, as `main` does it, so that later children inherit
the directory.

## Runs

| run | instance | shows |
|---|---|---|
| `log` | 3 processes, 2 blocks, 2 values, crashes anywhere | `Log` refines `AtomicDisk` (`Atomicity`); `QuietIsDurable`, `NoLostWakeup` |
| `proc` | 2 CPUs, 3 slots, 3 forks, kills of pid 3 | `SwitchExact`: lock hand-off, who runs where; `MemoryOwned`: stacks and page tables; `NoLostWait`; `ParentCanWait`; no deadlock |
| `proc_live` | 1 CPU, 3 slots, 2 forks, kills of both children | `OrphansReaped`, `KilledDies` |
| `pipe` | 2 readers, 2 writers, 2 bytes, `PIPESIZE = 2` | `Pipe` refines `Fifo` (`IsFifo`); `PipeSafe`: nobody sleeps without cause, no use after free |
| `bio` | 2 processes, 3 buffers, 4 blocks of which one cannot be read and one is beyond the disk | `Bio` with `Ide` refines `BlockStore` (`IsBlockStore`); `CacheSafe`: one buffer per block, exact counts, the queue is the sleepers, no lost wakeup; `PanicOnlyWhenFull` |
| `files` | 2 processes, 2 descriptors each, 3 files, 1 page for pipes | `FilesExact`: counts of files, inodes and pipe ends are exact; `OffsetExact`: an offset is never used twice |
| `fs` | 2 processes, 3 inodes, 2 names | `InodeCacheExact`: one counted copy that agrees with the disk; `LinkCountExact`; `FreedIsUnused`; `OnlyIputDeadlocks` |
| `fs_leak`, `fs_deadlock`, `proc_kill` | | violations, see Findings |
| `parts` | 12 parts, below | their safety; `Console` refines `Tty` (`IsTty`) |
| `live` | pipe, clock, shell, log | what must eventually happen, and the invariants of clock and shell |

What `parts` checks:

| part | properties |
|---|---|
| `Spinlock` | `LockSafety`: mutual exclusion, no failed assertion, interrupts off inside a lock and restored after |
| `Boot` | `OneUsePerPage`: no page is lost or given twice, no two processors start on one stack |
| `Console` | `InputRingSafe`: indices and cursor in range, no reader asleep beside a line; `IsTty` |
| `Kbd` | `ModifiersFollowKeys`: no modifier is stuck, and each lock follows its key |
| `Vm` | `MemoryExact`: every page is free or in one table, also after failures; a process has the pages below its size; `fork` copies the access rights |
| `UserArgs` | `GrantInside`: what the kernel may touch lies in the process |
| `Content` | `FilesIntact`: the bitmap is exact, reads return what was last written at that place of that file |
| `Strings` | `StringsExact`: paths are cut into their elements, names found, copies exact and terminated |
| `Mkfs` | `ImageExact`: the kernel's `bmap` finds what mkfs wrote, the rounded root has only free entries more, the bitmap is exact |
| `Malloc` | `HeapExact`: the heap is tiled by blocks as large as was asked, free neighbours are joined |
| `ShParse` | `ParsesLines`: exactly the lines of the grammar are accepted, every word is terminated, every redirection is the one written |
| `Grep` | `GrepExact`: patterns have their meaning, exactly the matching lines are printed, for every way `read` cuts the input |

A property of this table is a conjunction of the aspects its module defines one by one
(`LockSafety` of `Mutex`, `NoPanic`, `LockedOff` and `InterruptsRestored`, and so on). The mutant
that `PROJECT.json` lists for it breaks one of them.

`live`: `ReadersSeeClose` (pipe); `SleepsExact`, `SleepEnds` (clock); `ShellSafe`,
`PromptReturns` (shell); `NoPanic`, `SleepersWake` (log).

### Bounds

- `log`, `proc`: three processes are the fewest in which one commits, one sleeps in
  `begin_op` and one is still in a call; two blocks give a transaction a first and a last
  block. Two CPUs run the parent and the dying child at once; three slots give a
  grandchild that is orphaned. `MaxPid` bounds the forks, so that slots are reused.
  `OrphansReaped` holds for finitely many forks: `wait` takes the lowest ZOMBIE slot
  first, so an endless stream of orphans in lower slots could keep a higher one waiting.
- `pipe`: two bytes are empty, partly full and full, and counters modulo 4 wrap after two
  fillings, a multiple of `PIPESIZE` as 2^32 is of 512.
- `bio`: two processes and the buffers the log has pinned can use all three buffers, so that the
  panic of `bget` is reached, and with four blocks
  every lookup can recycle. `files`: every table can be exhausted by two processes. Files are
  opened `O_RDONLY` and `O_RDWR`; one opened `O_WRONLY` does less than the latter.
- `fs`: `a`, `b` and `a/b` give a directory with an entry; one process makes, links and
  removes, the other creates and removes the same names. A third inode is the root.
- `parts`: two CPUs, two threads, two locks; three processors and five pages, three of
  them low; a console ring of two characters with counters of four values on a screen of
  two cells; two keys held and three scan codes waiting; eight pages of two bytes for two processes, with
  page tables of two entries; memory of up to four bytes with words of two; two
  inodes over four blocks, with one direct and two indirect blocks of two cells (so a
  file can be direct, indirect, and as large as the disk); paths of five characters
  with names of two; three files of up to seven bytes in the image, whose bitmap can be too short;
  a heap of 12 units of two bytes, and a request whose sum wraps; lines of five characters with
  three arguments; patterns of four characters on lines of three, and input of six characters
  with a buffer of four.
- `live`: two readers and a writer at a pipe of one byte, of which one of each can be killed; ticks modulo 4;
  six processes and three command lines (a pipe, a list, background and redirection
  among them) with a `cd` anywhere between them; a log of two processes and three blocks that just fits two calls.

Deadlock is checked in `log`, `proc` and `proc_live`. The other systems may rest: a pipe
whose users have finished, or an algorithm that has its answer. For `fs`, where
processes wait for each other's locks, `OnlyIputDeadlocks` states what a deadlock may be.

Symmetry: processes, blocks and values in `log`; CPUs in `proc`; processes and bytes in
`pipe`; processes, buffers, sound blocks and values in `bio`; processes in `files`. Runs with liveness
properties use none.

### Fairness

- `Log`: a process inside the logging code keeps running (weak fairness), and a call does
  finitely many block writes before `end_op` (strong fairness of `end_op`, which a process
  that keeps modifying blocks could otherwise postpone for ever).
- `Proc`: schedulers and context switches are weakly fair; the timer's `yield` is strongly
  fair, since interrupts recur whatever the process does, and so is the kernel code of a
  process, since it advances between two interrupts; `initproc` calls `wait` for ever, as
  the loop of `init.c` does.
- `Pipe`: a process inside a call keeps running; nobody has to read, write or close.
- `Clock`: the timer interrupt recurs (strong fairness); a process that a tick woke gets
  `tickslock` between two ticks (strong fairness of its test), and goes on to sleep (weak).
- `ShRun`: every process with a step to take takes it (weak fairness), and the programs
  end when their input does. Nobody has to type.

## What is proved

The theorems hold for all values of the constants that satisfy the named assumptions of the
component: `Log`, `Proc`, `Bio` (with `Ide`), `Spinlock`, `Pipe`, `Clock`, `UserArgs`.

About `Log`, in `LogProofs` and `LogTheorems`:

- `LogInvariant`: `Spec => []LogInv`, the inductive invariant. The properties alone are
  not inductive: whether a crash is safe depends on how far the commit has come. `LogInv`
  says, phase by phase, which processes may be where (`outstanding` counts the calls,
  and at most one process commits or recovers, with no call in progress), that the
  blocks in `lh` are distinct and exactly the dirty ones that
  `install_trans` has not reached, that a clean cached block equals its home
  location, that the log blocks up to `tail` equal the cache during `write_log`, and
  that the header is either empty or equal to `lh` with all the log blocks written.
- `LogIsAtomic`: `Spec => Atomicity`. `write_head` is the abstract `Commit`, `modify` a
  `Write`, `crash` a `Crash`; the other steps leave the replayed disk and the visible
  blocks alone.
- `TypesHold` (`TypeOK`), `QuietDisk` (`QuietIsDurable`), `SleepersHaveAWaker` (`NoLostWakeup`).
- `RoomSuffices`: `NoPanic`, if `OpBlocks < MAXOPBLOCKS` and
  `LOGSIZE + OpBlocks + 1 < nlog + MAXOPBLOCKS`. With `nlog = LOGSIZE` this is
  `OpBlocks + 2 <= MAXOPBLOCKS`. The condition is sufficient, not necessary: by the sizes
  of `param.h` nine blocks a call are still safe, and `live` checks such a
  tight case with calls of `MAXOPBLOCKS - 1` blocks.

`LogProofs` has the invariant, the lemmas about replay and counting, and a lemma for every
step of a call, of commit, and of crash and recovery; `LogTheorems` what follows.

About `Proc`, in `ProcProofs`, for any number of CPUs, slots and pids:

- `ProcInvariant`: `Spec => []ProcInv`. The properties are not inductive: each looks at states
  in which nobody holds `ptable.lock`, or at one CPU. `ProcInv` says what is true inside the critical
  sections too. A CPU's `proc`, page table and stack agree with the thread it executes, and no
  two CPUs have the same process even while one of them switches away (`CpuInv`,
  `OwnCpu`); what `p->state` implies of the stack, the memory and the place of the process
  (`SlotInv`); a slot that `fork` fills belongs to one parent, from `allocproc` to the last
  critical section (`ForkInv`); parents are alive (`ParentInv`); and a process asleep in
  `wait` has children, none of them a ZOMBIE, and was not killed (`WaitInv`). There is one lemma
  per action, and `FirstIn` for the scans of the table.
- `LockPassesOn` (`SwitchExact`), `StacksAreSafe` (`MemoryOwned`), `WaitersAreWoken`
  (`NoLostWait`) and `SomebodyWaits` (`ParentCanWait`) follow.

About `Bio` and `Ide`, in `BioProofs`, for any finite sets of processes and buffers and any blocks:

- `BioInvariant`: `Spec => []BioInv`. It joins the driver to the cache: `b->lock` is held exactly
  from `acquiresleep` to `releasesleep` (`LockInv`), the queue has the buffers of the processes asleep in
  `iderw` (`QueueInv`), the drive works on its head and has carried out what it
  interrupts for (`DriveInv`), the flags say what work is left (`FlagInv`), a clean buffer of a
  sound block equals the disk (`CleanInv`), and `refcnt` counts the processes that have a
  buffer. The last one needs the lemmas on cardinalities, and the recycling in
  `bget` that `brelse` keeps the LRU list a permutation of the buffers (`ToFront`).
- `CacheIsSafe` (`CacheSafe`) follows.
- `PanicsOnlyWhenFull`: `Spec => []PanicOnlyWhenFull`, with no assumption on the number of buffers.
  `bget` comes to `panic("bget: no buffers")` only when no buffer has the block and each is
  referenced or dirty. That state can be reached: `NBUF` is 30, and each of 64 processes may have
  a buffer while the log keeps others dirty. No other panic of `bio.c`, `sleeplock.c` or
  `iderw` is reached, and that of `idestart` only for a block beyond the file system.
  The proof needs that the scan of the list meets every buffer (`HeadUsed`), and that nothing
  changes for the cache once the panicking process has `bcache.lock` (`FullKept`).
- `CacheIsStore`: `Spec => IsBlockStore`. `acquiresleep` of a valid buffer, or the interrupt that
  ends the read of another, is the abstract lock; the refinement mapping takes a block from its buffer
  when that is valid, from the disk when it is not.

About `Spinlock`, in `SpinlockProofs`:

- `SpinInvariant`: `Spec => []SpinInv`, the inductive invariant. Mutual exclusion alone is
  not inductive: it says nothing of the lock word. The invariant adds that a lock is
  `locked` exactly while some CPU is inside it, that `lk->cpu` names a CPU only while that
  CPU holds the lock, that `ncli` counts the locks held and the one being taken or
  given up, that interrupts are off while it is positive, and that `intena`, or the copy
  that `sched` saved, is what the thread had before its first lock.
- `MutualExclusion` (`Mutex`), `SpinNeverPanics` (`NoPanic`), `LocksDisableInterrupts`
  (`LockedOff`), `InterruptsComeBack` (`InterruptsRestored`) follow from it, and together
  make `LocksAreSafe` (`LockSafety`).

About `Pipe`, in `PipeProofs`:

- `PipeIsFifo`: `Spec => IsFifo`, kills included. It rests on the arithmetic of the ring: the counters wrap at
  a multiple of the ring's size, so the slot of a position does not jump (`ModMod`), positions
  less than `PIPESIZE` apart have slots of their own (`SlotsDiffer`), and so a stretch of
  `pipewrite` appends to the contents without touching them (`PutStretch`) and a stretch of
  `piperead` takes their front (`GetStretch`).
- `InvHolds`: the inductive invariant `PipeInv`. To the types it adds that `p->lock` is held
  exactly by a process between its test and `sleep`, that a process in a call has its
  descriptor open, and an open descriptor its end, and that calls have their arguments.
- `NoUseAfterFree`: `NotInUseWhenFreed`, kills included.
- `NobodySleepsInVain`: `Spec => []PipeSafe` if no writer may be killed. `PipeSafe` is not
  inductive: it must also speak of the processes on their way into `sleep` (`SleepExact`). The
  assumption is needed: `pipewrite` returns without `wakeup` when it finds its process
  killed, though it may just have written.

About `Clock`, in `ClockProofs`:

- `SleepIsExact`: `ClockSpec => []SleepsExact`. The inductive invariant `ClockInv` adds that
  `ticks - ticks0`, which wraps, counts the ticks since the call, and that `tickslock` is
  held from the test of `killed` to `sleep`, so that no tick falls between them. It rests on
  the bound of `timer`: a call does not outlast a whole round of `ticks`.

About `UserArgs`, in `UserArgsProofs`:

- `ArgsSafe`: `Spec => []GrantInside`. The inductive invariant `ArgsInv` adds that `sz` stays
  at or below `KERNBASE`, which is what keeps the sums of `fetchint` and `argptr` from
  passing a check after they wrapped, and that the strings' terminators are where the
  memory is. The lemmas `FetchintInside`, `ArgptrInside` and `FetchstrInside` say it of one call.

Only model-checked: the liveness properties, `Files`, `Fs`, and the parts
of `parts` that have no proof module. Fairness is beyond the prover, and so is
induction over data, which the algorithms (`Strings`, `Grep`, `ShParse`, `Mkfs`, `Malloc`) would need.

## Findings

- `fs_leak`: `iput` looks at `ref` under the inode's lock and drops its own reference after
  it has released that lock. Two processes that put the last two references of an
  unlinked inode together both see `r == 2`; neither frees it.
- `fs_deadlock`: `create` calls `iunlockput(dp)` with the new inode locked, and `iput` takes
  `dp`'s lock a second time. An `unlink` of the new name that got `dp` in between waits for the
  inode; each waits for the other. `OnlyIputDeadlocks` shows, in the same model, that this second
  locking is the only way to close a cycle.
- `proc_kill`: `kill` matches the pid of a free slot, and `allocproc` does not clear
  `killed`, so a process that nobody killed dies.

Met while modelling, and kept out of the properties by the stated bounds:

- `param.h` allows a call `MAXOPBLOCKS` blocks and calls `LOGSIZE` the "max data blocks in
  on-disk log", but mkfs makes the log area `LOGSIZE` blocks with the header among them:
  when concurrent calls use all they reserved, `log_write` panics. `OpBlocks` stays below.
- `piperead`, `pipewrite` and `consoleread` test `killed` and then sleep; a `kill` between the two
  wakes nobody, and the process sleeps until another one writes, closes or types. A writer killed
  after it filled the pipe returns without `wakeup(&p->nread)` (`pipe.c:86`).
- `ideintr` marks a buffer `B_VALID` when the drive could not read it (`ide.c:118`), though `buf.h`
  says that the flag means the buffer "has been read from disk".
- A directory that was removed while a process is in it still has `..`, whose inode may have been
  freed: `ilock` then panics. Entries made in a removed directory are lost with it (`late`, `lost`).
- `sbrk` of minus the whole size frees the pages and returns -1, since `deallocuvm` returns 0.
- mkfs rounds the size of the root directory up by a whole block when it is already a
  multiple of one (`mkfs.c:158`). That block is not allocated: a `readi` of the root to its end
  has `bmap` allocate it, outside of a transaction. `RootRounded` says when this is so.
- `grep` loses the start of a line when a read brings no newline (`grep.c:29`), which a short read
  of a pipe may do in any line.
- `malloc` of a size within a header of 2^32 returns a block that is too small (`umalloc.c:69`).

## Not modelled

- Interrupt controllers, the boot loader and the tables of the machine (`lapic.c`, `ioapic.c`,
  `picirq.c`, `mp.c`, `bootmain.c`, assembly entry code): register programming and parsing that
  runs once, before there is anything to interleave with.
- `memide.c`, the disk in memory of another build.
- `cprintf`, `printf` and the character tables: formatting.
- `usertests.c` and the small user programs, which appear as the calls a process may make.
- The Promela model beside the code, which is a model itself.
