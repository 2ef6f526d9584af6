# A TLA+ model of xv6-rs

The repository is a port of the xv6 teaching kernel to Rust that is half done:
the kernel in `src/kernel` consists of Rust files (`src/kernel/src`) and of the C
files that are still to be ported (`src/kernel/c`; `src/kernel/build.rs` lists the
ones that are compiled).  The user programs and the program that makes the disk
image are in `src/xv6`.  This directory holds TLA+ models of the kernel and of
the programs that depend on it most, small instances of them that TLC checks,
and proofs that TLAPS checks.  Every definition is a translation of code;
`PROJECT.json` says of which lines, and lists the hazards the properties are there
for.

## The system

| Part | Code | Module | Proofs |
|------|------|--------|--------|
| spin locks, interrupt nesting, context switch | `spinlock.rs`, `interrupt.rs`, `proc.rs` | `SpinLock` | `SpinLockProofs` |
| sleep locks, sleep and wakeup | `sleeplock.rs`, `proc.c` | `SleepLock`, `Mutex` | `SleepProofs` |
| clock and `sys_sleep` | `trap.rs`, `sysproc.c` | `Clock` | `SleepProofs` |
| console: line buffer and screen | `console.c` | `Console`, `Terminal` | `SleepProofs` |
| process table and scheduler | `proc.c`, `trap.rs` | `Proc` | `ProcProofs` |
| page allocator, address spaces, exec, sbrk | `kalloc.c`, `vm.rs`, `exec.c`, `proc.rs` | `Memory` | |
| buffer cache and disk driver | `buf.rs`, `ide.rs` | `BufferCache` | `BufferProofs` |
| write-ahead log | `log.c` | `Log`, `CrashAtomicDisk` | `LogProofs` |
| inodes, directories, paths, system calls on names | `fs.c`, `sysfile.c` | `FileSystem` | |
| file contents, block allocation | `fs.c`, `file.rs` | `FileData`, `DiskLayout` | |
| pipes | `pipe.rs` | `Pipe`, `ByteStream` | `PipeProofs` |
| descriptors and the file table | `file.rs`, `sysfile.c` | `Shell` | |
| shell, init, cat, echo | `sh.c`, `init.c`, `cat.c`, `echo.c` | `ShellParser`, `Shell` | |
| malloc of user programs | `umalloc.c` | `Umalloc` | |
| grep | `grep.c` | `Grep` | |
| mkfs | `mkfs.c`, `fs.h` | `Mkfs`, `DiskLayout` | |

Modules that start with `MC` give the constants their values, and put modules
that share no state into one run.  A behaviour of such a run is a behaviour of
one of them, chosen in the initial state by the variable `part`.

The parts build on each other, and each module takes from the one below what is
checked there:

* `SpinLock` works on single memory accesses and instructions.  It shows that a
  section under a spin lock excludes; all other modules make such a section one
  action.
* `SleepLock` works on single operations on the two spin locks that sleep and
  wakeup use.  It shows that no wakeup is lost; `Proc`, `Log`, `Pipe`, `Clock`,
  `Console` and `BufferCache` make "give the lock back and sleep" one action.  It
  also shows that a sleep lock is a `Mutex`, which `FileSystem`, `FileData` and
  `BufferCache` use.
* `BufferCache` says what `bread` returns and how far the cache keeps that
  promise; `Log` uses a cached block as one value.
* `Log` shows that a transaction is atomic, also across crashes; `FileSystem`
  and `FileData` let a transaction be what its process does between `begin_op`
  and `end_op`, and `FileData` checks that each one fits in the reservation.
* `Pipe` shows that a pipe is a `ByteStream`; `Shell` and `Grep` use such streams.
* `Memory` says what `sbrk` does; `Umalloc` builds the heap on it.
* `DiskLayout` is the format of a file on disk: `Mkfs` writes it, `FileData` reads
  and changes it.

## The modules

**SpinLock.**  A context is a kernel stack: a process, or the scheduler of a CPU.
A context in the kernel calls `acquire` and `release`, is interrupted by any
handler while the interrupt flag is on, and is switched to another CPU.
`acquire` is `push_cli`, the two loads of `is_locked`, the compare-exchange and
the store to `cpu`, each a step; `release` likewise.  `locked` and `owner` are
the fields of the lock, `ncli`, `intena` and `iflag` those of the CPU, `saved`
the trap frame.  What is not in the code of the locks is an assumption on their
callers: locks are taken in an order (`Rank`, after `src/docs/Notes`), and
`enter_scheduler` is called with `ptable.lock` alone.

**SleepLock.**  `acquire` and `release` of one `SleepLockC`, `sleep`, `wakeup` and
`kill`, one operation on a spin lock per step.  `Mutex` is the abstract lock.

**Clock.**  The timer interrupt, `sys_sleep` and `kill`.  `TICKS` wraps at `TickWrap`,
and `since` counts the interrupts that really came.

**Console.**  `consoleintr`, `consoleread`, `consolewrite` and `cgaputc`.  The line
buffer has the three indices of the code, which wrap; the screen is its memory
and its cursor.  `Terminal` is what readers may rely on: a line being edited and a
queue of what was entered.

**Proc.**  `ptable`: every critical section under `ptable.lock` is one action, and
the lock is visible (`ptlock`) only where it is passed on by `swtch`.  `fork`
fills in the new process without the lock, in steps of its own.  The scheduler's
scan of the table is a variable, because which process is next depends on it.
A call may sleep in two ways: for the disk, the log, the clock or a sleep lock
(`Device`; `exit` does so too, when it closes files), or in the loops of pipes and
the console (`Event`), which test `killed` and then sleep in two steps.

**Memory.**  Each `kalloc` and `kfree` is a step.  A process has a sequence of
steps in front of it (`todo`), which a system call fills and a failure replaces
by the clean-up the code does.  `space[d]` is the content of the page directory
`d`.  The model stops where the kernel stops: at the `unimplemented!()` in
`uvm_alloc`, at a panic, and where `uvm_copy` frees the page table the processor
is using (`halted`).

**BufferCache.**  The buffers are an array, as in the `ArrayVec` of the code, and
processes hold indices into it, as pointers.  `release_buffer` moves the last
buffer with `swap_remove`.  With the constant `Careful` a process waits with its
release as long as the move would touch a buffer somebody else points to; this
is not in the code, and the run that sets it to `FALSE` shows the consequence.
`Retained` is the array after the `retain` of `get`: what is kept, in order.
The disk takes commands from `IDE::start` and answers with an interrupt.

**Log.**  Each write of a block is a step and a crash may come before any step,
also during recovery; it loses everything but the disk.  `CrashAtomicDisk` is
the abstract disk: operations change blocks in memory, a commit makes all of
them durable at once, a crash takes memory back to the last commit.

**FileSystem.**  A system call is the list of its steps (`Program`), each up to the
next place where it may wait; `OnFailure` is the code behind each `return -1`.
The inode cache, the inodes on disk, link counts, directory entries, references
and sleep locks are modelled; names are values and a path is a sequence of them.

**FileData.**  `FileTable::read` and `write` with the chunks of a write, `readi`,
`writei`, `bmap`, `balloc`, `bzero`, and `iput` with `itrunc` and `bfree`, a block
per step, on real byte offsets.  Between two calls of `bfree`, and between `bfree`
and the assignment of 0 to the address, others run and take the blocks that are
free already.  Transactions carry the set of blocks they have written.  An `iput`
that empties an inode stands for the last close of a file without links; its files
are then opened anew.  Inodes of devices are read and written by `Console`.

**Pipe.**  It presumes a file table that works: `Fileclose` drops a reference and
closes the end with the last one.  What the table does to its other entries then,
and the panic when a descriptor leads to none, are in `Shell`.  `pipealloc` to the last `pipeclose`, a byte per step, with kills and
counters that wrap.  `unwoken` is a history variable: a writer that was killed has
returned -1 since readers were last woken.  `ByteStream` is a bounded FIFO with two
ends.

**ShellParser.**  `parsecmd` and the functions below it, as recursive operators on
a line, with words as pairs of pointers until `nulterminate` cuts them.  `ParserRight`
compares the result with a grammar that knows no pointers.

**Shell.**  Every process has the system calls it will make in front of it
(`todo`); `runcmd` unfolds a command into them: `pipeCalls`, `redirCalls` and so on.
A descriptor is a place in the array of the file table, as in the code, and
`close` removes the entry from the array.  What the line should have done is
computed from its meaning (`expected`) and compared with what was written.

**Umalloc.**  `malloc`, `free` and `morecore` on a circular list of headers, with
the pointers of the code.

**Grep.**  `match`, `matchhere`, `matchstar` against a definition of what a pattern
means, and the loop of `grep` on a buffer that reads fill as they like.

**Mkfs.**  `main`, `ialloc`, `iappend` and `balloc`.  `ImageExact` reads the finished
image with `DiskLayout` and compares it with the arguments.

## The runs

| Run | Shows | Instance | States |
|-----|-------|----------|--------|
| `locks` | spin locks: exclusion, no assertion fires, interrupts off and on where they must be; sleep locks: exclusion, no lost wakeup, refinement of `Mutex`; `sys_sleep` is neither too long nor too short; readers of the console are woken, the screen shows the line, refinement of `Terminal` | 2 CPUs, 2 processes, 2 locks; 4 processes at a sleep lock; 2 in `sys_sleep`, counter of 3; 2 readers, 5 keys, buffer of 3, screen of 4 rows of 2 | 1,238,000 |
| `proc` | a process runs on one CPU, has a live parent, is not missed by wait, pids are unique | 3 slots, 2 CPUs, 4 pids | 1,922,000 |
| `proc_live` | runnable processes run, killed ones die, orphans are reaped | 3 slots, 1 CPU, 3 pids, a disk and a pipe | 47,000 |
| `log` | crash atomicity (refinement), durability, space suffices, commits are alone, no call is left asleep, progress | 2 processes, 3 blocks, log of 4 | 87,000 |
| `buffer` | `bread` returns the block, one buffer per block, counts exact, no panic, no lost wakeup | 3 processes, 3 blocks, 4 buffers, symmetry | 543,000 |
| `buffer_moved` | fails: `bread` returns another block | 2 processes, 2 blocks, 3 buffers, `Careful = FALSE` | |
| `fs` | exact reference counts, coherent inode cache, no dangling entry, no leaked lock, no panic | 2 processes, 3 inodes, 3 names | 937,000 |
| `fs_deadlock` | fails: create and unlink deadlock | 2 processes, 1 name | |
| `filedata` | reads and writes move exactly the bytes asked for, no block is lost, shared or freed twice, no holes, chunks and truncations fit | 2 processes, 2 inodes, 3 open files | 631,000 |
| `memory` | one use per page, no lost kernel pages, sizes and mappings agree, fork copies; `malloc`: free blocks and blocks in use tile the heap | 2 processes, 15 pages of 2 bytes, 5 calls; heap of 9 units | 670,000 |
| `pipe` | refinement of `ByteStream`, no lost wakeup, freed once, end of file only at the end; the parser is right; descriptors are counted exactly, nothing hangs, the output is what the line means; `grep` and `mkfs` do what they should | 2 processes, 2 bytes; lines of up to 6 characters; 7 command lines, 6 processes | 406,000 |
| `file_moved` | fails: descriptors lead to the wrong files | `e x \| e y` in the shell | |

`TypeOK` is a conjunct of one invariant of each kernel module that has states; for the
locks and the clock it is part of what is proved.

Why the instances are large enough:

* Locks: two contenders and a third context to interrupt or be switched to are
  all that a step of a lock looks at; the theorems below remove the bound.
* `Clock`: sleeps of every length below a full turn of the counter start at every
  tick (`MaxTicks` bounds the interrupts during one sleep).  `Console`: the line
  buffer fills up, its indices wrap after two characters, and the cursor starts
  at the last place before the screen scrolls.  `MaxKeys` and `MaxTexts` bound the
  keys and the texts written in between.
* `Proc`: three slots give init, a parent and a child, so orphans and an exit
  race exist; four pids let a slot be used again after a reap.  In `proc_live` kill
  aims at the first child, which can be anything a process can be; `proc` leaves out
  the loops that test `killed`, of which its invariants say nothing.
* `Memory`: fifteen pages let init run `exec` and then fork the result once, and
  let every other combination run out of pages at every step.  Two bytes to a
  page make sizes that end inside a page; five pages need a second page table.
  `MaxCalls` bounds the number of calls of fork, exec and sbrk.
* `Umalloc`: four sizes of requests on nine units of memory, three of which come
  with each `morecore`: blocks are split, joined on both sides and used up.
* `BufferCache`: a buffer for each process and one for the log to pin, as
  `CacheExact` asks for; three requests can be queued, in every order.  Three blocks
  do not fill four buffers: that a full cache suffices is left to the theorem.
  Each buffer can be wanted by two processes while the third one moves it.
* `Log`: the log area has as many blocks as the header, as `mkfs` makes it, and
  two reservations fill it: with a test in `begin_op` that is off by one call the
  log panics.  A call writes one block here, again and again; two calls make a
  transaction of two blocks.  The theorem covers calls of more blocks.
* `FileSystem`: one process builds (`mkdir`, `creat`, `link`, `unlink`) and the
  other takes down and walks (`unlink`, `chdir`, `open`), over and over: each
  removal can hit each step of each creation.  Three inodes run out.
* `FileData`: files of one direct and three indirect blocks of two bytes; a
  write of seven bytes is three chunks, starts inside a block and reaches the
  largest file; the bytes repeat after three, so that a block off is a byte off.
  `MAXOPBLOCKS` is the one of the code, and its bound is reached.  `MaxTrunc` bounds
  how often an inode is emptied, which may begin and end between any two blocks of
  a write to the other inode.
* `Pipe`: counters that wrap at twice the size of the ring, writes as long as it.
* `ShellParser`: all lines of up to four characters, and of up to six characters
  of one construct; `MAXARGS` is small enough to be exceeded.
* `Shell`: two lines (`MaxLines`), one after the other, of a pipe, a list in a
  pipe, redirections, a background job, a writer without a reader, a line that
  does not parse; pipes of one byte, and process slots that run out.
* `Grep`: all short patterns on all short lines, and texts that are longer than
  the buffer, cut by reads of every length.  `Mkfs`: files that end before, at and
  behind the end of a block, of the direct blocks and of the largest file, and
  root directories that end with a block.

`CHECK_DEADLOCK` is off where a behaviour may end: all ends of a pipe are
closed, the calls are used up, the program is done or the kernel has halted; in
`FileSystem` because the deadlock has a run of its own.  That the shell never
hangs is the invariant `NobodyStuck`.

**Fairness.**  `proc_live` and the progress of `log` are checked with fairness.

* `Proc`: a CPU whose scheduler can run a process does so (weak), and takes clock
  interrupts (strong, as interrupts are off in between).  A process gets on with
  its system call if it is on a CPU again and again; a tick may take the CPU away
  before each step, so weak fairness would promise nothing.  Devices wake their
  sleepers: the disk answers, the clock ticks, and who has the log or a sleep lock
  gives it back (the deadlock of `fs_deadlock` aside).  Nobody has to write to a
  pipe, read from it or press a key.  `init` calls `wait` in a loop and reads
  nothing (`src/xv6/init.c`).  That a process gets a CPU is not assumed but checked
  (`NoStarvation`).
* `Log`: the steps of a process inside the log are weakly fair, and so is the
  recovery after a crash; a file system call comes to its `end_op` (strong, since
  it may go on writing in between).
* A call by a user program is never assumed to happen.

## Where the code does not do what it says

Three runs are expected to fail, each with a finding in `PROJECT.json`:

* `buffer_moved`: `swap_remove` in `release_buffer` moves a buffer that another
  process, or `install_trans` itself, holds a pointer to.
* `fs_deadlock`: `iput` always locks the inode, so `create` and `sys_unlink` lock a
  directory while they hold its child.
* `file_moved`: `files.remove` in the `close` of the file table moves the entries
  behind the one it removes, and descriptors keep pointing to the old places.
  `FilesExact`, `NobodyStuck` and `OutputRight` speak of the states before the first
  such move.

More are stated in the modules and known not to hold, or are cases at which a
model stops; the hazards list has their lines:

* `BornUnkilled` (`Proc`): `kill` can mark a free slot through a stale pid, and the
  next process is born killed.
* `KilledReturns` (`Pipe`): a process killed between its test and its sleep sleeps
  on (`KilledDies` in `Proc` shows that this is the only way); and a killed writer that has filled the pipe leaves without waking readers.
* `NlinkExact` (`FileSystem`, with the calls `CreateRemove`): a file created in a
  directory that is being removed keeps its link count and has no link.
* Out of memory (`Memory`): `uvm_copy` frees the wrong page table, `uvm_alloc` stops
  the kernel.  `uvm_dealloc` never frees user pages.  `sbrk` reports a failure as
  the old break, and `malloc` then uses memory it does not have (`Umalloc`,
  `beyond`).
* `Log`: `log_write` tests for a full log before it looks whether the block is in
  it, and the log area of `mkfs` has one data block less than the header has
  entries.  A call that wrote all it may would panic; the calls of `sysfile.c`
  write less (see `Margin` below).
* `Mkfs`: the root directory gets a block too many when its entries end with a
  block.  `Grep`: a read without the end of a line drops what was read.

## The proofs

All theorems are for any value of the constants that satisfies the named
`ASSUME` of the module.  In none of them is the property inductive by itself.

**Spin locks** (`SpinLockProofs`): `MutualExclusion` and
`InterruptsExact`, for any sets of CPUs, processes and locks and any lock order.
The inductive invariant `IInv` adds who runs where (`CurInv`), that `ncli` counts the
locks held and the `push_cli` in progress (`CountInv`), where the argument of
`acquire` and `release` stands (`ArgInv`), that `owner` names the holder except
between the two stores (`OwnerInv`), and what the interrupt flag, `intena` and the
saved flags are (`OffInv`, `OnInv`).  `CountInv` is the heart: it is why the last
`pop_cli`, and no other, restores the flag, and why `enter_scheduler` finds `ncli`
to be 1.

**Sleep locks** (`SleepProofs`): `Exclusion`, `NoLostWakeup` and `RefinesMutex`,
for any set of processes.  The invariant adds which locations hold which spin
lock (`SpinInv`), and that a process between its test and its sleep holds one of
the two locks that the holder of the sleep lock needs to get past its wakeup
(`SleepInv`); this is the argument in the comment of `sleep`, "Must acquire
ptable.lock in order to change p->state".

**Clock** (`SleepProofs`): `SleepExact`, for any width of the counter.  `ClockInv` says
that the unsigned difference the loop computes is the number of interrupts until
the first full turn, and less than it afterwards; that a process between its
test and its sleep holds `TICKSLOCK`, so no interrupt comes in between; and that
one that is asleep has seen none since its test.

**Console** (`SleepProofs`): `ReadersWoken` and `RefinesTerminal`, for any readers, keys
and texts, any size of the line buffer and any width of its indices.  A reader keeps `cons.lock` from its test to its sleep, and `w` moves
only in a step that wakes all sleepers; `r` moves when a reader takes a character,
but never away from `w` once they are equal.  For the refinement `LineInv` adds that
`r`, `w` and `e` follow each other within one length of the buffer and that the
readers' counts keep to what they asked for.  The two sequences of the `Terminal`
are what the buffer holds from `r` to `w` and from `w` to `e`; lemmas on remainders
say that places less than a buffer apart are different cells, so that a key
changes the end of the second sequence and nothing else.

**Process table** (`ProcProofs`): `OneCpu` and `WaitMissesNothing`, for any number of
slots, CPUs and channels.  `ProcInv` adds that pids in use are below `nextpid`
(`PidInv`), that a slot `fork` fills without the lock stays `EMBRYO` and belongs to
one process (`ForkInv`), and that the first process lives and nobody is its own
parent (`FamilyInv`).  `ForkInv` is what makes the unlocked steps of `fork` safe:
the parent of the new process is in the middle of its call and cannot exit.

**Log** (`LogProofs`): `CommitAlone`, and that `Log` implements
`CrashAtomicDisk` (`CrashAtomic`), for any number of processes and blocks, any size
of the log and any number of crashes.  `LogInv` consists of

* `CallInv`: `outstanding` counts the calls in progress; a commit excludes them and
  other commits; recovery excludes everybody;
* `RoomInv`: the header has room for what is reserved.  The reservation is a set
  of pairs of a call and a number beyond the blocks the call has written, so that
  its size is the sum of what all calls may still add;
* `DataInv`: how far memory, log blocks and home blocks agree at each step of a
  commit (`CommitInv`), of a recovery (`RecoverInv`) and in between (`IdleInv`).

For the sleepers of `begin_op`, `SleepInv` is carried along: each has to wait still.
A step that could end that, by giving space back or by ending a commit, wakes them.

The refinement maps the durable blocks of the abstract disk to what a recovery
would make of the disk now (`Overlay`): of all the writes of a commit only the one
of the header changes it, to the blocks in memory, and neither an install nor
the erasure of the header does, since `CommitInv` and `RecoverInv` say that the
log blocks of the header hold what their homes get.

Both theorems assume `Margin`: a call writes fewer blocks than `begin_op` reserves
for it, by enough to leave out the header block.  With the numbers of the code
(30 blocks of log, header included, reservations of 10) that is at most 8 blocks.
Without it the panics in `log_write` can be reached.  `LogInv` itself needs no such
assumption.

**Buffer cache and disk** (`BufferProofs`): `BreadReturnsBlock`,
`CacheExact` and `NoLostWakeup`, for any processes, blocks and size of the cache.
`BufferInv` consists of

* `PtrInv`: a process between `get` and the end of its release points to a buffer of
  its block, and the reference count is the number of those that do;
* `OwnerInv`, `CallInv`: who owns the lock of a buffer, and where its owner is;
* `QueueInv`: the queue has the buffers whose owners are in `rw`, each once, and the
  disk works on the first;
* `DataInv`: a valid buffer holds what was last written to its block, and so does
  the disk when no dirty buffer has it.

All three assume `Careful`: no buffer moves while somebody else points to it.  The
code does not see to that, which is the finding of the run `buffer_moved`; the
theorems say that it is the only thing that is missing.  `CacheStaysExact` also
assumes `Room`: `NBUF` is at least the number of pinned blocks and of processes.
The constants of the code do not promise it (`NBUF` is 30, `NPROC` 64).

**Pipes** (`PipeProofs`): `NoUseAfterFree`, `NoLostWakeup`, `EndOfFile` and the refinement
of `ByteStream`, for any processes, size of the ring and width of the counters that
is a multiple of it.  `PipeInv` adds who holds the lock where, that whoever is
inside a call has a descriptor of the right end, that the page is there until the
close that finds both ends closed, and that `nwrite - nread`, computed with wrap,
is between 0 and `PIPESIZE` (`RingInv`).  The stream is the bytes between the two
counters.  The exception in `NoLostWakeup` is the code's: a writer that is killed
returns without the wakeup.

**Only model-checked** are `Memory`, `FileSystem`, `FileData` and the user programs,
and `EchoShown`: what the screen shows is a fold over the text written, so a proof
for every text is an induction over data.  Liveness and ENABLED (`proc_live`,
`Progress`, `NobodyStuck`) are out of the prover's reach, and so are the recursive
definitions of the parser, the matcher and `mkfs`, and the sums over sets of
`FileSystem` and `Memory`.

## What is not modelled

* The spin lock of the file table, which `close` holds while it sleeps in `iput`:
  `Shell` and `FileSystem` model the close without it.
* Disk errors, the second disk, the port protocol of the drivers.
* System call decoding and the string functions: sequential code on bytes.
* The formats of `cprintf` and `printf`, the key tables of the keyboard.
* Start-up, the interrupt controllers, page table hardware, assembly code.
* The built-in `cd` of the shell; `ls`, `wc`, `rm` and the other small programs,
  which make a few calls in a row, and the tests.
* The `ProcessTable` in `proc.rs` that nothing calls.

## How to run

In this directory, `tlc -config Log.cfg Log` runs a model (the module of each
configuration is in `PROJECT.json`), and `tlapm LogProofs.tla` checks proofs (the
modules it extends are checked by calls of their own).
