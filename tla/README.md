# xv6-riscv in TLA+

A verification project for the operating system in `src/`: xv6 for RISC-V, the
teaching kernel of MIT 6.1810, with its user programs. The modules here model the
parts of it in which order matters: several CPUs, interrupts, processes that sleep
and wake each other, a disk that answers late and in any order, crashes, allocations
that fail halfway. TLC checks each module on a small instance; the proofs
(modules `LogProofs`, `BcacheProofs`, `VirtioProofs`, `SchedProofs`, `ProcProofs`,
`PipeProofs`, `ConsoleProofs`, and `Residues` for the arithmetic they share) are checked
by TLAPS and hold for every value of the constants.

`PROJECT.json` is the index: components, runs, the source lines behind every
definition, the hazards of the code with the properties that watch them, and for
each property a mutant (a plausible bug) that TLC finds with it.

To repeat a run: `tlc -config Pipe.cfg Pipe`; a proof: `tlapm LogProofs.tla`.

## The system and its parts

```
 user      sh, init, programs              Sh (uses what fork, wait, pipe, open, dup promise)
 ---------------------------------------------------------------------------------
 calls     open/read/write/dup/pipe        File     (implements Files)
           link/unlink/mkdir/chdir         Fs
           fork/exit/wait/kill             Proc
           exec/sbrk, page tables          Vm       (implements AddrSpace)
 objects   pipes                           Pipe     (implements Fifo)
           console, UART                   Console  (implements Tty)
 storage   transactions, recovery          Log      (implements TxnDisk)
           buffer cache, sleep-locks       Bcache   (implements BlockStore)
           virtio disk driver              VirtioDisk
 CPUs      scheduler, spinlocks,           Sched
           interrupts, sleep/wakeup
```

How the parts lean on each other, and where a model replaces its neighbour:

- Every blocking operation is `sleep(chan, lk)` / `wakeup(chan)`. `Sched` has them in
  full, down to the order of `acquire(&p->lock)` and `release(lk)`; it shows that no
  wakeup is lost. The other modules take that as given: going to sleep and releasing
  the lock is one step there, and a wakeup reaches all sleepers at once.
- `Log` contains what it needs of the cache (contents, reference counts, pins) and of
  the disk (home blocks, log blocks, header; a block write may tear at a crash).
  `Bcache` shows that the cache behind it is a store of blocks under exclusive locks,
  and `VirtioDisk` that each request is served exactly once.
- `Fs` and `File` divide the file system: `Fs` has names, links, inode references and
  locks; `File` has descriptors, the open-file table, blocks and contents. Both run
  inside transactions, which for other processes change nothing.
- `Proc` leaves a process's memory to `Vm` and its files to `File`.

## Modules

An abstract module states what a component promises, without its mechanism; the
detailed module instantiates it with a refinement mapping and has the abstract
specification as a property.

| module | source | state | actions |
|---|---|---|---|
| `Log` | `log.c`, parts of `bio.c` | disk (`home`, `dlog`, `dhead`), cache (`buf`, `refcnt`), `log` (`lh`, `outstanding`, `committing`, the loop variable `tail`), recovery `boot`, per thread `pc`, `held`, `wrote` | `begin_op`, `log_write`, `end_op`; `commit` and its loops, one disk block a step (`write_log`, `write_head`, `install_trans`, `clear`); reads; `Evict`; `Crash`; `read_head`, `recover_install`, `recover_clear` |
| `TxnDisk` | abstract | what is durable, what readers see, who is in a call | write, commit of whole calls, crash |
| `Bcache` | `bio.c`, `sleeplock.c` | LRU `list`, `blockno`, `valid`, `refcnt`, `data`, `locked`, `pinned`, per user `pc`, `mine`, `want` (a process that holds two buffers is two users) | the two loops of `bget` and its panic, `acquiresleep` (and its sleep), `bread`, `bwrite`, `bpin`, `bunpin`, `releasesleep`, `brelse` |
| `BlockStore` | abstract | a value per block, its holder | lock, write, unlock |
| `VirtioDisk` | `virtio_disk.c` | descriptors, avail and used rings, 16-bit indices, `info`, `disk` flag of each buffer; the device's view | `alloc3_fails`, `submit`, `finish`, `intr_ack`, `intr_entry`, `intr_return`; the device fetches, serves in any order, interrupts |
| `Sched` | `proc.c`, `spinlock.c`, `trap.c`, `swtch.S` | per CPU `proc`, `noff`, `intena`, interrupt enable, the stack it runs on; per process state, `chan`, `pc`; locks | `scheduler`, `sched`, `yield`, `sleep`, `wakeup`, `forkret`, acquire and release, timer and device interrupts wherever they are enabled |
| `Proc` | `proc.c`, `sysproc.c`, `usertrap()` | the process table, `wait_lock`, `p->lock`, `nextpid`, which stacks are in use | `allocproc`, `fork`, `exit`, `reparent`, `wait`, `kill` cut at every release of a lock |
| `Vm` | `kalloc.c`, `vm.c`, `exec.c`, `growproc()`, `sys_exec()` | length of the free list, page-table pages, leaves and what they hold, `sz`, locals of the calls | one step per `kalloc()`: `fork`, `exec`, `sbrk`, with every failure path; `copyout`, stores, exit |
| `AddrSpace` | abstract | a private memory per process | fork copies, exec replaces, sbrk extends or cuts, store |
| `Pipe` | `pipe.c`, `fileclose()` | `struct pipe`, its lock and page, who has which end, per process `pc`, `left`, `killed` | `pipewrite`, `piperead`, a byte a step; `pipeclose`, `fileclose`, `kill` |
| `Fifo` | abstract | a bounded queue and its open ends | put, get, close |
| `Fs` | `fs.c`, `sysfile.c` | disk inodes and directory entries, the inode table (`ref`, `valid`, `inode`, `lock`), open files and current directories, per process call and locals | `iget`, `ilock`, `iput` in its four steps, `ialloc`, `namex` element by element, `create`, `link`, `unlink`, `open`, `chdir`, `close` with their error paths, and the panics of `iget` and `ilock` |
| `File` | `file.c`, `sysfile.c`, `fs.c` | descriptors, file table, inodes with addresses, bitmap, block contents | `open` (with `O_CREATE` and `O_TRUNC`, and its failures in their order), `dup`, `close`, `read`, `write` in transaction-sized pieces, `pipe`, `fork`, `exit`, `unlink`; `balloc`, `bmap`, `itrunc`, `readi`, `writei` as operators |
| `Files` | abstract | files as byte sequences, open files with an offset | append and overwrite, read, truncate, share, close |
| `Console` | `console.c`, `uart.c` | `cons` buffer and indices, output buffer and indices, locks, the UART's FIFOs | `consoleread`, `consolewrite`, `consoleintr` (editing, `^D`, `^U`, `^P`), `uartputc`, `uartstart`, `uartintr`, echo a character at a time |
| `Tty` | abstract | what can be read, the line being edited, what each reader asked for and has got, output to come | type, erase; a reader gets a character or end-of-file, returns when it may, faults or is killed; write, send |
| `Sh` | `sh.c`, `init.c` | the session's lines, the parsed tree, per process command, descriptors and position | the parser as operators on characters; `runcmd` case by case, `main`'s loop, `init`'s loop |

Modules whose names begin with `MC` give TLC its instances. Bounds that no constant
of the code has are constants named in the module: the calls processes make
(`Calls`, `Menus`, `Sessions`), the number of pids (`MAXPID`), failures (`MaxFail`).

What is abstracted, everywhere: bytes inside a block or page that no property tells
apart are one value; a spinlock that is held only between two points of a step is the
atomicity of the step; `panic()` sets `panicked` and nothing moves on.

## Runs

Deadlock is not checked where the system may really stop: in `Log` (nothing need be
called), `Pipe` (programs may be done), `Sh` (the machine halts when `init` exits).

| run | instance | what it shows |
|---|---|---|
| `log_crash` | 3 threads, 3 blocks of 2 values; a log of 4 blocks with its header, of which `begin_op` reserves 2 for a call that logs 1 | With a crash and a torn block anywhere, recovery included: `ImplementsTxnDisk` (a crash leaves whole calls, committed together, or none), `DurableOnReturn` (when the committing `end_op` returns, all is on disk), `SpaceReserved` (what is logged and what calls in progress may still log fits; no panic), `NoLostWakeup` (whoever sleeps in `begin_op` has a call or a commit in progress that will wake it). |
| `sched` | 2 CPUs, 2 processes | `SchedInv` (`c->proc` and `p->state` agree, no assertion fails), `OneCPUPerStack`, `NoLostWakeup`. |
| `sched_live` | 1 CPU, 2 processes | `RunnableRuns`, `SleepersWake` under fairness. |
| `proc` | 3 slots, 4 pids | `ProcInv` (the tree has living parents, no slot is reused under a CPU on its stack), `NoZombieMissed`, `NoKidsIsTrue`; no deadlock. |
| `pipe` | 3 processes, 2-byte pipe, counters modulo 4 | `ImplementsFifo`, `PipeInv` (no use after free), `SleepersHaveReason`, `ClosedReturns` under fairness. |
| `bcache` | 4 users, 3 blocks, 2 buffers, 1 pin | `CacheInv` (one buffer per block, none recycled in use, `bget` panics only when every buffer is in use or pinned), `SleepersHaveReason`, `ImplementsBlockStore`; no deadlock. |
| `virtio_disk` | 4 processes, 8 descriptors, indices modulo 16 | `RingInv` (no descriptor is lost or shared), `NoStrayTransfer`, `SleepersHaveReason` (no lost interrupt, no missed descriptor). |
| `fs` | 2 processes, 4 inodes of which 3 fit the table, 3 menus of 6 or 7 calls | `FsInv` (table and disk agree), `PanicHasReason` (the kernel panics only with the inode table full, or in a removed directory's `..`), `RefsCounted`, `NothingDangles`; no deadlock. |
| `vm` | 2 processes, 20 pages of 2 bytes | `VmInv` (every page accounted for, no panic), `ImplementsAddrSpace`. |
| `console` | 2 readers, or 1 writer; both buffers of 2 | `ConsInv`, `SleepersHaveReason`, `OutputMoves`, `ImplementsTty`. |
| `file` | 2 processes, 2 descriptors each, 2 files, 5 blocks of 2 bytes | `FileInv` (references and descriptors), `BlocksInv` (bitmap and inodes), `OpFits` (a piece of a write fits its transaction), `ImplementsFiles`. |
| `sh` | 7 process slots, 6 descriptors, 17 short lines and 9 longer sessions | `ParseAgrees` (the parser builds the tree of the grammar, for every line of up to 4 characters, and of 5 that begin with `x&`, `x;`, `x\|`, `\|x`, `(x`, `x<` or `x>`), `Plumbing`, `ForegroundDone`, `PromptReturns` under fairness. |

### Why these bounds are enough

- `log_crash`: two calls share a transaction, absorb each other's blocks and take up
  all that may be reserved, so that a third `begin_op` sleeps; what is logged and may
  still be logged reaches the last slot that `log_write()` allows. Values distinguish
  old from new.
- `sched`: two CPUs are what it takes for a CPU to pick up a process another is
  leaving; two processes for a sleeper and its waker. Liveness on two CPUs is out of
  TLC's reach here, hence the run with one.
- `proc`: parent, child and `init`; with a third slot, orphans and adoption.
- `bcache`: every buffer can be in use with another user asking, so that `bget` panics,
  sleepers queue for one buffer, and a buffer is recycled while another is pinned.
- `pipe`: indices wrap twice as fast as counters, and the counters overflow; one
  process has both ends and may be killed in either call.
- `virtio_disk`: two requests in flight exhaust the descriptors of a ring of 8, so that
  others wait; both indices overflow. `VIEW` drops consumed ring entries only.
- `fs`: in each menu one process makes what the other enters, links or removes, in the
  root and one or two directories below it. Together they exhaust the inodes on disk and
  the inode table, and a process follows `..` out of a removed directory.
- `vm`: `kalloc()` can fail at every place, and a process and its copy, after `exec`,
  fit exactly.
- `file`: a write of six bytes at an odd offset takes two pieces, crosses into the
  indirect block and fills the disk. A *menu* chosen at the start says which calls the
  programs of a behaviour make: the union of six menus instead of their product.
  Open fails with the file table full, after `create()` too, and for want of a descriptor.
- `console`: a line longer than the buffer, all indices wrapping, two readers of one
  line, two different characters in the output buffer. The readers and the writer are
  checked one after the other; each of them runs against the interrupt handler, which
  echoes. The proofs cover any mix.
- `sh`: three-stage pipelines, blocks, background commands that outlive their line,
  one failing `fork`, `pipe`, `open` or `exec` anywhere, and the shell's own
  `open("console")` failing besides. Programs may exit before they have read all.

### Fairness

Only three runs state it. `Sched`: a CPU executes its instructions, the timer ticks and
devices interrupt again and again while enabled (strong fairness, since an enabled
interrupt may be masked in between). `Pipe`: a process inside the kernel goes on and
gets `pi->lock` if it is free again and again (strong fairness; `acquire()` is not
fair to one spinner in a bounded time, but the scheduler of the machine is random
enough); nothing obliges a program to call `read`, `write` or `close`. `Sh`: processes
the shell starts run, and a program exits at the end of its input, or when nobody reads
its output (weak fairness on each process's next step); it may exit earlier, but need
not, and nobody is obliged to type.

## What is proved

TLAPS checks the theorems for every value of the constants, under the assumptions
(`LogAssumption`, `BcacheAssumption`, `VirtioAssumption`, `SchedAssumption`, `ProcAssumption`,
`PipeAssumption`, `ConsoleAssumption`) that the modules state and TLC evaluates in the runs.
They are as weak as the code allows: sets that are finite, a `None` that is no process,
counters whose range is a multiple of the buffer they index. Two more are hypotheses
of the theorems that need them and are named below. Each of these modules has an
inductive invariant `IInv`, one lemma for each action, and the properties as
consequences. `FiniteFacts` collects, as one formula, the few facts on cardinality that
the lemmas need; the proof modules derive it from the library at the end, which keeps
the library's theorems out of the other obligations.

**The log** (`LogProofs`).

- `Invariance`: `Spec => []IInv`. No property of interest is inductive alone. `IInv`
  adds to the types: the log lists no block twice; while the machine boots nothing runs
  and installed blocks equal their log copies (`BootInv`); `refcnt` is exactly the pin
  plus the holder, and a cached block that is neither logged nor being changed equals
  the disk (`CacheInv`); `outstanding` counts the calls in progress, and a commit
  excludes them (`CommitInv`); what each phase of `commit()` has achieved, slot by slot
  (`PhaseInv`). There is one lemma per action.
- `LoggedCached`, `TypeCorrect`: consequences.
- `WakeupsArrive`: `Spec => []NoLostWakeup`, with the strengthening that a log nobody
  uses is empty; it needs `MAXOPBLOCKS <= LOGSIZE`.
- `Refinement`: `Spec => ImplementsTxnDisk`. The mapping reads the durable contents as
  what recovery would leave: home blocks overlaid with the log's, if the header is
  written. `write_head` is the step that commits; all others are steps of readers and
  writers or stutter. A torn home block is hidden by the log, a torn log block by the
  header.
- `CommittedIsDurable`: `Spec => DurableOnReturn`.
- `RoomForAll`: `Spec => []SpaceReserved`, if calls log fewer blocks than they reserve and
  the log area, of `LOGSIZE` blocks, holds two reservations (`Margin`; the code has 10 of
  30, and `OpFits` bounds what a write logs). The strengthening says that every call
  keeps within its budget and that what `begin_op()` counted is an upper bound of what is
  in the log and still to come.

**The buffer cache** (`BcacheProofs`).

- `CacheSafe`: `Spec => []CacheInv`; `SleepersWoken`: `Spec => []SleepersHaveReason`. `IInv`
  says that the list has every buffer once, that `refcnt` counts the users that have the
  buffer and the log's pin, that a user is where the code holds the sleep-lock exactly
  when it holds it, and that a buffer which differs from the disk is pinned or being
  changed. `refcnt` is what makes the rest hold: a buffer that somebody has found is not
  recycled, and when none is left all are in use.
- `BuffersSuffice`: with a buffer for every user and every pinned block (`Roomy`) `bget()`
  never panics; each buffer in use belongs to another user than the one who asks.
- `Refinement`: `Spec => ImplementsBlockStore`. The value of a block is in its valid
  buffer, if it has one, and on disk otherwise.

**The virtio disk driver** (`VirtioProofs`).

- `RingSafe`, `TransfersAwaited`, `CompletionsSeen`: `Spec => []RingInv`,
  `Spec => []NoStrayTransfer` and `Spec => []SleepersHaveReason`, for any number of
  processes and descriptors and any width of the ring indices. `IInv` says that the chains
  of busy requests are disjoint and that each request is in one place: the avail ring,
  the device or the used ring. The rings cannot overflow because a request takes three
  descriptors, which is a counting argument over busy processes.

**The process table** (`ProcProofs`).

- `TableSafe`, `ZombiesCollected`, `NoKidsTold`: `Spec => []ProcInv`,
  `Spec => []NoZombieMissed`, `Spec => []NoKidsIsTrue`, for any number of slots. `IInv` says
  who holds `wait_lock` and each `p->lock` at each point, that a process in `exit()` has no
  children once it has given them away, that the scan of `wait()` has seen no zombie
  below its index, and that the child `fork()` is making belongs to one caller.

**The pipe** (`PipeProofs`).

- `PipeSafe`: `Spec => []PipeInv`, and `NoWakeupMissed`: `Spec => []SleepersHaveReason`.
  The invariant `IInv` says who holds `pi->lock` at each point, that an end is open as
  long as somebody refers to it and that whoever is in a call does, and, while the lock
  is held, that a sleeper without reason is owed a wakeup by the holder.
- `Refinement`: `Spec => ImplementsFifo`. The queue is `data` from `nread` to `nwrite`,
  modulo `PIPESIZE`; that an index is not used twice rests on the counters' range being a
  multiple of `PIPESIZE`, and on the lemmas of `Residues`.

**The console** (`ConsoleProofs`).

- `ConsoleSafe`, `NoWakeupMissed`, `OutputGoesOn`: `Spec => []ConsInv`,
  `Spec => []SleepersHaveReason`, `Spec => []OutputMoves`, for any sizes, readers and writers.
  Echo writes to the UART without `uart_tx_lock`: two threads may have seen it idle before
  either gives it a character, never three, and so a FIFO of two places is enough; the
  assumption `TXFIFO >= 2` says that it has them. With one, a character would be lost.

**The scheduler** (`SchedProofs`).

- `SchedulerSafe`: `Spec => []SchedInv`; `StacksDisjoint`: `Spec => []OneCPUPerStack`;
  `WakeupsReach`: `Spec => []NoLostWakeup`, on any number of CPUs and processes. The
  invariant `IInv` says of each CPU (`CpuInv`) that it holds exactly the locks that the
  code it executes owns, that `noff` counts them, and that interrupts come only where
  there are none; of each process (`ThreadInv`) that its state follows from where its
  thread stands, that the condition is false between its test under `lk` and
  `release(lk)`, and that from then on a waker that has made it true has not passed the
  process yet. A wakeup that comes before `p->state = SLEEPING` waits for `p->lock`:
  this is what makes the last part inductive. `Step` reduces a step of one CPU to what
  it changes; there is one lemma per action.

Only model-checked:

- liveness (`RunnableRuns`, `SleepersWake`, `ClosedReturns`, `PromptReturns`): fairness and
  `ENABLED` are beyond this prover;
- `ImplementsTty`: the mapping selects characters from a sequence with a recursive library
  operator, and what that computes needs induction over data, which is out of reach too;
  the same goes for the parser of `Sh` and the folds of `File`;
- the invariants and refinements of `Fs`, `File`, `Vm` and `Sh`, which would need inductive
  invariants of their own.

## What the models brought to light

None of these is a property of a run; each is what the source does, and the
properties are stated so that they hold nevertheless.

- `iput()` (`fs.c:341-360`) writes the inode free on disk before it drops its
  reference. Another process's `ialloc()` may take the same inode meanwhile; if it
  gives it up again with no link, its own `iput()` finds two references, and the first
  one drops the last reference without looking again. The inode stays allocated.
- A process killed in the middle of `pipewrite()` returns at `pipe.c:84` without waking
  readers of the bytes it has written; `SleepersHaveReason` excepts this case.
- `kill(0)` (`proc.c:597`) finds a free slot, whose pid is 0, and marks it killed;
  `allocproc()` does not clear the mark.
- `kill()` between a sleeper's test of `killed()` and its `sleep()` is not noticed until
  it is woken for another reason (`proc.c:427`, `pipe.c:114`, `console.c:92`).
- mkfs makes a log area of `LOGSIZE` blocks, header included (`mkfs.c:25`), while
  `begin_op()` hands out `LOGSIZE` blocks; calls that log at most `MAXOPBLOCKS - 1`
  blocks each cannot notice.
- A removed directory keeps its `..`, but no longer counts as a link of its parent
  (`sysfile.c:226`). A process whose current directory it is can go up to a parent that
  was removed in turn and is free, where `ilock()` panics (`fs.c:315`), or that has become
  another file. `PanicHasReason` says that this and a full inode table are the only ways
  to a panic in `Fs`, and `NothingDangles` what may be relied on nevertheless.
- `iget()` panics when `NINODE` = 50 inodes are in use, of `NFILE` = 100 possible open
  files; `bget()` when all `NBUF` = 30 buffers are.
- `create()` and `link()` may put an entry into a directory that was removed between
  `nameiparent()` and `ilock(dp)` (`sysfile.c:251`); what they make is unreachable.
- `piperead()` and `consoleread()` lose the byte whose `copyout()` fails.
- In the shell `a > x > y` writes to `x`: the first redirection is the innermost.
- `init` exits, and the kernel panics, when its `fork()` fails (`init.c:29`).

## Not modelled

- `syscall.c`, `string.c`, `printf.c`, `elf.h`: dispatch, formatting and memory
  helpers without state of their own; their failures are branches of their callers.
- `trampoline.S`, `kernelvec.S`, `entry.S`, `start.c`, `main.c`, `plic.c`: registers and
  machine setup. When interrupts may come is in `Sched`, `Console` and `VirtioDisk`.
- Permission bits of pages other than `PTE_U`, and the kernel's own page table: no
  property here depends on them.
- `sys_sleep` and the clock: a counter under a lock over `sleep()`, which `Sched` has.
- `umalloc.c`, `ulib.c`, `user/printf.c` and the small programs: sequential code.
- `usertests.c`, `grind.c`, `forktest.c`, `stressfs.c`: tests, a third of the lines.
- `ramdisk.c` is not part of the build. How `mkfs.c` writes its image is not modelled,
  only what it leaves.
- Liveness of the file system, the disk driver and the console: the safety forms
  (`SleepersHaveReason`, `OutputMoves`) say that nobody sleeps without a reason.
