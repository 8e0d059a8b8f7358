# WeiOS in TLA+

WeiOS is a small x86 kernel for one CPU: an O(1) scheduler, processes with
fork, exit and wait, sleep and wakeup, buddy and slab allocators, an IDE
driver, a buffer cache, a write-ahead log, inodes, files and pipes. This
directory models its parts in TLA+, checks them with TLC on small instances
and proves some of the results with TLAPS for every instance.

## 1. Inventory

| Part | State | Operations | What makes it correct |
| --- | --- | --- | --- |
| scheduler (`kern/sched.c`) | run queue and exhausted queue, each with 40 lists, a bitmap and a count; the current process | `scheduler`, `sched`, `yield`, `add_proc_to_queue`, `del_proc_fron_queue` | bitmap, count and lists agree; nobody is queued twice; a slice is never empty; every queued process runs |
| sleep and wakeup (`kern/sysfunc.c`) | wait lists linked through the same `kinds_list` as the queues | `sleep`, `wakeup` | a process is on one list, the one its status says; no wakeup is lost |
| process life cycle (`kern/sysfunc.c`, `kern/proc.c`) | status, ppid, children, killed, wait_for_child | `clone`, `exit`, `wait`, `kill`, `murder` | children and ppid agree, the dead are reaped once and never run again, the killed die |
| process table (`kern/proc.c`) | pid bitmap, proc_table, descriptor cache, n_procs_alive | `proc_alloc`, `get_pid`, `clear_pid`, `pid2proc`, `proc_desc_destroy` | live processes have different pids and are found under them |
| traps and timer (`kern/trap.c`) | jiffs, timeslice_left, preempted | `trap` | ticks are charged once; a killed process exits on its way out |
| locks (`kern/lock.c`) | locked, n_clis, int_enabled | spinlocks, sleeplocks | mutual exclusion, no self-deadlock |
| ide driver (`kern/ide.c`) | the request queue, n_requests | `ide_read_write`, `ide_write_dozens`, `ide_intr` | the buffer completed is the one the disk worked on |
| buffer cache (`kern/bio.c`) | hash table, free list, flags of each buffer | `getblk`, `bread`, `brelse`, `bwrite` | one buffer per block, one owner per buffer, waiters are woken |
| log (`kern/log.c`) | header, number of open transactions, committing | `begin_transaction`, `log_write`, `end_transaction`, `recover_from_log` | after a crash all or nothing of a transaction is on disk |
| inodes (`kern/inode.c`, `kern/fs.c`) | inode cache, references, sleeplocks | `iget`, `ilock`, `iput`, `readi`, `writei`, `link`, `unlink` | one in-memory inode per number, freed only without references |
| files (`kern/file.c`, `kern/sysfile.c`) | file table, descriptors, references | `file_alloc`, `file_dup`, `file_close`, `dup2`, `pipe` | references equal the descriptors that point to a file |
| pipes (`kern/pipe.c`) | ring buffer, two counters, two open flags | `pipe_read`, `pipe_write`, `pipe_close` | a FIFO of bytes; nobody sleeps over a closed end; freed once |
| page frames (`kern/buddy.c`) | free areas, page sets, watermarks | `__alloc_pages`, `__free_page` | a page is free once or allocated once; blocks stay aligned |
| slab (`kern/slab.c`, `kern/kmalloc.c`) | slabs and their object lists | `kmem_cache_alloc`, `kmem_cache_free` | an object has one owner; counts agree |
| virtual memory (`kern/pmap.c`, `kern/trap.c`) | page tables, page references | `page_insert`, `page_remove`, `cow_pgfault` | references equal mappings |
| ipc (`kern/sysfunc.c`) | ipc_recving, ipc_value, ipc_from | `ipc_try_send`, `ipc_recv` | a receiver that returns got exactly one message |
| console (`kern/console.c`, `kern/kbd.c`) | tty ring buffers | `kbd_intr`, `compatible_console_read` | characters in order, none read twice |
| boot, monitor, libraries, mkfs, user programs | - | - | not modelled (section 9) |

**How the parts interact.** Processes enter the kernel through `trap()`, by a
system call, a fault or an interrupt. System calls enter through a trap gate
and stay interruptible; a spinlock disables interrupts on the only CPU. Every
blocking operation (sleeplock, disk, buffer, log, pipe, console, ipc, wait)
is `sleep()` on a list and `wakeup()` by somebody else, both under
`proc_table_lock`, and `sleep()` switches to the scheduler's context. The file
system stacks files on inodes, inodes on the log, the log on the buffer cache
and the cache on the disk driver.

**What is hard here.** Interrupts and preemption between any two unlocked kernel
steps; one list link shared by the run queues and all wait lists; operations
that release a lock, wait, and continue with what they knew; failures in the
middle of fork; crashes between disk writes. `PROJECT.json` lists each of these
hazards at the line where it bites, with the property that covers it.

## 2. Plan

The modules were written from the middle of the kernel outwards, in this order.

1. `Sched`: scheduler, sleep and wakeup, life cycle, sleeplock, disk wait;
   `SchedProofs`: its inductive invariant. Everything that blocks rests on it.
2. `Pipe`, a refinement of the abstract `Fifo`.
3. The way down to the disk: `Ide`, `Bio` (a refinement of the abstract
   `BlockStore`) and `Log` with crashes.
4. The file system above it: `Icache`, `FileData`, `Dirs`, `FileTable`.
5. Memory: `ProcTable`, `Buddy`, `Slab`, and `Vm` (a refinement of the abstract
   `Memory`).
6. Two more clients of sleep and wakeup: `Ipc` and `Console`.

Proofs follow the same order. Done: `SchedProofs` and `FamilyProofs` (every safety
property of `Sched`), `LogProofs`, `StorageProofs` (the cache with its refinement, and
the logs of the run), `FilesProofs` (the inode cache and the open files),
`MessageProofs` (pipes with their refinement, console and messages), `VmProofs`
(address spaces and their refinement of `Memory`) and `MemoryProofs` (the process
table, and the address spaces of the run). Section 8 says what stays with TLC,
and why.

## 3. The modules

### `Sched`

`Sched` models the process core. Its variables are the fields of `struct cpu`,
`struct proc` and `struct proc_queue` under their own names; `pc[p]` says where
process `p` is in the kernel and `spc` where the scheduler's own context is.

*Atomicity.* The code between `spin_lock_irqsave` and `spin_unlock_irqrestore`
is one step. Everything else is split at the points where an interrupt can
make a difference: after `exit()` has set ZOMBLE, while files are closed,
between the load, the store and the test of `timeslice_left` in `dup_proc_struct()`,
between `dup_proc_struct()` and the end of `clone()`, between the scheduler's
unlock and its next lock, and between the checks at the end of `trap()`.

*Correspondence.* `SchedRequeue`, `SchedSkip`, `SchedPick` and `SchedIdle` are the
parts of one turn of `scheduler()`; `Tick`, `TickIdle` and `ide_intr` are the
interrupts; `TrapReturn` and `TrapReturn2` the end of `trap()`; `proc_alloc`,
`ForkLoad`, `ForkStore`, `ForkHalve`, `ForkTest`, `ForkLink` and `ForkFail` are
`clone()` with `dup_proc_struct()`; `WaitReap` and `WaitSleep` one turn of `wait()`; `Kill` both
`kill()` and `murder()`; `Exit`, `ExitClose`, `ExitCloseIo` and `ExitEnd` are
`exit()`; `SleepLock` and `SleepUnlock` are `kern/lock.c`'s; `IoSubmit` and
`IoRecheck` are `ide_read_write()`. `PROJECT.json` maps every definition to lines.

*Builds.* `dup_proc_struct()` halves `timeslice_left`, tests it for 0 and writes 1, with
interrupts on, and `timeslice_left` is not volatile. A compiler may do this in a
register and store once (`ForkStore`), which gcc does with the `-O2` of the
makefile, or store, test and store again (`ForkHalve`, `ForkTest`). The constant
`Builds` says which; the proofs are about both.

*Abstractions.* The 40 FIFO lists of a queue are one sequence of entries in
order of arrival, each with the priority it was queued under: the list of a
priority is a subsequence. A wait list is a sequence of processes. The time
slept is a choice in `wakeup`, not a clock. The bonus is computed modulo the
word size, as the C expression is. A process has one disk request at a time.
A pid is identified with its descriptor: what `clear_pid()` does to pids is the
subject of `ProcTable`. Interrupt masks are not state: `n_clis` and
the per-CPU `int_enabled` are assumed to do what `lock.c` intends.

### `Pipe` and `Fifo`

`Pipe` models one pipe: the fields of `struct pipe` (the flags `readopen` and
`writeopen` as the set `open`), the references of its two `struct file`, and
which ends each process has. Code under `pipe_lock` or the file table's lock is
one step. `ReadTop` and `WriteTop` are the loop test of `pipe_read()` and
`pipe_write()` and all that follows when it ends; `ReadWoken` and `WriteWoken`
are the return from `sleep()`. `pipe_close()` is two steps, because it reads
the flags again after the unlock: `frees` counts the calls of `kfree()`, which
may be two. `exit()` closes the ends one by one; `fork()` shares them, and
when `cow_fork()` fails afterwards the child keeps its references without ever
running (`"lost"`). `kill()` takes a sleeper off its list.

The scheduler is abstracted to what it guarantees (section 5). A wait list is a
set, since `wakeup()` takes everybody. A killed process may still do one more
thing in user mode, because a tick after the last check of `trap()` can switch
to its killer. A process has each end at most once: `dup()` and `dup2()` belong
to `FileTable`. `data` is never freed by the code, so it has no state.

`Fifo` is what a pipe promises: `Put` appends bytes that fit, `Get` returns bytes
from the front. The mapping reads the ring from `nread` to `nwrite`.

### The disk: `Ide`, `Bio`, `Log`

`Ide` is the driver's queue, the block the disk works on (`active`), the flags
`B_VALID` and `B_DIRTY` of each buffer, and for each process the buffers it waits
for. `ide_read_write` and `ide_write_dozens` (a whole dozen is queued under one
lock) are actions, `ide_intr` is the interrupt with or without an error of the
disk, `Woken` the return from `sleep()`. `fresh` is history: the buffers whose
contents the disk has really moved since they were asked for.

`Bio` is the cache above a driver that answers some time: `getblk` is split
into its cases (`getblk_Busy` and `getblk_Full` sleep, `getblk_Hit` and
`getblk_Miss` take a buffer), `bread`
writes a dirty buffer home before it reads, `brelse` puts a clean buffer at the
end of the free list and leaves a dirty one off it. Users take a block, change it
and give it to `bwrite` or to `log_write`. `BlockStore` is the promise: a block is a
register with at most one holder, which keeps what was last written.

`Log` is `log.c` on a disk of which one block transfer is atomic. A process
begins (`begin_transaction`, `BeginLoop`), writes blocks (`Write`, `log_write`) and
ends; the last one to end commits: the log blocks one by one in any order, the
header, the home blocks, the empty header. `Crash` forgets all memory between
any two of these writes, and the recovery (`read_log_header`, `RecoverBlock`,
`recover_from_log`) runs before anybody else. `stable` is history: the contents as of the last commit.

### Files: `Icache`, `FileData`, `Dirs`, `FileTable`

`Icache` is the table of `struct inode` slots: `iget`, `iref`, `ilock`, `iunlock` and
`iput`, the latter split where it gives up `icache_lock`, and what unlinking
does to the disk's inode. `FileData` is the map from a file's bytes to blocks of
the disk: `balloc`, `bfree`, `bmap` with direct, indirect and doubly indirect
blocks, `readi`, `writei`, `ifree`, `iupdate`, and `file_write` in pieces between
which others write. `Dirs` is the tree: `namex` one directory at a time, and
`link`, `unlink`, `creat`, `mknod`, `mkdir`, `open`, `chdir` and the close of an open
file, with a step wherever the code may wait for an inode's lock. `lost` is history:
the names of an inode that no lookup finds any more, in a directory that was
removed or in what is no directory (section 7). `FileTable` is
`struct file` with its free list and the descriptors of each process: `open`,
`dup`, `dup2`, `close`, `pipe` with its failures, `fork`, `exit`. A call is one
step, because a process changes only its own descriptors and the table has a
lock; the loops of `fork` and `exit` over the descriptors take one step for each
file (`fork_dup`, `exit_close`; `loop` says where they are), so that everybody
else's calls come in between.

Each takes the layer below as its own runs show it: `Dirs` one slot per inode and
a log with room, `FileData` whole blocks. Where the layer below does not keep
that promise, section 7 says so.

### Memory: `ProcTable`, `Buddy`, `Slab`, `Vm`

`ProcTable` is the id bitmap, the table, the descriptor cache and the count of
living processes, with `proc_alloc` failing at either of its two allocations, as
the code provides for it (`page_alloc()` as it is waits for memory rather than fail).
`Buddy` keeps the links of its lists, because what the code does to them depends
on the links of a page that is on a list twice or on none. The watermark is
tested in `int` for an order (`BelowMark`) and in `uint32_t` for the batch of a page
set (`BelowMarkBatch`), which wraps when fewer pages are free. `Alloc` is every
order with every flag, `FreeSpec` single pages that are also given back, as
`slab.c` does: a reserved page to its list, any other in the two stretches under
the zone's lock that `__free_pages` has (`free_page`, `FreeAgain`). `Slab` is caches, slabs, free chains and the descriptors that live in
`meta_cache`, with a step for each stretch under a cache's lock. `Vm` is the page
directories and `p_ref`: fork page by page, copy-on-write and heap faults, `exec`,
`exit`, `wait`, `brk`, `sbrk`, and `read()` into a user's buffer. `Memory` is its
promise: each process has a memory of its own.

### `Ipc` and `Console`

`Ipc` has `ipc_try_send`, the loop of `ipc_send` and `ipc_recv` with `fork`, `wait`,
`exit` and `kill`, which use the same `sleep_alone` and the same descriptors.
Senders name a process by its id, which `pid2proc` looks up before the lock is
taken; the root process has id 0, which to `pid2proc` is the caller.
`Console` is the ring between `kbd_intr`, the readers of the device and the
monitor's `getchar`, with backspace, kill and end of file; its positions wrap. A reader
may be killed at any time of its call and looks at `killed` after a sleep only.

### Proof modules

`SchedProofs` extends `Sched`, `FamilyProofs` extends `SchedProofs`; `LogProofs`
and `VmProofs` extend the module they are about. `StorageProofs`, `FilesProofs`,
`MessageProofs` and `MemoryProofs` extend the module of a run and prove what the run
checks; `StorageProofs` takes what it says of the log from `LogProofs`, and
`MemoryProofs` what it says of address spaces from `VmProofs`. Section 6 describes them.

### Conventions

An operator named `Op_Why` is a defective `Op`: `PROJECT.json` lists under
`mutants` which property notices it. Properties that the code does not have are
at the end of their module, under a heading that says so (section 7).
`PROJECT.json` maps every definition to the lines it stands for.

## 4. Runs

Modules that share no variable are checked in one run: `MCStorage`, `MCFiles`,
`MCMemory`, `MCMessages` and `MCLive` extend one module and instantiate others,
some of them twice with different constants. A variable `part` is chosen in the
initial state; a behaviour moves that part and leaves the others where they
started. Each part is explored as completely as it would be alone. A property
of a part is stated for the behaviours that move it.

| Run | Instances | Checks |
| --- | --- | --- |
| `slices` | 2 processes, 4 priorities, slices of 2 to 4 ticks, every system call, both `Builds` | `IInv`, the invariant of the proofs, with types, bitmaps and counts; queues against `proc_queue`; one RUNNING process; no empty slice on the CPU, but between the store and the test of a fork done line by line |
| `processes` | 3 processes that fork, wait, exit and kill, or fork, murder and use a sleeplock | the one list link; mutual exclusion; no lost wakeup; the family tree; every RUNNABLE child queued; the dead stay dead |
| `live` | 2 processes, every system call, both `Builds`, `FairSpec` | a queued process gets the CPU |
| `pipe_ring` | 2 processes, a ring of 2 bytes, counters modulo 4, 2 byte values | `IsFifo`, the refinement of `Fifo` |
| `messages` | a pipe of 1 byte and 3 processes; 3 processes with messages alone, with fork, exit and wait, and with exit, wait and kill; a console ring of 2 with 2 readers, the monitor and positions modulo 4 | references, open flags, freed memory and sleepers of a pipe agree; a delivered message is the one received; the ring is a queue; nobody sleeps over what is there |
| `storage` | 2 buffers for 3 blocks and 3 processes; 4 calls of 3 processes on 4 disk blocks, dozens of 3, disk errors; 3 transactions with group commits of 2 blocks and 2 crashes; 4 operations on 3 blocks for a log of 2 | `IsBlockStore`, the refinement of `BlockStore`; the free list, and nobody asleep for what is on it; every sleeper at the disk will be served; no crash takes back a commit; commits run alone and fit the header |
| `files` | 2 inodes in 2 slots; 2 files of up to 4 bytes on 5 blocks; 3 inodes, 2 names, 2 processes with 3 calls each out of 11; 3 struct files, 4 descriptors, 2 processes | references of inodes, ownership of blocks, what is read back, link counts, descriptors |
| `memory` | 4 descriptors and 16 ids; 15 pages in 2 zones, orders 0 to 2; 4 slabs' pages, 3 caches; 3 processes sharing pages, and 2 with heaps in 6 pages of addresses | table and cache of descriptors; each page and each object once; `p_ref` against the page tables; `PrivateMemory`, the refinement of `Memory` |
| `io_live` | a pipe with 2 processes; 3 calls of 2 processes at the disk; 4 operations of 3 processes in a log of 3 blocks; 2 processes that walk, open, create and change directories | who is killed asleep in a pipe exits; a closed pipe is freed; the disk answers; whoever waits for the log gets in; file system calls end |
| `ide_active` | 2 processes, 2 blocks | violated: the first queued buffer is not the one the disk works on |
| `log_atomic` | 1 process, 2 blocks | violated: half a transaction reaches the home blocks before the header |
| `buddy_list` | 12 pages | violated: the first page given back breaks the page set |

*Bounds.* For `Sched`: two processes with every call reach every action: one
running while the other is queued, asleep or dead. Three give a sleeplock two
waiters, a wait list two members, and a grandchild whose parent exits. Slices
of 2 to 4 ticks include the slice that fork halves to 0 and corrects to 1. Four
priorities allow two that a bonus separates and a clamp at both ends.
`MIN_TIMESLICE` is 5 in the code and 2 here; all that matters is that half of it
is not 0, which is what `SliceAssumption` says. `WORD` is the number of values of a
`uint32_t`; no instance has a sleep time long enough to wrap. It is as small as the
slices allow, because a slice that a tick inside fork wraps to `WORD - 1` is used up
tick by tick. In `processes` and `live` whoever
is woken has slept 1 tick, which earns the full bonus (`MAX_SLEEP_AVG` is 1), and
ticks take it away again; `slices` chooses among the times. `processes` has the fork
that stores once: what it checks does not depend on slices.

For `Pipe`: requests of up to 2 bytes (`MAXREQ`) on a ring of 2 give partial reads
and writes, and on a ring of 1 requests that never fit; counters modulo 4 wrap
twice as slowly as the ring and let `nwrite` be smaller than `nread`. The code's
512 divides 2^32 as 2 divides 4, which `PipeAssumption` requires. Three processes
let a reader, a writer and a closer be three.

For the disk: fewer buffers than blocks force evictions while others sleep; four
disk calls (`MAXCALLS`) put a single request before, inside and behind a dozen
(`MAXDOZEN`); two crashes (`MAXCRASH`) let the second interrupt the recovery from
the first, and three transactions (`MAXTX`) a commit after it. More operations than
the log has blocks make the last ones wait. For files: one direct block and an
indirect one of two entries, with cells of two, cross every boundary of `bmap` but
the doubly indirect one (section 7); three inodes are the root, a directory and
a file in it, and three calls (`MaxCalls`) of each process are enough to create,
move and remove the file under the other one's walk. For memory: with 16 ids in
4 words of 4 bits, `WORDBYTES` 2 stands for the code's 4 as 4 bits do for 32, and the
constraint `Bound` stops after two failures that lower the count wrongly; three
generations share a page with a frame left to copy it to, so that memory runs out in
the middle of a fork and of a fault (`VmProofs` is about any number of frames), and
the heap's address space wraps. A page set that asks for 3 pages (`HIGH` 4) in zones
of 7 finds fewer, so that its unsigned test wraps (`WORD` 32); 4 objects in use
(`MaxHeld`) fill two slabs of two, which is when a full slab is taken for one with
room. `MaxGrow` and `MAXREF` bound what one process holds. With 4 descriptors and 3 files two processes
reach each outcome of `pipe()` (no file left, one, or two), and a call starts only
while no file has more than `MaxRef` references, since those that `pipe()` leaks
have no other limit. For the console: a ring of 2
that is asked for 3 characters (`MaxBytes`), positions modulo 4.

Deadlock is checked in the runs of `Sched`. The others do not check it: all
processes may be dead, or the bounded calls used up.

*Symmetry.* Processes that no initial state tells apart are interchangeable in the
runs of safety properties; so are the blocks of the cache and the `struct file`s.
Runs with liveness use no symmetry.

## 5. Fairness

`Sched`'s `FairSpec` assumes that the scheduler's code runs when no process does,
that the timer keeps ticking and ends the idle `hlt`, that a process that gets
the CPU again and again executes its next kernel step and is charged a tick
(strong fairness, because it is disabled while another process runs), and that
the disk answers every request. A process in user mode need not do anything, so
no fairness is assumed of `UserStep`. The timer's period is longer than any
unlocked kernel path, which is why a kernel step is not postponed for ever.

The other modules assume weak fairness of what each process does in the kernel
while it can go on, which is what `NoStarvation` shows of the scheduler as long as
it does not panic: of `KernelStep` in `Pipe`, of `Step` in `Log` and `Dirs`, of `Woken` in
`Ide`. `Ide` also assumes that a working disk interrupts. An operation in a
transaction ends (`Log`'s `Step`): the code between `begin_transaction` and
`end_transaction` only waits for locks and the disk. Nothing is assumed of the start
of a call. The bounds on calls are part of what is claimed: a stream of requests
for smaller blocks starves the last one in the disk's queue, and a stream of
operations may always take the log's room first.

## 6. Proofs

TLAPS checks all of the following, for every value of the constants that the
named assumptions allow. Each proof has the same form: an invariant, the lemma
that the initial states satisfy it, one lemma or step per action that it is kept,
and the theorem that joins them. The properties themselves are not inductive;
what has to be added is said with each module.

### `SchedProofs`: the scheduler

For any set of processes, any number of priorities and any slice constants that
satisfy `ProcsAssumption` and `SliceAssumption`:

| Theorem | Result |
| --- | --- |
| `Invariance` | `IInv` always holds; type correctness is part of it |
| `QueuesConsistent` | lists, `proc_queue`, bitmap and count agree in both queues |
| `KindsListConsistent` | a process's link is where its status says, on one list, once |
| `SingleRunner` | at most one RUNNING process, the current one |
| `NoSliceWrap` | nobody waits for the CPU or has it with an empty slice, but between the store and the test of a fork done line by line |
| `SleepLockMutex` | a sleeplock has one holder |

None of these is inductive alone. That no process is queued
twice needs that a SLEEPING process has left the queues; that needs the
scheduler to hold no process it has just put back (`ProcState`: `sp` is set only at
the top of its loop); that a slice is never empty needs where each `fork` is (`ForkState`: a child being
made belongs to one parent and is in no list, so that it is given its slice
before it can run) and that a tick which interrupts the fork and uses the slice
up makes the process yield with a new one. `IInv` is the conjunction; it was checked by the
run `slices` before it was proved. `InitInv`, `NextInv` and `InvIInv` are the
three facts; `NextInv` has one lemma per action, and the actions that only move
a process or the scheduler share the lemmas `MoveInv`, `SleepInv`, `YieldInv`, `WakeInv` and
`IdleInv`. Facts about sequences (deletion at an index, appending, the set of
elements) are lemmas of their own.

The proofs do not assume that the constants are those of `include/sched.h`: only
that there are two priorities, that half the shortest slice is not 0 and that
a full slice fits a word.

### `FamilyProofs`: parents, children and sleepers

On top of `SchedProofs`, under the same assumptions:

| Theorem | Result |
| --- | --- |
| `FamilyInvariance` | `FInv` always holds |
| `TreeConsistent` | `children` and `ppid` describe the same tree |
| `NobodyForgotten` | a RUNNABLE process that `clone()` has linked is queued or in the scheduler's hands |
| `WakeupsArrive` | nobody sleeps over a free sleeplock, a finished transfer or a dead child |
| `GoneForGood` | a process that left `exit()` does not run before its descriptor is a new process |

That a ZOMBLE is on its parent's list needs that every process anybody may come
across is on one (`Linked`, with `Known`), that the root process never exits
(`RootLives`), that an exiting process has given its children away (`Childless`),
and that a child in the making is on no list (`Unborn`). For the sleepers the
invariant says of each wait list what must still be true while it is not
empty: the sleeplock is locked, the disk request is out, no child is dead. Most steps
leave the tree alone; `Plain` states what such a step may do and is shown once to
be enough.

### `LogProofs`, `StorageProofs`: the write-ahead log

For any number of processes, blocks, transactions and crashes, and every
`LOGSIZE`, `size` and `MAXOPBLOCKS` that satisfy `LogAssumption`:

| Theorem | Result |
| --- | --- |
| `LogInvariance` | `LInv` always holds |
| `LogDurable` | no crash takes a block back behind its last commit |
| `LogCommitsAlone` | nobody is in a transaction while the log commits; the panic of `end_transaction` is not reached |
| `LogHeaderFits` | the header array is never overrun |
| `StorageDurable`, `StorageCommitsFit` | the same of the two logs of the run `storage` |

`Phases` says who may be where: one process commits while the others are outside,
and all boot together. `Room` is why the header is not overrun although its limit is
tested outside the lock: the blocks logged and the `Claims` of the admitted
operations (one for each block an operation may still log) never exceed
`LOGSIZE`, and `begin_transaction` admits only within that sum. `Progress` says, for each
step of a commit and of a recovery, which log and home blocks are written;
`Versions` and `Kept` that no copy of a block is older than `stable` where the next
recovery will look for it. `AllOrNothing` is not a theorem (section 7).

### `StorageProofs`: the buffer cache

For any sets of processes, buffers, blocks and values (`BioAssumption`):

| Theorem | Result |
| --- | --- |
| `BioInvariance` | `BInv` always holds |
| `FreeIsFree` | a buffer on the free list is clean and nobody's, and nobody sleeps for it |
| `CacheIsBlockStore` | the cache implements `BlockStore` |

The refinement needs one buffer per block (`Hashed`), one owner per busy buffer
(`Owned`), and which of buffer and disk counts (`Contents`: a valid buffer equals its
block, a dirty one is newer, one that is neither is being read by its owner).
With `BInv` in both states of a step each action is a step of `BlockStore` or
leaves its variables alone; `Owner` and `Val` are the mapping's two functions, for
which that is shown block by block.

### `FilesProofs`: the inode cache and the open files

For any sets of processes, slots, inode numbers and struct files, any number of
descriptors and any bound on references (`IcacheAssumption`, `FilesAssumption`):

| Theorem | Result |
| --- | --- |
| `IcacheInvariance` | `FInv` always holds |
| `InodesAreHeld` | `ref` counts the references of the processes; nobody locks a slot without one |
| `OpenFilesAreCounted` | no file is freed while a descriptor names it; `n_openfiles` and `n_opfiles` are exact |
| `NoCorruptionBefore` | until a `pipe()` has failed, the panics of `file_dup` and `file_close` are not reached |

Both halves count: `ref` is compared with the cardinality of a set, the references
in the processes' bags (`Held`) or the descriptors that name a file (`Naming`),
and each action adds a member to it, takes one away or leaves it. For inodes that
needs that the free list is exactly the slots without a reference, once each
(`Lists`), and that a process in `iput()` still has what it is about to give up
(`Putting`). For files it needs what the loops of `fork` and `exit` have done so
far (`Loops`): the table being filled equals the parent's up to the next entry
and is empty behind it, the entries that `exit` has closed no longer count, and
no table is in two hands; besides, that a table nobody uses is empty
(`IdleEmpty`). Then every file that is copied or closed has a reference
(`NamedIsHeld`), which is all that `file_dup` and `file_close` ask for; `dup2` is shown as
a close followed by a fill, a `pipe()` that succeeds as two fills whose old
references leak. Both invariants were checked by TLC before they were proved.

### `MessageProofs`: pipes

For any set of processes, every ring size and every counter width that is a
multiple of it (`PipeAssumption`):

| Theorem | Result |
| --- | --- |
| `PipeInvariance`, `PipeTypes` | `PInv` and `TypeOK` always hold |
| `PipeEnds` | references, open flags, freed memory and callers agree |
| `PipeSleepers` | nobody sleeps over bytes or room |
| `PipeIsFifo` | the pipe implements `Fifo` |

This part of the module begins with arithmetic: remainders are unique, numbers less than `n`
apart differ modulo `n`, and a counter that wraps stays at its place of the ring,
which is where the divisibility is used. `WriteAppends` and `ReadTakes` then show
that a step on the ring is a step of the queue. The ends need the state of every
process's descriptors: who may close, who is in `pipe_close` with which flags read,
and that a process inside `pipe_read` or `pipe_write` has its end.

### `MessageProofs`: the console and messages

For any readers, ring size and width of positions (`ConsoleAssumption`) and any
set of processes that send and receive (`IpcAssumption`):

| Theorem | Result |
| --- | --- |
| `ConsoleTypes`, `ConsoleIsQueue` | the ring is the queue of what was typed, less what was erased and read |
| `MessagesKept` | a delivered message is the one received, while processes only exchange messages |
| `SleepersReachable` | sleepers of pipes and console have something to wait for; a receiver other than root has `ipc_recving` set and every process finds it under its id, beside fork, exit, wait and kill, for up to four processes (`FewPeers`) |

`RingHolds` relates the ring to the queue character by character; `RingPut`, `RingCut` and
`RingTake` are the three ways it changes. A character that is stored overwrites none
because its place is less than `TTY_BUF` ahead of all others, modulo `TTY_BUF`, and
positions wrap at a multiple of it. That `kbd_intr` wakes the readers at the right
moment rests on the same arithmetic: the ring is full when the new position is
`rpos + TTY_BUF` as a word. For messages (`XInv`) whoever has `ipc_recving` set is asleep
and has none; with fork or exit this no longer holds (section 7), which is why
`MessagesKept` is about the part with messages alone.

That an id leads to its sleeper needs that the ids in `proc_table` are different and
that only root has 0 (`IdsOK`), and where processes come and go that an id given back is
the one that was taken: `id_bitmap` and the ids in use are disjoint, and a reaped
process is not asleep (`TableOK`). `clear_pid` gives back the right bit only for
ids below `sizeof(uint32_t)`, which is 4: `get_pid` takes the lowest id, so four
processes never have another one. Hence `FewPeers`: with more, an id from 4 up is
given back as another one, and in the end two processes may share one
(`ZeroBitMeansOccupied`, section 7).

### `MemoryProofs`: the process table

For any set of descriptors and any layout of the bitmap with more bits than bytes
to a word (`ProcTableAssumption`):

| Theorem | Result |
| --- | --- |
| `TableInvariance` | table entries are living processes under their ids; each descriptor is a process's or in the cache, once |
| `TableIsExact` | where `proc_alloc` fails only after it has counted, also `n_procs_alive` is exact and ids below `sizeof(uint32_t)` are unique |

`ClearPid` is the lemma about `clear_pid`: below `WORDBYTES` it sets the bit of the id, and
from there on a bit that is none of those, which is why the small ids stay
right (`SmallOwned`). `get_pid` never fails in that instance because the last id is
beyond what `clear_pid` reaches and is never given away.

### `VmProofs`, `MemoryProofs`: address spaces

For any finite set of processes, any number of frames, every layout of the address
space and every size of a page table that satisfy `VmAssumption` (the first
process fits into memory, and there are fewer frames than `p_ref` can count):

| Theorem | Result |
| --- | --- |
| `Invariance`, `Types` | `IInv` and `TypeOK` always hold |
| `References` | `p_ref` of a frame in use is the number of entries that name it |
| `WritePrivately` | without heap pages, what one process may write no other one has |
| `Privacy` | without heap pages, `Vm` implements `Memory` |
| `ReferencesExact`, `MemoryIsPrivate` | the same of the two instances of the run `memory` |

A reference count is right only if nothing else is done with the frame, so the
invariant gives every frame a role (`Ok(t, r)`): free, a directory, a page table at
one place of one directory, the page table of a kernel stack, a kernel stack, or a
page, which is at the same address in every address space that has it. From the
roles follow that a frame named from a page table is no page table itself, that it
has at most as many users as there are directories, so that `p_ref` does not wrap,
and that what `page_alloc` returns is named nowhere. `Ok` is a statement about a
memory `t`, not about the state: the operators of `pmap.c` are applied one after the
other within a step, `Ok` holds after each of them, and each has its lemma
(`AllocOk`, `WalkOk`, `InsertOk`, `RemoveOk`, ...), from which `fork`, the fault handler, `exec`
and `exit` are put together. `exec` grows the new directory by a recursive function;
that all its steps are `Ok` is shown with the least step that is not.

`IInv` adds what holds between the steps of the system only: a process has a kernel
stack and only the heap can have reached `PFTEMP` (`Shape`), zombies have no pages (`Zombies`, without which
`wait` would leak them), a child under construction has one parent, which is still
in `fork`, and no page where `cow_fork` has not been (`Forks`, without which copying a
page would drop another), and, as long as nobody touches the heap, no frame is in
two address spaces and writable in one (`Hidden`). Each action's lemma also says what the
step shows in the pages (`Seen`): nothing, a store, pages gone, a page copied, or a
program loaded. `Refines` makes of each an action of `Memory`.

Heap pages carry `PTE_SHARE` and are writable in parent and child; section 7 has the
counterexample, and the two theorems name the exception.

## 7. What the repository says and the code does not do

Where a comment, an assertion or the repository's README says more than the
code does, the property is stated in its module, below a heading. Three of
them are runs (`ide_active`, `log_atomic`, `buddy_list`; the findings in
`PROJECT.json` quote the promise). TLC refutes the others too, on the
instances given here; they are not runs, and no run rests on them.

| Property | Promise | Instance | What happens |
| --- | --- | --- | --- |
| `Sched!NoSchedPanic` | `sched.c:197` panics when a RUNNING process enters `sched()` | 2 processes; fork, wait, exit | a tick after `exit()` has set ZOMBLE makes the process RUNNABLE, it is RUNNING when it comes to `sched()` |
| `Sched!KilledDies` | `README.md:255`: a killed process dies soon, "因为有时钟中断" | 2 processes; fork, wait, murder; `FairSpec` | `wait()` goes back to sleep without looking at `killed` |
| `Sched!OrphansAreReaped` | `README.md:255`: a ZOMBLE stays until its parent calls `wait()` | 4 processes; fork, wait, exit | `exit()` hands ZOMBLE children to the root process without waking it |
| `Sched!RunnableRuns` | `README.md:255`: RUNNABLE is in a run queue | 2 processes; fork that may fail; `FairSpec` | `clone()` fails after the child became RUNNABLE and forgets it |
| `Sched!SliceNeverWraps` | `sysfunc.c:316`: fork "avoids stealing system time" | that of `slices`, `Builds` "line by line" | half of a slice of 1 is stored as 0, a tick before the test makes it `WORD - 1` |
| `Pipe!NoReaderLeftBehind` | `pipe.c:67`: the reader sleeps until somebody writes or closes | 2 processes, 1 byte | `writeopen` is tested only after the sleep |
| `Ide!ValidIsFresh` | `ide.c:141`: valid "because it is just Fresh" | 1 block, disk errors | an error skips the transfer and not the flag |
| `Bio!HashedIsUsedOrFree` | `bio.c:80-82` | 2 buffers, 2 processes | a released dirty buffer is neither used nor free until a commit writes it |
| `Bio!SleepersHaveOwner` | `README.md:339`: a process sleeps while another one has the block | 2 buffers, 2 processes | a block given to `log_write` is released dirty, and `brelse` wakes nobody (`bio.c:186`) |
| `Log!AdmittedFits` | `log.c:121`: an operation that might exhaust the log waits | 3 operations, log of 3 | `LOGSIZE` blocks are admitted, `size - 1` fit: the last `log_write` is refused |
| `Log!LogInItsArea` | `mkfs.c:18`: inode blocks follow the log | 3 operations, log of 3 | the limit is tested before the lock: two writers pass it at once |
| `ProcTable!ZeroBitMeansOccupied` | `proc.h:116` | 5 descriptors, 16 ids | `clear_pid` divides by bytes instead of bits |
| `Icache!OneCopy` | `inode.c:30`: the lock protects the inode | 2 processes, 1 inode, 3 slots | a hashed slot without references is not reused: two slots, two locks |
| `Icache!NoDie2` | the panic of `inode.c:180` | the same | the inode is freed through one slot and locked through the other |
| `Icache!NoDeadlockPanic` | the panic of `lock.c:56` | 1 slot, 2 inodes | `iget` without a free slot keeps `icache_lock` |
| `FileData!WriteDataToDisk` | `inode.c:402` | 2 files, 4 blocks | on a full disk `writei` writes to block 0 and reports success |
| `FileData!ReadsBack` | `fs.h:21`, `inode.c:303` | 1 file with doubly indirect blocks | `bmap` uses `entries[r-1]` |
| `Dirs!EveryCallEnds` | `log.c:131` | `creat` and `unlink` of one name, or `link` to a name that exists | `creat` holds the inode and locks the directory again, `unlink` the other way round; `dirlink` locks the inode it found while `link` holds the directory |
| `Dirs!EntriesInDirectories` | `inode.c:466` | `creat` of a and a/a | the last directory of a path is not tested to be one |
| `Dirs!ParentExists` | `sysfile.c:248` | `mkdir`, `unlink`, `creat` below it | the directory is removed between `namep()` and the lock |
| `Dirs!EntriesExist` | the panic of `inode.c:180` | nested directories, `unlink` of ".." | `..` of a removed directory removes its parent |
| `FileTable!NoCorruption` | the panic of `file.c:67` | 3 files, `Beyond` | `pipe()` takes descriptors in use, and its failure leaves them closed |
| `Buddy!NoDeadlockPanic` | the panic of `lock.c:56` | 13 pages | a zone's lock is kept when its page set cannot be filled |
| `Buddy!WatermarkHolds` | `buddy.c:130`: "enough pages above low watermark" | that of `memory` | `free_pages - batch` is unsigned and wraps: the page set takes the pages below the mark |
| `Buddy!KernelZoneBelow16MB` | `buddy.h:21` | 12 pages, `FreeSpec` | only the first page of a block knows its zone |
| `Buddy!NormalBehindReserved` | `pmap.c:100` | 12 pages, 4 reserved, `FreeSpec` | the reserved size is shifted by 12: the normal zone begins with the reserved pages |
| `Slab!InsideSlab` | `slab.h:18` | 5 pages, 2 objects to a slab | the last slab of the list is used without a test that it has room |
| `Vm!WritableIsPrivate` | `sysfunc.c:344` | 2 processes with a heap | heap pages carry `PTE_SHARE` and stay writable in both |
| `Vm!HeapBelowTop` | `sysfunc.c:445` | `brk`, `sbrk` | `sbrk` adds the new break to the old one |
| `Vm!TablesReturned` | `proc.c:235` | fork, exit, wait | a directory's count wraps below 0, and the stack's table is not freed |
| `Vm!NoFaultInHandler` | the panic of `trap.c:193` | `brk`, write | the handler reads `uvpt` where there is no table |
| `Vm!NoFaultInRead` | the panic of `trap.c:193` | fork, `read()` | the kernel writes to a read-only user page |
| `Ipc!RecvingIsBlocked` | `proc.h:89` | 3 processes; exit, wait | `wait_for_child` stays set, a child's exit wakes the receiver |
| `Ipc!AnyoneCanReceive` | `error.h:15`: a send fails when the receiver "is not recving" | 3 processes, messages alone | root sleeps in `ipc_recv`, and its id 0 is the sender's own to `pid2proc` (`proc.c:139`) |
| `Ipc!ReachesPid` | `error.h:7` | 4 processes; fork, exit, wait | the receiver is looked up before the lock is taken |
| `Console!KillsLine` | `kbd.c:73`: "kill line" | 1 reader, ring of 2 | a reader takes characters of an unfinished line |
| `Console!NoDeadlockPanic` | the panic of `lock.c:56` | the monitor | `getchar` holds `console_lock` while the echo takes it |

The passing runs stay clear of these cases by their constants, not by changing
what an action does: the run `files` has no doubly indirect block and calls that
do not remove "..", `memory` shares pages that are not heap, `io_live` has neither
`link` nor `unlink`. The properties whose statement names an
exception (`SmallIdsUnique`, `ReadsBack`, `NoDangling`, `SliceNeverEmpty`, `EachObjectOnce`,
`SleeperCanReceive`) say which.

## 8. Only model-checked

*Out of the prover's reach.* All liveness: `NoStarvation`, and what the run `io_live`
checks. Of `Ide`, a dozen is queued by a fold over its buffers, so that what the
queue holds afterwards is an induction over data: the types of the run `storage`
and `SleepersAreServed` stay with TLC. The same is true of `FileData`'s block maps (`UsedIsOwned`, `ReadsBack`), of
`Dirs`' sums over directory entries (`LinksCounted`) and of the chains that `Buddy` and
`Slab` follow (`EachPageOnce`, `EachObjectOnce`).

*True of the instance only.* In the part of the run `messages` with families, ids are
given away again, and for the fifth process's id `clear_pid` sets the bit of
another one (section 7), so that with more processes two may come to share one.
`SleepersReachable` is proved for up to four; the types of
that part are checked for three.

*Not yet proved.* The types of the runs `files` and `memory`, as far as they are about
`FileData`, `Dirs`, `Buddy` and `Slab`.

## 9. Not modelled

Boot, device setup and the monitor's commands are straight-line or pure I/O.
System call dispatch converts arguments and keeps no state. The libraries, `mkfs`
and the user programs are outside the kernel. Of the modelled parts the
following is left out: `exec`'s argument strings and ELF header; the alarm
handler; the nesting counter of spinlocks and the saved interrupt flag, which
are assumed to do what `lock.c` intends; scan codes, colours and the screen;
the page calls of user programs on other processes (`sys_page_alloc`,
`sys_page_map`, `sys_page_unmap`); ids of 128 and more, whose bit lies outside the
bitmap; `log_write` outside a transaction, which `exit()` does when it drops its
directory; and the dereference of null pointers that `pid2proc` of an unused id
and a failed `proc_alloc` lead to.
