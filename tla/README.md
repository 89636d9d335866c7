# TLA+ models of the three xv6 kernels

The repository holds three kernels made from xv6 (x86):

| short | directory | what was added to xv6 |
|-------|-----------|-----------------------|
| P1 | `src/ML&MLFQ_Scheduler/xv6-public` | two schedulers, chosen when the kernel is built: MULTILEVEL (round robin and FCFS) and MLFQ (`-D MLFQ_SCHED`, `MLFQ_K` levels) |
| P2 | `src/Process_Management/xv6-public` | a shared page per process, memory limits, `exec2`, an administrator mode, `pmanager` |
| P3 | `src/Users/xv6-public` | user accounts, login, file modes and owners |

`log.c`, `bio.c`, `ide.c`, `sleeplock.c`, `spinlock.c`, `pipe.c`, `kalloc.c`,
`console.c` and `uart.c` are the same files in all three. Models of them are
mapped to one copy, that of P1 (`kalloc.c`: of P2).

## Inventory

| component | state it keeps | operations | meets others through |
|-----------|----------------|------------|----------------------|
| MLFQ scheduler (P1) | `ptable`, the heaps `mlfq[l]` with their `cproc`, `tmp`, `ticks`, `boost`; `qlevel`, `qtime`, `priority` of a process | `scheduler`, `priority_boost`, timer, `yield`, `sleep`, `wakeup`, `kill`, `fork`, `exit`, `wait`, `setpriority` | every `sleep` and `wakeup` of the kernel; `ptable.lock`, which it hands across `swtch` |
| MULTILEVEL scheduler (P1) | `rr` (circular queue), `fcfs` (heap on pid), `tmp` | the same, without levels and priorities | the same |
| write-ahead log | `log.lh`, `outstanding`, `committing`; header and log blocks on disk | `begin_op`, `log_write`, `end_op`, `commit`, `recover_from_log` | every file system call; the buffer cache (`B_DIRTY` pins a buffer) |
| buffer cache, IDE driver | `bcache` list, `refcnt`, `flags`, sleep locks; `idequeue` | `bread`, `bwrite`, `brelse`, `iderw`, `ideintr` | the disk interrupt, `sleep`/`wakeup` on a buffer |
| pipes | ring of `PIPESIZE` bytes, two counters, two open flags; `ftable`, `ofile` | `sys_pipe`, `pipewrite`, `piperead`, `pipeclose`, `dup`, `close` | `sleep`/`wakeup`, `fork`, `exit`, `kill` |
| process memory (P2) | `sharep`, `limit`, `sz`, `admin`; permission bits of every shared page in every page table; the free frames | `fork`, `exit`, `exec`, `exec2`, `growproc`, `setmemorylimit`, `getadmin`, `getshmem` | each changes the page tables of all the others, and takes frames they may want |
| accounts (P3) | `usertable[10]` and its file `/userlist` | `useradd`, `userdel`, `init_usertable`, login | the log, the console |
| inodes, directories, modes (P3) | `icache`, `ref`, `nlink`, directory entries, `mode`, `username` | `iget`, `iput`, `ilock`, `namex`, `create`, `open`, `link`, `unlink`, `mkdir`, `chdir`, `chmod` | the log ("iput must be inside a transaction"), sleep locks |
| spin locks, processors | `locked` and `cpu` of each lock; `ncli`, `intena`, `proc` of each processor; the interrupt flag; the stacks | `acquire`, `release`, `pushcli`, `popcli`, `sched`, `swtch`, `sleep`, `wakeup` | everything: every critical section of the kernel |
| page allocator, console, virtual memory of P1 and P3, boot, user programs | | | |

Hard behaviours:

* **Interleaving.** Processors share `ptable` and, in P1, one `tmp` array in
  which a scheduler parks processes it took out of a queue. A system call is
  preempted anywhere outside a critical section.
* **Steps without a lock.** P1 boosts and resets `cproc` and `qlevel` without
  `ptable.lock`; P2 changes page tables of processes that are being made, and
  tests a memory limit before it grows; P3 changes `usertable` without any lock.
* **Two-step locking** of inodes and buffers: the reference first, the lock
  later, and everything may have changed in between.
* **Locks held across a switch.** `ptable.lock` is taken by one thread and
  released by another, and a thread may come back on another processor, whose
  interrupt state it must then set right.
* **Lost wakeups**: `wait` against `exit`, `begin_op` against `end_op`, `iderw`
  against `ideintr`, a pipe's reader against the last close.
* **Crashes** between any two writes to the disk.
* **Limits**: the log, the buffer cache, frames, the file table, the process table, `usertable`.
* **Starvation** in a scheduler with demotion and with a process it resumes.

What makes each component correct: a scheduler loses nobody and runs nobody
twice, keeps its promised order, and starves nobody; the log makes calls atomic
and durable; the buffer cache makes a block one register with one user; wakeups
reach whoever sleeps, no processor waits for a lock it holds, and interrupts are on
and off where a thread left them; a pipe delivers once and in order and reports its end;
page tables never name a freed page and frames are neither lost nor shared
(P2); a limit once tested holds (P2); links and references count what points at
an inode and no inode is freed under it (P3); the table of users in memory and
on disk agree (P3). `PROJECT.json` lists each hazard at its line.

## Modules

| module | what it is | models |
|--------|-----------|--------|
| `HeapOps` | the operators behind both heaps: `enq`, `deq`, `percdown`, `increase_priority`, `enpq`, `depq` on a sequence | `proc.c` of P1, lines 100-236 |
| `PriorityBag` | what a priority queue promises: nobody lost, the largest first | abstract |
| `HeapQueue` | one level used as the scheduler uses it; implements `PriorityBag` | `qinit`, `enq`, `deq`, `setpriority` |
| `Mlfq` | the whole MLFQ scheduler | `proc.c`, `trap.c`, `sysproc.c` of P1 |
| `MlfqQuantum` | `Mlfq` with a history variable that counts the ticks charged in a level | `trap.c:115-135` |
| `MlfqCompute` | the steps of `Mlfq` when everybody computes, for liveness | the same |
| `Multilevel` | the MULTILEVEL scheduler | `proc.c` of P1, lines 570-645 |
| `AtomicDisk` | what the log promises to calls that overlap | abstract |
| `Log` | the log with the part of the buffer cache it rests on; implements `AtomicDisk` | `log.c`, `bget` of `bio.c` |
| `BlockRegisters` | what the buffer cache promises: a block is a register with one user | abstract |
| `BlockIo` | buffer cache, sleep locks and disk driver; implements `BlockRegisters` | `bio.c`, `sleeplock.c`, `ide.c` |
| `Channel` | what a pipe promises | abstract |
| `Pipes` | pipes, the file table and descriptors; implements `Channel` | `pipe.c`, `file.c`, `sysfile.c`, `kill` |
| `SharedPages` | the shared page of every process and the permission bits of all of them in all page directories | `proc.c`, `vm.c`, `exec.c` of P2 |
| `Memory` | frames, sizes and limits | `kalloc.c`, `vm.c`, `proc.c`, `exec.c` of P2 |
| `Inodes` | inodes, directories, path names, modes and owners, and the inode cache | `fs.c`, `sysfile.c` of P3 |
| `Accounts` | what the accounts promise to who logs in | abstract |
| `Users` | `usertable`, `/userlist`, `useradd`, `userdel`, init and login; implements `Accounts` | `fs.c`, `init.c`, `login.c` of P3 |
| `Switch` | spin locks, the interrupt flag, switches, sleep and wakeup, the timer: what the other modules take for granted | `spinlock.c`, `proc.c`, `trap.c`, `sysproc.c` of P3 |
| `SideBySide` | `Memory` with instances of `Users` (`U`) and `Switch` (`K`), which share no variable and no lock with it or with each other | |
| `FairParts` | `Multilevel` with an instance of `Log` (`L`), which share no variable and no lock | |
| `MlfqProof`, `MultilevelProof`, `LogProof`, `BlockIoProof`, `PipesProof`, `SharedPagesProof`, `InodesProof`, `SideBySideProof` | theorems for all constants; those of `Memory`, `Users` and `Switch` are in `SideBySideProof` | |
| `MC...` | the instances TLC checks; `MCSideBySide` gives `SideBySide` its constants and adds a `HeapQueue`, `MCFairParts` does so for `FairParts` and adds `MlfqCompute` and fairness | |

Operators whose comment says *seeded fault* are variants of the definition that
follows them, with a bug that code could have; no specification uses them. They
show that the properties can fail.

### Mlfq: state and steps

Variables have the names of the code (`state`, `parent`, `chan`, `priority`,
`qlevel`, `qtime`, `cproc`, `tmp`, `ticks`, `boost`). `queue[l]` is the set of
processes in `mlfq[l]`; `HeapQueue` justifies the set: `deq` gives an entry of
largest priority, which of several is left open. `running[c]` is `c->proc`,
`embryo[p]` is the slot that `fork` of `p` has taken and not yet made runnable,
`yielding` are processes between the resets in `sys_yield` and its `yield()`,
and `inTimer` says that the boot processor is in `trap()` after it has counted
the tick.

A step is a critical section under `ptable.lock`. The lock is held from
`scheduler()` across `swtch` to the process chosen, and from `sched()` of a
process across `swtch` to its scheduler and through the flush of `tmp`. Hence
`Resume`/`Choose` (scan the levels, dequeue, park, switch) and every stop
(change state, put back, flush `tmp`; operator `PutBack`) are single steps. A
`fork` is three: `allocproc`, then failure or commit. A timer interrupt is two
on the boot processor: `Tick` (count, boost, wake sleepers), `Preempt` (charge
the process and take it off). `IoSleep` and `IoWakeup` stand for every other
`sleep` and `wakeup` in the kernel. A killed process leaves its sleep and
exits; since any process may exit at any call, the flag itself is left out.

### Multilevel

A process is its pid (pids are not reused). `rr` is a sequence, `fcfs` a set.
`RunRR` turns the line until a runnable process is first, `RunFcfs` needs
`NobodyInRR`, `RunNobody` is the round that finds nobody. `Stop` puts the
process back where its loop does. `Living` is what is left of the part of the line
`scheduler()` went through: the dead ones are not put back.

### Log

On disk: `home` (blocks), `slot` (log blocks), `head` (block numbers in the log
header). In memory: `cache`, `dirty` (buffers with `B_DIRTY`), `lh`,
`outstanding`, `committing`. `doing` and `tail` are the place in `commit()` or
in recovery. `begin_op`, `log_write` and the two halves of `end_op` are critical
sections; **each write of one block is one step and `Crash` is possible between
any two**, recovery included. A block is written entirely or not at all; the
order of writes is that of the calls, because `bwrite` waits for the disk.
`home` and `slot` of the disk survive `Crash`, everything else is reset.

The refinement to `AtomicDisk` maps `stable` to what recovery would make of the
disk as it is now, `current` to what a reader sees through the cache, and
`active` to the calls between `begin_op` and `end_op`. `AtomicDisk!Begin`
requires that a new group begins only when the last one is stable, so the
refinement states durability as well as atomicity.

### BlockIo

A step is a critical section under `bcache.lock`, under the spin lock of a
sleep lock, or under `idelock`; a `sleep` ends one. So `bread` is up to four
steps (`bget_cached` or `bget_recycle`, `acquiresleep`, `iderw`, `iderw_woken`),
`brelse` is two, and the interrupt `ideintr` comes between any of them: it takes
the answer of the drive, sets the flags, wakes and starts the next command.
`lru` is the list in its order, which decides what is recycled. `drive` holds
the command as it was given, with its data, as the hardware does; the drive does
not fail. Callers read a block, change it and pin it (`log_write`) or write it
(`bwrite`), and release it; who holds several took them in a fixed order (an
indirect block, the bitmap, a new block; a log block, its home), so that no two wait
for each other. The number of a block in the model is its place in that order, not on
the disk. `Load` bounds what they hold and what the log pins; it may exceed the cache,
and then `bget_recycle` finds nothing, where the code panics. `Log` and `BlockIo` overlap in `B_DIRTY`: the first
has crashes and one cached copy per block, the second shows that there is one.

### Pipes

`file` is `ftable`, `ofile` the descriptors, `pipe` the one page there is for a
pipe: a second `pipealloc` fails and must undo what it took. `sys_pipe` is two
steps plus the closes of what must be given back; `fileclose` and the
`pipeclose` it may call are two. `pipewrite` and `piperead` run from one
`acquire`, or return from `sleep`, to the next `sleep` or `release`; between the
test of `killed` and the sleep, a step of its own, `kill` may come, as it may on
another processor. `nread` and `nwrite` count modulo `UintSize`. `f0` and `f1` of `l[p]` are
the files a call has taken and not yet entered, or has to close. `exit` is a loop:
`exit_close` takes the first descriptor left, which is then closed as by `close`, and
`zombie` needs that there is none. What a process refers to are its `Hands`, the
descriptors and those two; `FilesCounted` says that `ref` is how many hands hold a
file. The refinement maps the bytes under way to the part of
the ring between the counters, and the ends to who has a descriptor of them.

### Inodes

What is done under the sleep lock of one inode is a step; a call that holds one
lock while it waits for another (`create`, `sys_unlink`, `dirlink`) is several,
and `lock` is then set between them. `namex` is one step per component, `iput`
two, since it gives up the lock of the inode before it decrements `ref`. A path
without names (`/`) is found at once, or has no parent (`Walk`). The
local pointers `ip`, `dp`, ... are in `l[p]`, and each one that is not 0 is a
reference. `Crash` happens when no call is in a transaction: a group of
transactions survives as a whole (`Log`), so a crash inside one leaves what one
at its end leaves. File contents and the entries `.` and `..` are left out;
`Links` counts a subdirectory's `..` all the same.

### SharedPages

A page directory (`pgdir[p]`) is two sets: the pages with the user bit and the
pages with the write bit; `None` is a directory freed by `wait` or not built
yet, whatever pointer the slot still holds. `sharep[p]` is the page or the null
pointer, and null is also the address of the first page of the program:
`updatesharep` on a slot without a page changes the bits of that page.
`PageZero` is both. A `fork` is four steps (`allocproc`, `copyuvm`,
`makesharep`, and the commit under `ptable.lock`), an `exec` two, because
`exec.c:99` puts the new directory in use before `update_exec_sp` locks the
table; the failures of `fork` are steps too, the one of `makesharep` leaving the
slot an embryo for ever as the code does. `scheduler` and `sched` may come
anywhere between them. `tlb[p]` are the entries the processor of `p` remembers,
emptied when it loads a directory. The pages not in use are free or serve the
kernel for something else, and `makesharep` may fail at any time.

An update through a directory that is not there writes to an arbitrary word of
memory. Two overlapping forks do that (`proc.c:248` visits the other one's
embryo before its directory is built). It makes `astray` true, and the model
describes nothing beyond: the properties speak of the behaviour up to there.

### Memory

Frames are counted. Every `kalloc` of a call that needs several (`copyuvm`,
`allocuvm`, the page table of `exec`) is a step, so that other calls empty the
allocator anywhere on the way; the failure steps give back what the code gives
back. Sizes are modulo `UintSize`, as `uint` is modulo 2^32, and `sbrk` down to
nothing returns 0, which `growproc` takes for a failure: `pc = "fault"`.
`growproc` tests the limit first and sets `sz` after its last frame; between
them `setmemorylimit` compares with the old `sz`. `raced` remembers whom that
happened to, and whom it forked. It shares no page with `SharedPages`: the one
is about which bits a page has, the other about how many frames there are.

### Users

`usertable` has no lock, so `useradd` is seven steps (test the name, look for an
entry, take it, fill it, write, home directory, end of the transaction) and `userdel`
four; two calls in the background may find the same entry free. `write` copies the whole table into
`/userlist` under the lock of that inode. `cached` is what the file system shows,
`disk` what a crash leaves: `cached` at the end of the last group of
transactions. `background` says whether root's shell waits for its commands.
`login` reads the file before it prompts and again after each session.

### Switch

The other modules take a critical section, and `sleep`, as one step; this one says
why they may. A step is what a processor does from one acquire, release or switch
to the next. `pc[t]` is where a process, or the scheduler of a processor, is:
`Wants` are the places that call `acquire`, `Drops` those that call `release`,
`Resumes` the calls of `sched()` and where they go on. Between the first half of
`acquire` (`pushcli`) and its `xchg` (`Enters`) a processor is `spinning`. Where
its flag is on, the timer may interrupt, in user mode, in a system call or in the
scheduler; the handler runs on the stack of who was interrupted (`trap[t]`), takes
`tickslock` and `ptable.lock` on the boot processor, and may switch away from
there. `saved` is the local `intena` of the calls of `sched()` that are under way.
`early` is whose time in `sys_sleep` is not up yet; a tick ends it for any of them. Which runnable process
`scheduler()` takes is left open, so what is shown holds for the scheduler of P1
too as far as it uses the same calls. `popcli` clears `intena` when `ncli` becomes 0,
where the code leaves a value that nobody reads. Other interrupts take a lock and
wake sleepers like the timer and yield to nobody; they are left out.

## Runs

| run | instance | what it shows |
|-----|----------|---------------|
| `mlfq_two_cpus` | 3 slots, 2 processors, 2 levels, boost every 2 ticks | the state invariants of the scheduler, with symmetry of the slots but init's |
| `mlfq_one_cpu` | 3 slots, 1 processor, quanta 1 and 2, priorities 0 and 1, boost every 4 ticks | orders of dispatch, reach of the boost, exact account of quanta |
| `fair_parts` | three parts (`MCFairParts`) that share no variable, each with its fairness: `Multilevel` with pids 1..6, 5 slots, 2 processors; `Log` with 3 processes, 2 blocks, calls of up to 2 blocks; `MlfqCompute` with 4 processes, 3 levels, 1 processor | nobody lost, FCFS only without runnable RR, a smaller pid passed over only while parked, round robin starves nobody; refinement of `AtomicDisk`, no lost wakeup; every computing process runs |
| `fcfs_two_cpus` | `Multilevel` with pids 1..5, 5 slots, 2 processors | **violation**: a larger pid of the FCFS level is dispatched before a smaller one that is runnable |
| `block_io` | 2 processes, 4 blocks, 3 buffers | refinement of `BlockRegisters`, somebody to wake every sleeper, short of buffers only when all are taken, every request answered |
| `pipes` | 2 processes, 2 files, 2 descriptors each, ring of 2 bytes, counters modulo 4 | refinement of `Channel`, reference counts of files, nobody waits at a pipe whose other end is gone |
| `inodes` | 2 processes (root and alice), 3 inodes, 2 names | links count what points at an inode, references too but for what `chmod` leaks, no inode is freed in use |
| `inodes_deadlock` | the same | **violation**: `create` and `unlink` wait for each other |
| `inodes_chmod_leak` | the same | **violation**: `ref` exceeds the number of pointers after `chmod` |
| `shared_pages` | 4 slots, 4 pages, 1 processor | pages given back are closed, all read all, owners write, others write only through their exec |
| `shared_pages_two_cpus` | 3 slots, 3 pages, 2 processors | **violation**: a page freed by `exit` stays usable on the other processor |
| `side_by_side` | four parts (`MCSideBySide`) that share no variable: a heap of 4 for 5 processes with 3 keys; `Memory` with 3 processes and 10 frames; `Users` with 2 calls, 2 ids, 2 entries; `Switch` with 2 processors, init and one process at a time and a kill anywhere, and with 3 processes on one processor | `PriorityBag`; no frame, page or limit lost; accounts added and deleted at once and for good; no panic in locks and switches, interrupts as they were, no wakeup lost |

**Bounds.** *MLFQ*: the invariants treat all levels alike but the first and the
last, so two levels show both. Three slots give init, a parent and a child, so
re-parenting, two processes in a queue and one in `tmp` all occur. Quanta are
scaled to one or two ticks; the code compares them only with zero and decrements
them. *Multilevel*: six pids give three on each side. *Log*: a group of calls
covers both blocks, and a call is made to wait both for a commit and for room.
*BlockIo*: one block more than buffers, so that recycling competes with holding;
`MCLoad` is one pinned buffer and three that the callers may hold, one more
than there are, so that the shortage of `ShortOnlyWhenAllTaken` occurs, and with it
every lower load; one of the blocks is written. *Pipes*: three bytes are written to a ring of two, so a writer
waits in the middle, and the counters run over at the second write; the second
`pipealloc` meets the used page and the full tables, so of its failures the run has those of `pipealloc`; that `fdalloc` fails
after a `pipealloc` that succeeded needs more files than descriptors and is left to
`FilesAreCounted`. *Inodes*: `/a`, `/b` and
`/a/b` as file or directory, linked, unlinked and walked through by the other
one; the third inode is the last, so that numbers are reused. *SharedPages*:
four slots let two forks overlap, each with its embryo, and four pages give
every slot one; one processor is enough for every order of the steps, since a
process can be preempted between any two. *Memory*: two processes and a bit
fit in ten frames, so that every `kalloc` fails in some behaviour; sizes of
two-byte pages, with a limit between two sizes that
`sbrk` can reach and an increment that overshoots it.
*Users*: two calls at once compete for the last entry.
*Switch*: two processors compete for both locks and hand processes to each other;
three processes are needed for a process that exits while it has a child. Both at
once are too many states, so `MCNext` allows, by conjuncts on the steps of one
instance, two processors with one process besides init (`Kill`) or one processor with
all three (`Orphan`, without kills): each is a part of the behaviours of `Switch`,
none is added. `Victim` bounds whom a kill may name.

**Fairness.** All of it is in `fair_parts`, `block_io` and `pipes`. `MlfqCompute`: the timer keeps interrupting, a handler runs to its
end, `scheduler()` loops (weak fairness). Processes only compute in that part,
because a process that yields gets a fresh quantum at level 0 each time and can
starve others. The boost period there, 7, is the shortest that works for four
processes with a quantum of 1: a boost must not come before the others have used
up level 0, that is `(n-1)*(Quantum[0]+1)+1` ticks. With the constants of the
code (quantum 4, boost every 100 ticks) that holds for 20 processes; the table
has 64 slots. `Multilevel`: the scheduler loops, and the timer takes every
process off, since `trap()` calls `yield()` on every tick. `Log`: the disk
answers, and a call that was begun ends. `block_io`: the drive answers every
command (`ide.c` waits for it), and a process in `iderw` is scheduled; what
callers do with buffers is not fair. `pipes`: a process in the kernel is
scheduled; nothing is assumed of programs, so `EndReached` speaks of ends that are
gone and not of bytes that may never be written.

**Deadlock** is not checked in `pipes` (all processes may wait for bytes nobody
writes), `inodes` and `inodes_chmod_leak` (they have the deadlock of `inodes_deadlock`) and `shared_pages`
(a behaviour that is `astray` ends); it is checked everywhere else.

## Findings

1. **`create` against `unlink` can deadlock** (`sysfile.c:311` of P3, and the same
   lines of P1 and P2; run `inodes_deadlock`). `create` puts the directory while
   it holds the new inode; `iput` (`fs.c:360`) takes the directory's lock again
   for a moment. An `unlink` of the new name that got the directory in between
   holds it and waits for the new inode. `fs.c:159-163` says that the separation
   of `iget` and `ilock` helps avoid deadlock.
2. **A page freed by `exit` stays usable on another processor** (`proc.c:292` of
   P2: "this page cannot access in user"; run `shared_pages_two_cpus`). `exit`
   changes page directories that other processors use and frees the page,
   without making them forget the entry; with one processor the comment is right
   (`NoAccessAfterExit` holds in `shared_pages`).
3. **`chmod` leaks a reference** (`fs.c:967` of P3; run `inodes_chmod_leak`). It gets
   the inode from `namei` and unlocks it without putting it. `fs.c:135-138` says that
   `ref` tracks the number of in-memory pointers to the entry. `OnlyChmodLeaks` says
   that nothing else breaks this.
4. **FCFS does not always take the smallest pid** (`proc.c:621` of P1; run
   `fcfs_two_cpus`). README.md:10 says that smaller pids are scheduled first. A process
   that one processor has parked in `tmp` and that wakes there is out of the other
   processor's sight, which dispatches a larger pid. `PassedOverOnlyWhileParked` says
   how far that goes; on one processor README.md:10 is right (theorem `SmallerPidFirst`).

Where text and code differ and no run is spent on it: `trap.c:122` tests `qtime`
before it decrements, so a process gets 2i+5 ticks at level i where README.md:20
and :23 say 2i+4 (`DemotedAfterWholeQuantum` states what the code does).
README.md:22 says the larger priority goes first, but a resumed process goes
before larger priorities (`LargestPriorityFirstUnlessResumed`). `update_exec_sp` (`proc.c:692` of P2) opens every other
process's shared page for writing, README.md:49 says a process may only read those
(`WriteOnlyThroughExec`). `mkfs.c:25` makes the log `LOGSIZE` blocks with the
header in it, `begin_op` reserves `LOGSIZE` data blocks (`log.c:132`), one too
many; `Log` therefore has `Nlog` and `LogSize` as two constants, and the run takes
one that is large enough for both.

Seen while modelling, with no text of the repository to hold the code to:

* `iput` looks at `ref` and decrements it in two critical sections (`fs.c:357-375`):
  two last references can both see 2, and the inode is freed by nobody.
* A file created in a directory that was removed meanwhile is lost with its name
  (`buried` in `Inodes`); `link("x", "/.")` waits for its own lock; an unlinked
  file that is open at a crash stays allocated; `ialloc` panics when no inode is left.
* A kill between the test of `killed` and the sleep is missed; a writer that is
  killed wakes nobody for the bytes it has already put in the ring.
* Calls of `useradd` in the background can take one entry twice or add one name
  twice (no property says otherwise), and a reload by
  `init` can drop an entry that is not written yet.
* `growproc` tests the limit before it grows, so an `sbrk` under way passes one that
  is set meanwhile (`LimitHolds` exempts it).
* `sbrk` down to nothing frees all pages and fails. `Memory` lets that process only
  exit, since its next instruction faults; a program that runs from its shared page
  could fork, and `copyuvm` would panic, which no property here catches.
* A fork that finds no frame
  for the shared page keeps its slot for ever (`proc.c:214` of P2), and its null
  `sharep` costs every later child the write permission of its first page.
  `FramesConserved` counts the frames of that slot as held.
* `NBUF` and `LOGSIZE` are both 30 here: a full transaction pins every buffer, and
  31 processes that read different blocks hold more than there are. The panic of
  `bio.c:92` can be reached; `ShortOnlyWhenAllTaken` says that it takes that much.
* `kill(0)` names a free slot, whose `pid` is 0: the next process there is born
  killed. A kill of init panics the kernel (`proc.c:236` of P3 "init exiting"); the
  instances of `Switch` do not kill it.
* `setpriority` follows `p->parent->pid` of processes without a parent
  (`proc.c:787` of P1); `getshmem` returns the pointer after it released the lock.

## Proofs

`MlfqProof` proves, for every set of slots, processors, number of levels,
quanta, priorities and boost period allowed by `ConstantsAssumption`:

* `TypeCorrect`: `Spec => []TypeOK`.
* `NobodyIsLost`, `QueuesKeepLevel`, `ResumeTerminates`, `ParkedComeBack`:
  `NoLostProcess`, `LevelAgrees`, `ResumeFinds` and `ParkedOnlyWhileRunning`
  always hold; `SlotsHaveOneOwner`: so does `EmbryoHasOneOwner`.
* `WaitersAreWoken`: so does `NoDeadChildUnnoticed`.
* `LevelsInOrder`, `PrioritiesInOrder`, `BoostRaises`: with one processor, every
  step is one that `LowestLevelFirst`, `LargestPriorityFirstUnlessResumed` and
  `BoostRaisesAll` allow.
* `QuantumIsUsedUp`: of `MlfqQuantum`, `DemotedAfterWholeQuantum`.

The first six follow from the inductive invariant `TypeOK /\ Placement`. `NoLostProcess`
alone is not inductive: that the search for the previous process finds it needs
that nobody parked is the `cproc` of its own level, which needs that a process is
queued at its `qlevel`, which a stop preserves only if what it puts back was
nowhere else; a fork must give its slot to nobody else (`EmbryoHasOneOwner`), and
a stop must find the parked ones' places empty. `Placement` is the conjunction of
these. Each action has a lemma that it preserves the invariant;
`PlacementInvariant` combines them. The assumptions: `InitProc` is a slot, there
is a boot processor, at least one level, positive quanta and boost period,
priority 0 exists and priorities are integers, `None` is not a slot. The proofs are
about the model, so about critical sections as atomic steps.

`NoDeadChildUnnoticed` becomes inductive with `Family`: init lives, has no parent,
and nobody is his own, so that `exit` wakes somebody else than the one who exits,
and who inherits its children is there to be woken. The orders of dispatch rest on
`Placement`: when nobody is parked, who can run is in the queue of its level, so the
first level with work and the largest priority in it are what the scheduler sees.
`Cpu = {BootCpu}` is a hypothesis there because the code promises no more: what
one processor has parked in `tmp` the other cannot choose, and `priority_boost` of
the boot processor does not reach the process that runs on another. For the quanta,
`AccountsSettled` says that the ticks charged in a level and the ones left are the
quantum of that level, for every slot that was ever used; it needs no hypothesis on
processors.

`MultilevelProof` proves `NobodyIsLost`, `RoundRobinGoesFirst` and
`PassedOverWhileParked`, that is `NoLostProcess`, `FcfsOnlyWithoutRR` and
`PassedOverOnlyWhileParked`, for any number of processors, pids and slots. The inductive
invariant is `TypeOK /\ Placed`: with `NoLostProcess`, that a queue holds one parity
only (`QueuesByParity`: a flush of `tmp` must not bring an even pid into the heap),
that nobody runs twice (`RunsOnce`), that a fork owns its embryo and pids to come are
unused (`EmbryosOwned`), and that the slots in use are at most `Nproc`
(`SlotsCounted`), from which the line never outgrows its array. That a turn of the
line loses nobody who lives rests on lemmas about `Living`, which is written with a
choice of the k-th position instead of a recursive filter: its length and its
members then follow from cardinalities. `PassedOverOnlyWhileParked` adds
`ParkedAreSmaller`, who is in `tmp` has a smaller pid than some FCFS process that
runs: a scheduler parks only those before the one it takes, and each of these empties
`tmp` when it stops. With one processor nobody runs while it chooses, so
`SmallerPidFirst` proves `SmallestPidFirst` there, under the hypothesis that there is
one processor; with two it is finding 4.

`LogProof` proves `LogIsAtomic`, `L!Spec => ImplementsAtomicDisk` of the instance of
`Log` in `FairParts`, for any number of
processes and blocks, any contents and any size of the log. Every step of `Log`
maps to a step of `AtomicDisk` or changes nothing of it: the write of the header
is the commit, the crash is the crash, and the loops that copy blocks, recovery
included, are stutters. That rests on the inductive invariant `Inv`
(`LogConsistent`), in six parts: `Types`; `Counted`, `outstanding` is the number of
processes in a call; `Control`, nobody is in a call while the log is committed or
recovered; `Logs`, no block is logged twice and the header agrees with `lh` in the
phases where it must; `Pinned`, a buffer that is not dirty is what is at home, and
the dirty ones are exactly those logged and not yet installed; `Copied`, what the
loops have written so far. Atomicity alone is not inductive: that a crash after the
header leaves the whole group needs `Copied` for all of `lh`, which `log_write`
keeps only because nobody can be in a call then (`Control`), which `begin_op` keeps
only because the count is right (`Counted`).

`BlockIoProof` proves `CacheIsRegisters`, `Spec => ImplementsRegisters`, and
`SleepersWillBeWoken`, `Spec => []SleepersHaveWaker`, for any number of processes,
blocks and buffers and whatever the callers ask for. Taking a sleep lock with a
valid buffer, or coming back from `iderw` with one, is a `Take`, `brelse` a `Give`,
`log_write` and `bwrite` a `Change`; all else changes nothing of the registers. Both
follow from `CacheConsistent`, the inductive `Inv`: `Counted`, `refcnt` is the number
of processes that hold the buffer, want it or are about to drop it; `Named`, a block
is in one buffer; `Locked`, the sleep lock belongs to who holds the buffer or does
its input and output; `Fresh`, a buffer that is valid and clean is what is on the
disk; `Queued`, the queue holds the buffers somebody sleeps for, each once, and the
drive works on its head. That a recycled buffer takes nothing with it rests on
`Fresh`; that it is nobody's rests on `Counted`; that `bget` finds the one buffer of
a block rests on `Named`; and that an interrupt touches no buffer a caller uses
rests on `Queued` and `Locked`.

`BgetPanicsOnlyWhenAllTaken`, `Spec => []ShortOnlyWhenAllTaken`, has no hypothesis on
what the callers hold or the log pins: if `bget` finds nothing, each buffer is dirty,
held, or on its way to or from a process. It adds `InLine` to `Inv`: each buffer is in
the list, wherever `brelse` moves it. A buffer that is not taken has `refcnt` 0
(`Counted`) and no `B_DIRTY`, and that one of those is the least recently used is
`LastOne`: a set of positions in a list that is not empty has a last one.

Of `Memory`, `SideBySideProof` proves `SizesAreMapped`, `LimitsHold` and `FramesAreConserved`
(`SizeIsMapped`, `LimitHolds`, `FramesConserved`) and, on the way, `FreeSlotsAreEmpty`
and `ForksOwnTheirChildren`, for any page size, number of frames, and sizes modulo
any `UintSize`, from `ConstantsAssumption`. `LimitsHold` needs, of a process in the
middle of `sbrk`, that what it grows to is within the limit or that the limit was set
since (`GrowsWithinLimit`); `SizesAreMapped` needs that a free slot has no pages and
that a fork's child is nobody else's. `FramesConserved` counts the frames of all
slots as a set of pairs, slot and number, because a sum over a set is defined by
recursion; `Holdings` says at which place of which call a slot has a stack, a
directory and pages being built, so that every failure gives back what was taken:
each step changes what one slot holds and `free` by the same number (`Counted`).

`InodesProof` proves `ReferencesCounted`, `NoUsedInodeFreed` and `LinksAreCounted`
(`OnlyChmodLeaks`, `UsedInodesAllocated`, `LinksCounted`) for any number of processes,
inodes, names, users, modes and leaked references. The inductive invariant
`FileSystem` adds to the three what the calls rely on from one step to the next:
`LocalsShaped`, which pointers a call has where it is (the reference count counts
them); `LocksHeld`, which lock it has kept; `Found`, what it found under that lock
and still relies on (the entry of the victim of `unlink`; that nobody else has met the
inode `create` makes, for it is linked before it has a name); `LinksOwed`, the
difference between links and names is what calls under way have counted and not yet
entered, or cleared and not yet discounted; `EntriesInPlace`, only directories have
entries, and a removed one has none unless somebody entered one meanwhile (`buried`).
`UsedInodesAllocated` is not inductive because `iput` tests the link count of the
inode: that nothing names an inode with none needs `LinksOwed`, which needs `Found`
to know that `unlink` clears the entry it found, which needs `LocksHeld`.

Of `Switch`, `SideBySideProof` proves `KernelDoesNotPanic`, `InterruptsRestored` and
`NoWakeupLost` (`NoPanic`, `InterruptsAsBefore`, `NoLostWakeup`), for any number of
processors and processes, with interrupts wherever they are on. The inductive `SwitchInv`
reads everything off the place of a thread: `Threads`, a process is on one
processor at most, and one that is on none is inside `sched()` or has never run;
`Locked`, a lock is held by exactly the processor whose place is one of the lock's
places; `Flags`, `ncli` counts those locks and the one waited for, and `intena`, or
what `sched()` saved of it, says what the flag was before the first; `States`, the
state of a process is that of its place, and who can run has a stack; `Embryos`,
the slot a fork took is that fork's alone; `Family`, init lives and nobody is his own
parent; `Sleepers`, who is between the test and the sleep holds `tickslock`, and
nobody sleeps for what has happened. That an exiting process is reaped only after its
processor has left it rests on `Locked` (the zombie still holds `ptable.lock` until
the switch) with `States`; that the flag survives a move to another processor
rests on `saved`, which must agree with the handler the process was interrupted in.

Of `Users`, `SideBySideProof` proves `TableIsStored` (`StoredWhenQuiet`) and
`AccountsKept`, `U!Spec => ImplementsAccounts`, for any number of calls, users and
entries, from `U!ConstantsAssumption` (root is no other user's name, and `None` is none).
`StoredWhenQuiet` becomes inductive by saying who will write: `Stored`, the file is
the table, or init has not loaded it, or somebody is between a change of the table and
the write of all of it. The refinement speaks of shells that wait for their commands,
and rests on `Foreground`: one call at most, root's, and nothing else than that call has
made the cache, the table and the disk differ; `Progress` says for each place of the
call how they differ, which is what a crash there throws away. The commit of the last
step is then `Add` or `Delete`, every other step of a call a stutter, and a crash a
`LogOut`. That an `Add` has room and that a name is in the table once is counted by
mapping the accounts into the entries other than the free one.

`PipesProof` proves `FilesAreCounted` (`FilesCounted`) and `PipesAreChannels`, `Spec =>
ImplementsChannel`, for any number of processes, files and descriptors, any ring and
any width of the counters that is a larger multiple of the ring's, and any strings of
bytes. The inductive `Inv` adds to `FilesCounted`: `Handy`, what a call has taken where
it is, and that a free slot holds nothing; `Bounded`, the writers are at most
`PIPESIZE` ahead of the readers, although both counters run over; `Ends`, an end has one
file or one process that closes it, never two or both; `Callers`, a process in a read or a write holds the end it uses.
`FilesCounted` is about cardinalities of sets of hands: a step that moves a file from
one hand to another maps one set into the other, `fork` adds as many hands as the
parent's descriptors of that file. That the page is given back when nobody can read or
write it rests on `Ends`; that an end is closed before its file is counted down to
nobody rests on `FilesCounted`. For the refinement, `BytesIn` and `BytesOut` say what a
write appends to the bytes between the counters and a read takes from their front: two
positions less than `PIPESIZE` apart are different slots, also across the point where
the counters run over, which is where `UintSize % PIPESIZE = 0` is needed. A read that
returns nothing means that nobody holds the writing end by `Ends`; one that sleeps
and one that is woken are stutters. Fairness is not used.

`SharedPagesProof` proves, for every table, number of pages and processors:
`TypeCorrect`, `OneOwner`, `GivenBackIsClosed`,
`GivenBackIsWritable`, `SharedWithAll`, `OwnPageWritable` and, of every step,
`OnlyExecOpens` (`WriteOnlyThroughExec`). `TypeOK /\ Ownership` is
inductive and comes first: who holds an embryo, that no two slots have one page,
that a dead or free slot has none. On it rests `Permissions`, the four
invariants about bits together: that `exit` closes a page everywhere needs that
every slot with a directory is among those it visits; that an owner keeps its
bits while others come and go needs that pages are distinct; that a process
reads a new one's page needs that the new one's own bits are right. `OnlyExecOpens`
rests on `Ownership` alone. `OneProcessorForgets` (`NoAccessAfterExit`) has the
hypothesis `Ncpu = 1`; with two processors it is finding 2. It is inductive once it
is known that one process runs at most and that who does not run has nothing
remembered (`Remembered`). The
assumptions: init is a slot, `PageZero` is not a page of `kalloc`, `None` is
neither slot nor directory.

**Only model-checked:** liveness (`EveryRunnableRuns`, `RoundRobinRuns`,
`SleepersAreWoken`, `RequestsAnswered`, `EndReached`: it needs `ENABLED`, which the
prover does not handle); the heap and its refinement (its operators are recursive
functions, and induction over their arguments is out of the prover's reach).
Every other property of a passing run is stated by a theorem.

## What is not modelled

* **The race of the unlocked boost.** On two processors `priority_boost` and the
  resets in `sys_yield`/`sys_sleep` can run while the other processor is inside
  `deq` or `enq`. `Mlfq` takes them as steps between critical sections, which is
  what one processor does (interrupts are off inside a critical section).
* Ties in the heap: which of equal priorities leaves first. The heap is not
  FIFO among equals.
* `getlev`, `procdump`, `growproc` of P1, `list` and `getshmem` of P2: they
  change nothing that is modelled.
* A drive that fails (`ideintr` takes it for an answer), and the probe of the second disk.
* File contents: `readi`, `writei`, `bmap`, `balloc`, `bfree`, the block half of
  `itrunc`; `mknod`, `fstat`; `.` and `..`. What they add to the modelled part is
  which blocks belong to which file, a model of its own.
* The failure of a device behind a file, and files other than pipes in `Pipes`.
* Frames one by one: `kmem.freelist` is a count, so that two owners of one frame
  would show only as a wrong total.
* Bits of hardware: memory order, the interrupt controller, devices, the start of
  the other processors, interrupts other than the timer's in `Switch`. Page table
  walks through `updatesharep` are one step per lock held, not per entry.
* Console, boot, traps, `pmanager`, user programs, virtual memory of P1 and P3:
  in `PROJECT.json` with a reason each. The three copies of the files
  that the kernels share are modelled once, so most of the repository's lines are
  second and third copies of modelled code or user programs.

## Plan

Done: all modules above. What would come next, in this order:

1. `MlfqRace`: the arrays behind the heap, `deq` and `enq` in their steps, the boost
   of another processor in between.
2. `Blocks`: `balloc`, `bfree`, `bmap` and `itrunc` over `Inodes` and `AtomicDisk`: a
   block belongs to one file, whatever overlaps and wherever the machine stops.
3. `CircularQueue`: the array behind `rr`, implementing the sequence of `Multilevel`.
