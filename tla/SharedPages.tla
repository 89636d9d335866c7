----------------------------- MODULE SharedPages -----------------------------
(* The shared page every process of project 2 owns, and who may read or write *)
(* it: Process_Management's proc.c (fork, exit, wait), exec.c and vm.c.       *)
(*                                                                            *)
(* A shared page is a kernel page, so every page directory maps it; what      *)
(* changes are the user and write bits of its entry.  A page directory is the *)
(* pages with the user bit and the pages with the write bit.  sharep is the   *)
(* null pointer in a slot that has no page, and the null pointer is also an   *)
(* address: the first page of the process.  PageZero is both.                 *)
(*                                                                            *)
(* Granularity: fork and exec are cut where they hold no lock; a loop over    *)
(* the process table is under ptable.lock.  RUNNABLE stands for SLEEPING too, *)
(* which no test of this code tells apart.  A processor may remember an entry *)
(* the running process used until it loads a page directory: tlb.             *)
(*                                                                            *)
(* An update of a page directory that is not there (freed, or not built yet)  *)
(* writes to a word of memory nobody chose.  What follows such a write is     *)
(* undefined: astray is TRUE from then on and no step is described.           *)
EXTENDS Integers, FiniteSets

CONSTANTS Proc,      \* slots of ptable
          initproc,
          Page,      \* pages kalloc may give to makesharep
          PageZero,  \* the page at virtual address 0
          Ncpu,
          None

ASSUME ConstantsAssumption ==
    /\ IsFiniteSet(Proc)
    /\ initproc \in Proc
    /\ PageZero \notin Page
    /\ None \notin Proc
    /\ None \notin [user : SUBSET (Page \union {PageZero}), write : SUBSET (Page \union {PageZero})]
    /\ Ncpu \in Nat \ {0}

VARIABLES
    state, parent,  \* struct proc
    pgdir,          \* struct proc: the page directory, None when freed or not built
    sharep,         \* struct proc
    child,          \* fork: the slot taken
    call,           \* where the process is: "user" or in a system call
    tlb,            \* pages whose user bit the processor of the process remembers
    astray          \* a page directory that is not there was written to

vars == <<state, parent, pgdir, sharep, child, call, tlb, astray>>

Mapped == Page \union {PageZero}
PageDirectory == [user : SUBSET Mapped, write : SUBSET Mapped]

\* setupkvm, and the user memory copied or loaded behind it.
NewDirectory(write0) == [user |-> {PageZero}, write |-> Page \union write0]

-----------------------------------------------------------------------------
(* updatesharep(pgdir, sharep, my), for several pages at once *)

\* Seeded fault: the write bit is left alone.
ReadOnly_KeepsWrite(d, pages) == [user |-> d.user \union pages, write |-> d.write]

\* my = 0: others' pages.
ReadOnly(d, pages) == [user |-> d.user \union pages, write |-> d.write \ pages]

\* my = 1: the process's own page, and any page in exec.
ReadWrite(d, pages) == [user |-> d.user \union pages, write |-> d.write \union pages]

\* my = -1: a page that goes back to the kernel.
KernelOnly(d, pages) == [user |-> d.user \ pages, write |-> d.write \union pages]

\* The slots the loops over ptable visit.
InUse(q) == state[q] \notin {"UNUSED", "ZOMBIE"}
Others(p) == {q \in Proc \ {p} : InUse(q)}

PagesOf(Q) == {sharep[q] : q \in Q}

-----------------------------------------------------------------------------
Init ==
    \E g \in Page :
        /\ state = [p \in Proc |-> IF p = initproc THEN "RUNNABLE" ELSE "UNUSED"]
        /\ parent = [p \in Proc |-> None]
        /\ pgdir = [p \in Proc |-> IF p = initproc
                                   THEN ReadWrite(NewDirectory({PageZero}), {g})
                                   ELSE None]
        /\ sharep = [p \in Proc |-> IF p = initproc THEN g ELSE PageZero]
        /\ child = [p \in Proc |-> None]
        /\ call = [p \in Proc |-> "user"]
        /\ tlb = [p \in Proc |-> {}]
        /\ astray = FALSE

Running(p, where) == state[p] = "RUNNING" /\ call[p] = where

-----------------------------------------------------------------------------
(* The processors *)

\* switchuvm loads cr3, which empties the processor's memory of entries.
scheduler(p) ==
    /\ state[p] = "RUNNABLE"
    /\ Cardinality({q \in Proc : state[q] = "RUNNING"}) < Ncpu
    /\ state' = [state EXCEPT ![p] = "RUNNING"]
    /\ UNCHANGED <<parent, pgdir, sharep, child, call, tlb, astray>>

\* Seeded fault: cr3 is not loaded when the processor changes process.
sched_KeepsTlb(p) ==
    /\ state[p] = "RUNNING"
    /\ state' = [state EXCEPT ![p] = "RUNNABLE"]
    /\ UNCHANGED <<parent, pgdir, sharep, child, call, tlb, astray>>

\* yield and sleep, at any point of a call: the processor leaves the process.
sched(p) ==
    /\ state[p] = "RUNNING"
    /\ state' = [state EXCEPT ![p] = "RUNNABLE"]
    /\ tlb' = [tlb EXCEPT ![p] = {}]
    /\ UNCHANGED <<parent, pgdir, sharep, child, call, astray>>

\* The program uses a shared page it may read.
Touch(p, g) ==
    /\ Running(p, "user")
    /\ g \in pgdir[p].user \ tlb[p]
    /\ tlb' = [tlb EXCEPT ![p] = @ \union {g}]
    /\ UNCHANGED <<state, parent, pgdir, sharep, child, call, astray>>

-----------------------------------------------------------------------------
(* fork *)

allocproc(p, np) ==
    /\ Running(p, "user")
    /\ state[np] = "UNUSED"
    /\ state' = [state EXCEPT ![np] = "EMBRYO"]
    /\ sharep' = [sharep EXCEPT ![np] = PageZero]
    /\ child' = [child EXCEPT ![p] = np]
    /\ call' = [call EXCEPT ![p] = "copyuvm"]
    /\ UNCHANGED <<parent, pgdir, tlb, astray>>

\* No kernel stack, or no memory for the copy: the slot is given back.
ForkFails(p) ==
    /\ Running(p, "copyuvm")
    /\ state' = [state EXCEPT ![child[p]] = "UNUSED"]
    /\ child' = [child EXCEPT ![p] = None]
    /\ call' = [call EXCEPT ![p] = "user"]
    /\ UNCHANGED <<parent, pgdir, sharep, tlb, astray>>

\* The copy of page 0 gets the bits the parent's page 0 has.
copyuvm(p) ==
    /\ Running(p, "copyuvm")
    /\ pgdir' = [pgdir EXCEPT ![child[p]] = NewDirectory(pgdir[p].write \intersect {PageZero})]
    /\ call' = [call EXCEPT ![p] = "makesharep"]
    /\ UNCHANGED <<state, parent, sharep, child, tlb, astray>>

makesharep(p, g) ==
    /\ Running(p, "makesharep")
    /\ g \notin PagesOf(Proc)
    /\ sharep' = [sharep EXCEPT ![child[p]] = g]
    /\ pgdir' = [pgdir EXCEPT ![child[p]] = ReadWrite(@, {g})]
    /\ call' = [call EXCEPT ![p] = "fork"]
    /\ UNCHANGED <<state, parent, child, tlb, astray>>

\* No memory for the page: fork returns and the slot stays an EMBRYO.
MakesharepFails(p) ==
    /\ Running(p, "makesharep")
    /\ child' = [child EXCEPT ![p] = None]
    /\ call' = [call EXCEPT ![p] = "user"]
    /\ UNCHANGED <<state, parent, pgdir, sharep, tlb, astray>>

\* Seeded fault: the new page is not shown to the others.
ForkUpdates_ChildOnly(np) ==
    [pgdir EXCEPT ![np] = ReadOnly(@, PagesOf(Others(np)))]

\* Under ptable.lock: the new page is shown to all others and theirs to the child.
ForkUpdates(np) ==
    [q \in Proc |-> CASE q = np -> ReadOnly(pgdir[np], PagesOf(Others(np)))
                      [] q \in Others(np) -> ReadOnly(pgdir[q], {sharep[np]})
                      [] OTHER -> pgdir[q]]

Astray(p) == \E q \in Others(p) : pgdir[q] = None

fork(p) ==
    LET np == child[p] IN
    /\ Running(p, "fork")
    /\ parent' = [parent EXCEPT ![np] = p]
    /\ state' = [state EXCEPT ![np] = "RUNNABLE"]
    /\ astray' = Astray(np)
    /\ IF Astray(np) THEN UNCHANGED pgdir ELSE pgdir' = ForkUpdates(np)
    /\ child' = [child EXCEPT ![p] = None]
    /\ call' = [call EXCEPT ![p] = "user"]
    /\ UNCHANGED <<sharep, tlb>>

-----------------------------------------------------------------------------
(* exit and wait *)

\* Seeded fault: exit passes over the slots of forks under way.
ExitUpdates_NotEmbryos(p) ==
    [q \in Proc |-> IF q \in Others(p) /\ state[q] # "EMBRYO"
                    THEN KernelOnly(pgdir[q], {sharep[p]})
                    ELSE IF q = p THEN [pgdir[p] EXCEPT !.user = @ \ {sharep[p]}]
                    ELSE pgdir[q]]

ExitUpdates(p) ==
    [q \in Proc |-> IF q \in Others(p) THEN KernelOnly(pgdir[q], {sharep[p]})
                    ELSE IF q = p THEN [pgdir[p] EXCEPT !.user = @ \ {sharep[p]}]
                    ELSE pgdir[q]]

exit(p) ==
    /\ Running(p, "user")
    /\ p # initproc
    /\ astray' = Astray(p)
    /\ IF Astray(p) THEN UNCHANGED pgdir ELSE pgdir' = ExitUpdates(p)
    /\ sharep' = [sharep EXCEPT ![p] = PageZero]
    /\ parent' = [q \in Proc |-> IF parent[q] = p THEN initproc ELSE parent[q]]
    /\ state' = [state EXCEPT ![p] = "ZOMBIE"]
    /\ tlb' = [tlb EXCEPT ![p] = {}]
    /\ UNCHANGED <<child, call>>

\* freevm: the slot keeps a pointer to a directory that is no more.
wait(p, q) ==
    /\ Running(p, "user")
    /\ parent[q] = p
    /\ state[q] = "ZOMBIE"
    /\ pgdir' = [pgdir EXCEPT ![q] = None]
    /\ parent' = [parent EXCEPT ![q] = None]
    /\ state' = [state EXCEPT ![q] = "UNUSED"]
    /\ UNCHANGED <<sharep, child, call, tlb, astray>>

-----------------------------------------------------------------------------
(* exec and exec2 *)

\* Seeded fault: the loop over the others is taken to cover the own page.
exec_OthersOnly(p) ==
    /\ Running(p, "user")
    /\ pgdir' = [pgdir EXCEPT ![p] = NewDirectory({PageZero})]
    /\ call' = [call EXCEPT ![p] = "exec"]
    /\ UNCHANGED <<state, parent, sharep, child, tlb, astray>>

\* The new directory is in use before the lock is taken; the own page comes first.
exec(p) ==
    /\ Running(p, "user")
    /\ pgdir' = [pgdir EXCEPT ![p] = ReadWrite(NewDirectory({PageZero}), {sharep[p]})]
    /\ call' = [call EXCEPT ![p] = "exec"]
    /\ UNCHANGED <<state, parent, sharep, child, tlb, astray>>

\* Under ptable.lock, then switchuvm.
update_exec_sp(p) ==
    /\ Running(p, "exec")
    /\ pgdir' = [pgdir EXCEPT ![p] = ReadWrite(@, PagesOf(Others(p)))]
    /\ call' = [call EXCEPT ![p] = "user"]
    /\ tlb' = [tlb EXCEPT ![p] = {}]
    /\ UNCHANGED <<state, parent, sharep, child, astray>>

-----------------------------------------------------------------------------
Step(p) ==
    \/ scheduler(p) \/ sched(p)
    \/ \E g \in Page : Touch(p, g) \/ makesharep(p, g)
    \/ \E q \in Proc : allocproc(p, q) \/ wait(p, q)
    \/ ForkFails(p) \/ copyuvm(p) \/ MakesharepFails(p) \/ fork(p)
    \/ exit(p) \/ exec(p) \/ update_exec_sp(p)

Next == ~astray /\ \E p \in Proc : Step(p)

Spec == Init /\ [][Next]_vars

-----------------------------------------------------------------------------
(* Properties *)

Live(p) == state[p] \in {"RUNNABLE", "RUNNING"}
InUsePages == PagesOf(Proc) \ {PageZero}
MayWrite(p) == pgdir[p].user \intersect pgdir[p].write

(* Every variable has values of its kind; who is in fork has a slot.            *)
TypeOK ==
    /\ state \in [Proc -> {"UNUSED", "EMBRYO", "RUNNABLE", "RUNNING", "ZOMBIE"}]
    /\ parent \in [Proc -> Proc \union {None}]
    /\ pgdir \in [Proc -> PageDirectory \union {None}]
    /\ sharep \in [Proc -> Mapped]
    /\ child \in [Proc -> Proc \union {None}]
    /\ call \in [Proc -> {"user", "copyuvm", "makesharep", "fork", "exec"}]
    /\ tlb \in [Proc -> SUBSET Page]
    /\ astray \in BOOLEAN
    /\ \A p \in Proc : child[p] # None <=> call[p] \in {"copyuvm", "makesharep", "fork"}

(* A slot that fork took belongs to one fork, which has built as much of it as  *)
(* it says; a shared page belongs to one slot, with a directory; what runs has  *)
(* both, and a slot that is free or dead has no page left.                      *)
Ownership ==
    /\ \A p \in Proc : child[p] # None =>
           /\ Live(p) /\ state[child[p]] = "EMBRYO"
           /\ call[p] = "copyuvm" <=> pgdir[child[p]] = None
           /\ call[p] = "fork" <=> sharep[child[p]] # PageZero
    /\ \A p, q \in Proc : child[p] # None /\ child[p] = child[q] => p = q
    /\ \A p, q \in Proc : sharep[p] # PageZero /\ sharep[p] = sharep[q] => p = q
    /\ \A p \in Proc : sharep[p] # PageZero => InUse(p) /\ pgdir[p] # None
    /\ \A p \in Proc : Live(p) => sharep[p] # PageZero
    /\ \A p \in Proc : ~Live(p) => call[p] = "user"
    /\ \A p \in Proc : state[p] = "UNUSED" => pgdir[p] = None

HasDirectory(p) == InUse(p) /\ pgdir[p] # None

(* A page that nobody owns is closed to every program: exit closes it in all    *)
(* directories, whatever forks and execs are under way (proc.c:289-298).        *)
FreePagesClosed ==
    ~astray => \A p \in Proc : HasDirectory(p) =>
                   pgdir[p].user \subseteq InUsePages \union {PageZero}

(* The kernel may write every page that nobody owns, through any directory in   *)
(* use: the write bit fork takes away comes back at exit (vm.c:438).            *)
FreePagesWritable ==
    ~astray => \A p \in Proc : HasDirectory(p) => Page \ InUsePages \subseteq pgdir[p].write

(* Every process that is not in the middle of exec may read the page of every   *)
(* other, whichever of them was created, or executed a program, last.           *)
EveryoneReadsEveryone ==
    ~astray => \A p, q \in Proc : Live(p) /\ Live(q) /\ call[p] # "exec" =>
                   sharep[q] \in pgdir[p].user

(* A process may write its own page, no matter what others do to its directory. *)
OwnerWrites ==
    ~astray => \A p \in Proc : sharep[p] # PageZero => sharep[p] \in MayWrite(p)

(* No step but a process's own exec lets it write another's page: README.md:49   *)
(* calls the others' pages read-only, update_exec_sp opens them for writing.     *)
WriteOnlyThroughExec ==
    [][\A p, q \in Proc :
          /\ p # q /\ Live(p)' /\ Live(q)' /\ ~astray'
          /\ sharep'[q] \in MayWrite(p)'
          => call[p] = "exec" \/ (Live(p) /\ sharep[q] \in MayWrite(p))]_vars

(* proc.c:292: once its owner exited, a page cannot be accessed by a program.   *)
NoAccessAfterExit ==
    ~astray => \A p \in Proc : state[p] = "RUNNING" => tlb[p] \subseteq InUsePages
=============================================================================
