------------------------------- MODULE Memory -------------------------------
(* Page frames and memory limits of project 2: kalloc.c, the user half of     *)
(* vm.c, growproc, fork, exit and wait, exec and exec2, getadmin and          *)
(* setmemorylimit.                                                            *)
(*                                                                            *)
(* Frames are counted, not told apart.  A kalloc is a step: what copies or    *)
(* grows memory takes one frame after another while other processes take and  *)
(* give back theirs, and finds none left anywhere on the way.  A page         *)
(* directory is taken with its page tables.  Who may be whose parent does not *)
(* matter here, so a dead process is reaped at any time.                      *)
EXTENDS Integers, FiniteSets

CONSTANTS Proc, InitProc,
          Frames,        \* page frames kinit2 left free
          DirFrames,     \* frames of a page directory and its tables
          PGSIZE, KERNBASE,
          UintSize,      \* sizes are modulo 2^32
          Increments,    \* what sbrk is called with
          ProgramSizes,  \* bytes the programs load
          StackSizes,    \* what exec2 is called with, in pages
          Limits         \* what setmemorylimit is called with

ConstantsAssumption ==
    /\ InitProc \in Proc
    /\ {Frames, DirFrames, PGSIZE, KERNBASE, UintSize} \subseteq Nat \ {0}
    /\ Increments \subseteq Int
    /\ ProgramSizes \subseteq Nat
    /\ StackSizes \subseteq 1..100
    /\ Limits \subseteq Nat

VARIABLES
    free,                \* frames on kmem.freelist
    state,
    kstack, pgdir, sharep, \* slots that have one
    mapped,              \* user pages in a slot's page table
    building,            \* user pages in the page table exec is building
    sz, limit, admin,
    l,                   \* [pc, child, want]: the call a process is in
    raced                \* whose limit was set after growproc tested the old one (history)

vars == <<free, state, kstack, pgdir, sharep, mapped, building, sz, limit, admin, l, raced>>
table == <<state, kstack, pgdir, sharep>>
rights == <<limit, admin, raced>>

Uint(n) == n % UintSize
Pages(size) == (size + PGSIZE - 1) \div PGSIZE      \* PGROUNDUP
User == [pc |-> "user", child |-> InitProc, want |-> 0]

Init ==
    /\ state = [p \in Proc |-> IF p = InitProc THEN "RUNNABLE" ELSE "UNUSED"]
    /\ kstack = {InitProc} /\ pgdir = {InitProc} /\ sharep = {InitProc}
    /\ sz = [p \in Proc |-> IF p = InitProc THEN PGSIZE ELSE 0]
    /\ mapped = [p \in Proc |-> Pages(sz[p])]
    /\ building = [p \in Proc |-> 0]
    /\ free = Frames - DirFrames - 3
    /\ limit = [p \in Proc |-> 0] /\ admin = {} /\ raced = {}
    /\ l = [p \in Proc |-> User]

At(p, pc) == state[p] = "RUNNABLE" /\ l[p].pc = pc
Goto(p, f) == l' = [l EXCEPT ![p] = f]

kalloc(n) == free >= n /\ free' = free - n
kfree(n) == free' = free + n
NoFrames(n) == free < n

-----------------------------------------------------------------------------
(* sbrk: growproc, allocuvm, deallocuvm.  The first process never calls it.   *)

WithinLimit_Before(p, n) == limit[p] = 0 \/ sz[p] <= limit[p]     \* seeded fault

WithinLimit(p, n) == limit[p] = 0 \/ Uint(sz[p] + n) <= limit[p]

sbrk_grow(p, n) ==
    /\ At(p, "user") /\ p # InitProc
    /\ n > 0 /\ WithinLimit(p, n) /\ Uint(sz[p] + n) \in sz[p]..KERNBASE - 1
    /\ Goto(p, [User EXCEPT !.pc = "grow", !.want = Uint(sz[p] + n)])
    /\ UNCHANGED <<free, table, mapped, building, sz, rights>>

grow_page(p) ==
    /\ At(p, "grow") /\ mapped[p] < Pages(l[p].want)
    /\ kalloc(1)
    /\ mapped' = [mapped EXCEPT ![p] = @ + 1]
    /\ UNCHANGED <<table, building, sz, rights, l>>

\* seeded fault: what was added so far stays mapped
grow_fails_Keeps(p) ==
    /\ At(p, "grow") /\ mapped[p] < Pages(l[p].want) /\ NoFrames(1)
    /\ Goto(p, User)
    /\ UNCHANGED <<free, table, mapped, building, sz, rights>>

grow_fails(p) ==
    /\ At(p, "grow") /\ mapped[p] < Pages(l[p].want) /\ NoFrames(1)
    /\ kfree(mapped[p] - Pages(sz[p]))
    /\ mapped' = [mapped EXCEPT ![p] = Pages(sz[p])]
    /\ Goto(p, User)
    /\ UNCHANGED <<table, building, sz, rights>>

grow_done(p) ==
    /\ At(p, "grow") /\ mapped[p] = Pages(l[p].want)
    /\ sz' = [sz EXCEPT ![p] = l[p].want]
    /\ Goto(p, User)
    /\ UNCHANGED <<free, table, mapped, building, rights>>

\* Down to size 0 is taken for a failure: the pages are gone and sz is not, and
\* the process faults at its next instruction.
sbrk_shrink(p, n) ==
    /\ At(p, "user") /\ p # InitProc
    /\ n < 0 /\ WithinLimit(p, n)
    /\ LET size == Uint(sz[p] + n)
       IN  /\ size < sz[p]
           /\ kfree(mapped[p] - Pages(size))
           /\ mapped' = [mapped EXCEPT ![p] = Pages(size)]
           /\ sz' = [sz EXCEPT ![p] = IF size = 0 THEN @ ELSE size]
           /\ Goto(p, IF size = 0 THEN [User EXCEPT !.pc = "fault"] ELSE User)
    /\ UNCHANGED <<table, building, rights>>

-----------------------------------------------------------------------------
(* fork: allocproc, copyuvm page by page, makesharep *)

fork(p, c) ==
    /\ At(p, "user") /\ state[c] = "UNUSED"
    /\ state' = [state EXCEPT ![c] = "EMBRYO"]
    /\ admin' = admin \ {c}
    /\ limit' = [limit EXCEPT ![c] = 0]
    /\ sharep' = sharep \ {c}
    /\ Goto(p, [User EXCEPT !.pc = "kstack", !.child = c])
    /\ UNCHANGED <<free, kstack, pgdir, mapped, building, sz, raced>>

fork_kstack(p) ==
    /\ At(p, "kstack")
    /\ kalloc(1)
    /\ kstack' = kstack \union {l[p].child}
    /\ Goto(p, [l[p] EXCEPT !.pc = "setupkvm"])
    /\ UNCHANGED <<state, pgdir, sharep, mapped, building, sz, rights>>

fork_setupkvm(p) ==
    /\ At(p, "setupkvm")
    /\ kalloc(DirFrames)
    /\ pgdir' = pgdir \union {l[p].child}
    /\ Goto(p, [l[p] EXCEPT !.pc = "copyuvm"])
    /\ UNCHANGED <<state, kstack, sharep, mapped, building, sz, rights>>

fork_page(p) ==
    /\ At(p, "copyuvm") /\ mapped[l[p].child] < Pages(sz[p])
    /\ kalloc(1)
    /\ mapped' = [mapped EXCEPT ![l[p].child] = @ + 1]
    /\ UNCHANGED <<table, building, sz, rights, l>>

\* Frames fork wants next, and what a slot holds to be given back.
Wanted(p) ==
    CASE l[p].pc = "kstack" -> 1
      [] l[p].pc = "setupkvm" -> DirFrames
      [] l[p].pc = "copyuvm" /\ mapped[l[p].child] < Pages(sz[p]) -> 1
      [] OTHER -> 0
Held(p) == (IF p \in kstack THEN 1 ELSE 0) + (IF p \in pgdir THEN DirFrames ELSE 0) + mapped[p]

\* copyuvm frees what it copied, fork the stack.
fork_fails(p) ==
    LET c == l[p].child
    IN  /\ At(p, "kstack") \/ At(p, "setupkvm") \/ At(p, "copyuvm")
        /\ Wanted(p) > 0 /\ NoFrames(Wanted(p))
        /\ kfree(Held(c))
        /\ state' = [state EXCEPT ![c] = "UNUSED"]
        /\ kstack' = kstack \ {c} /\ pgdir' = pgdir \ {c}
        /\ mapped' = [mapped EXCEPT ![c] = 0]
        /\ Goto(p, User)
        /\ UNCHANGED <<sharep, building, sz, rights>>

fork_done(p) ==
    LET c == l[p].child
    IN  /\ At(p, "copyuvm") /\ mapped[c] = Pages(sz[p])
        /\ kalloc(1)
        /\ sharep' = sharep \union {c}
        /\ sz' = [sz EXCEPT ![c] = sz[p]]
        /\ admin' = IF p \in admin THEN admin \union {c} ELSE admin \ {c}
        /\ limit' = [limit EXCEPT ![c] = limit[p]]
        /\ raced' = IF p \in raced THEN raced \union {c} ELSE raced \ {c}
        /\ state' = [state EXCEPT ![c] = "RUNNABLE"]
        /\ l' = [l EXCEPT ![p] = User, ![c] = User]
        /\ UNCHANGED <<kstack, pgdir, mapped, building>>

\* Without a frame for the shared page fork leaves the child as it is, for good.
fork_no_sharep(p) ==
    /\ At(p, "copyuvm") /\ mapped[l[p].child] = Pages(sz[p])
    /\ NoFrames(1)
    /\ Goto(p, User)
    /\ UNCHANGED <<free, table, mapped, building, sz, rights>>

-----------------------------------------------------------------------------
(* exec and exec2 *)

BuildFor(p, pages) ==
    /\ pages * PGSIZE < KERNBASE
    /\ kalloc(DirFrames)
    /\ Goto(p, [User EXCEPT !.pc = "exec", !.want = pages * PGSIZE])
    /\ UNCHANGED <<table, mapped, building, sz, rights>>

exec(p, size) == At(p, "user") /\ BuildFor(p, Pages(size) + 2)

exec2(p, size, stacksize) ==
    At(p, "user") /\ p \in admin /\ BuildFor(p, Pages(size) + 1 + stacksize)

exec_page(p) ==
    /\ At(p, "exec") /\ building[p] < Pages(l[p].want)
    /\ kalloc(1)
    /\ building' = [building EXCEPT ![p] = @ + 1]
    /\ UNCHANGED <<table, mapped, sz, rights, l>>

\* freevm(pgdir): also when the program file turns out to be damaged.
exec_fails(p) ==
    /\ At(p, "exec")
    /\ kfree(DirFrames + building[p])
    /\ building' = [building EXCEPT ![p] = 0]
    /\ Goto(p, User)
    /\ UNCHANGED <<table, mapped, sz, rights>>

exec_commit(p) ==
    /\ At(p, "exec") /\ building[p] = Pages(l[p].want)
    /\ kfree(DirFrames + mapped[p])
    /\ mapped' = [mapped EXCEPT ![p] = building[p]]
    /\ building' = [building EXCEPT ![p] = 0]
    /\ sz' = [sz EXCEPT ![p] = l[p].want]
    /\ admin' = admin \ {p}
    /\ limit' = [limit EXCEPT ![p] = 0]
    /\ raced' = raced \ {p}
    /\ Goto(p, User)
    /\ UNCHANGED table

-----------------------------------------------------------------------------
(* exit, wait, getadmin, setmemorylimit *)

exit(p) ==
    /\ At(p, "user") \/ At(p, "fault")
    /\ p # InitProc
    /\ state' = [state EXCEPT ![p] = "ZOMBIE"]
    /\ sharep' = sharep \ {p}
    /\ kfree(1)
    /\ UNCHANGED <<kstack, pgdir, mapped, building, sz, rights, l>>

wait_NoStack(c) ==                                        \* seeded fault
    /\ state[c] = "ZOMBIE"
    /\ kfree(DirFrames + mapped[c])
    /\ state' = [state EXCEPT ![c] = "UNUSED"]
    /\ kstack' = kstack \ {c} /\ pgdir' = pgdir \ {c}
    /\ mapped' = [mapped EXCEPT ![c] = 0]
    /\ UNCHANGED <<sharep, building, sz, rights, l>>

wait(c) ==
    /\ state[c] = "ZOMBIE"
    /\ kfree(Held(c))
    /\ state' = [state EXCEPT ![c] = "UNUSED"]
    /\ kstack' = kstack \ {c} /\ pgdir' = pgdir \ {c}
    /\ mapped' = [mapped EXCEPT ![c] = 0]
    /\ UNCHANGED <<sharep, building, sz, rights, l>>

getadmin(p) ==
    /\ At(p, "user")
    /\ admin' = admin \union {p}
    /\ UNCHANGED <<free, table, mapped, building, sz, limit, l, raced>>

\* It tests sz as it is, and growproc tests the limit before it takes pages.
setmemorylimit(p, q, n) ==
    /\ At(p, "user") /\ p \in admin
    /\ state[q] # "UNUSED" /\ (sz[q] <= n \/ n = 0)
    /\ limit' = [limit EXCEPT ![q] = n]
    /\ raced' = IF n # 0 /\ At(q, "grow") THEN raced \union {q} ELSE raced \ {q}
    /\ UNCHANGED <<free, table, mapped, building, sz, admin, l>>

Next ==
    \E p \in Proc :
        \/ \E n \in Increments : sbrk_grow(p, n) \/ sbrk_shrink(p, n)
        \/ grow_page(p) \/ grow_fails(p) \/ grow_done(p)
        \/ \E c \in Proc : fork(p, c)
        \/ fork_kstack(p) \/ fork_setupkvm(p) \/ fork_page(p) \/ fork_fails(p)
        \/ fork_done(p) \/ fork_no_sharep(p)
        \/ \E size \in ProgramSizes :
              exec(p, size) \/ \E n \in StackSizes : exec2(p, size, n)
        \/ exec_page(p) \/ exec_fails(p) \/ exec_commit(p)
        \/ exit(p) \/ wait(p) \/ getadmin(p)
        \/ \E q \in Proc, n \in Limits : setmemorylimit(p, q, n)

Spec == Init /\ [][Next]_vars

-----------------------------------------------------------------------------
(* Properties *)

InUse(p) ==
    Held(p) + (IF p \in sharep THEN 1 ELSE 0)
            + (IF At(p, "exec") THEN DirFrames + building[p] ELSE 0)

\* The frames in use, each as one of those of its slot.
Taken(n) == UNION {{p} \X (1..n[p]) : p \in Proc}
Using == [p \in Proc |-> InUse(p)]

(* No frame is lost and none is given out twice: wherever fork, exec or sbrk  *)
(* finds no frame left, what it took goes back, and only that.  What a fork   *)
(* without a shared page leaves behind stays held by its slot.                *)
FramesConserved ==
    /\ free + Cardinality(Taken(Using)) = Frames
    /\ \A p \in Proc : state[p] = "UNUSED" => InUse(p) = 0

(* A process has exactly the pages its sz says, but while sbrk is at work and *)
(* after it went down to nothing: copyuvm panics on a page that is missing.   *)
SizeIsMapped ==
    \A p \in Proc : state[p] = "RUNNABLE" =>
        CASE l[p].pc = "grow" -> mapped[p] \in Pages(sz[p])..Pages(l[p].want)
          [] l[p].pc = "fault" -> mapped[p] = 0
          [] OTHER -> mapped[p] = Pages(sz[p])

(* A process outgrows its limit only when the limit was set between the test  *)
(* and the end of an sbrk, by itself or by the one it was forked from; not by *)
(* fork, exec, exec2, or an sbrk that wraps around.                           *)
LimitHolds ==
    \A p \in Proc : state[p] = "RUNNABLE" /\ limit[p] > 0 /\ sz[p] > limit[p] => p \in raced
=============================================================================
