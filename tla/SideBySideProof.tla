---------------------------- MODULE SideBySideProof ----------------------------
(* Theorems about Memory, Users and Switch, for any number of processes,      *)
(* processors, frames, calls and entries of the table.  Each part has its     *)
(* names: what is proved of Memory comes first, of Users (U) second, and of   *)
(* Switch (K) last.                                                           *)
EXTENDS SideBySide, FiniteSetTheorems, FunctionTheorems, WellFoundedInduction, TLAPS

-----------------------------------------------------------------------------
(* Memory: frames, sizes and limits                                           *)

FrameCalls == {"user", "grow", "fault", "kstack", "setupkvm", "copyuvm", "exec"}
FrameLocals == [pc : FrameCalls, child : Proc, want : Nat]
Forking == {"kstack", "setupkvm", "copyuvm"}

TableTypes ==
    /\ state \in [Proc -> {"UNUSED", "EMBRYO", "RUNNABLE", "ZOMBIE"}]
    /\ kstack \subseteq Proc /\ pgdir \subseteq Proc /\ sharep \subseteq Proc
    /\ admin \subseteq Proc /\ raced \subseteq Proc
    /\ mapped \in [Proc -> Int] /\ building \in [Proc -> Int]
    /\ sz \in [Proc -> Nat] /\ limit \in [Proc -> Nat]
FrameTypes == TableTypes /\ l \in [Proc -> FrameLocals]

\* A fork has its child's slot to itself until it is over.
ForkOwnsChild ==
    \A p \in Proc : state[p] = "RUNNABLE" /\ l[p].pc \in Forking =>
        /\ state[l[p].child] = "EMBRYO"
        /\ \A q \in Proc : /\ state[q] = "RUNNABLE" /\ l[q].pc \in Forking
                           /\ l[q].child = l[p].child
                           => q = p

\* What sbrk tested holds until a new limit is set.
GrowsWithinLimit ==
    \A p \in Proc : At(p, "grow") =>
        limit[p] = 0 \/ l[p].want <= limit[p] \/ p \in raced

FreeSlotsEmpty ==
    /\ \A p \in sharep : state[p] = "RUNNABLE"
    /\ \A p \in Proc : state[p] = "UNUSED" =>
           p \notin kstack /\ p \notin pgdir /\ mapped[p] = 0

\* What a slot holds: a process all it needs to run, the child of a fork what
\* the fork has given it so far, and only an exec pages of a second table.
Holdings ==
    /\ \A p \in Proc : mapped[p] \in Nat /\ building[p] \in Nat
    /\ \A p \in Proc : ~At(p, "exec") => building[p] = 0
    /\ \A p \in Proc : state[p] = "RUNNABLE" => p \in kstack /\ p \in pgdir /\ p \in sharep
    /\ \A p \in Proc : At(p, "kstack") => l[p].child \notin kstack
    /\ \A p \in Proc : At(p, "kstack") \/ At(p, "setupkvm") => l[p].child \notin pgdir
    /\ \A p \in Proc : At(p, "setupkvm") \/ At(p, "copyuvm") => l[p].child \in kstack
    /\ \A p \in Proc : At(p, "copyuvm") => l[p].child \in pgdir

-----------------------------------------------------------------------------
(* Arithmetic                                                                 *)

LEMMA UintNat ==
  ASSUME ConstantsAssumption, NEW n \in Int
  PROVE  Uint(n) \in Nat
  BY DEF ConstantsAssumption, Uint

LEMMA PagesNat ==
  ASSUME ConstantsAssumption, NEW n \in Nat
  PROVE  Pages(n) \in Nat
  BY DEF ConstantsAssumption, Pages

\* A larger size has as many pages or more.
LEMMA PagesMonotone ==
  ASSUME ConstantsAssumption, NEW m \in Nat, NEW n \in Nat, m <= n
  PROVE  Pages(m) <= Pages(n)
  <1>1. PGSIZE \in Nat /\ PGSIZE > 0
    BY DEF ConstantsAssumption
  <1> QED
    BY <1>1 DEF Pages

LEMMA PagesZero ==
  ASSUME ConstantsAssumption
  PROVE  Pages(0) = 0
  BY DEF ConstantsAssumption, Pages

-----------------------------------------------------------------------------
(* Type correctness.                                                          *)

LEMMA TypesInit ==
  ASSUME ConstantsAssumption
  PROVE  Init => FrameTypes
  <1>1. \A n \in Nat : Pages(n) \in Nat
    BY PagesNat
  <1>2. PGSIZE \in Nat /\ InitProc \in Proc
    BY DEF ConstantsAssumption
  <1> QED
    BY <1>1, <1>2 DEF Init, FrameTypes, TableTypes, User, FrameLocals, FrameCalls

\* Every call a process can be in, with its child and its size.
LEMMA LocalsType ==
  ASSUME ConstantsAssumption
  PROVE  /\ User \in FrameLocals
         /\ \A f \in FrameLocals, where \in FrameCalls : [f EXCEPT !.pc = where] \in FrameLocals
         /\ \A f \in FrameLocals, c \in Proc : [f EXCEPT !.child = c] \in FrameLocals
         /\ \A f \in FrameLocals, n \in Nat : [f EXCEPT !.want = n] \in FrameLocals
  BY DEF ConstantsAssumption, User, FrameLocals, FrameCalls

LEMMA GotoType ==
  ASSUME FrameTypes, NEW p \in Proc, NEW f \in FrameLocals, Goto(p, f)
  PROVE  l' \in [Proc -> FrameLocals]
  BY DEF FrameTypes, Goto

LEMMA LocalsStep ==
  ASSUME ConstantsAssumption, FrameTypes, [Next]_vars
  PROVE  l' \in [Proc -> FrameLocals]
  <1>1. /\ PGSIZE \in Nat /\ ProgramSizes \subseteq Nat /\ StackSizes \subseteq Nat
        /\ Increments \subseteq Int
    BY DEF ConstantsAssumption
  <1>2. /\ \A n \in Nat : Pages(n) \in Nat
        /\ \A n \in Int : Uint(n) \in Nat
    BY PagesNat, UintNat
  <1>3. /\ User \in FrameLocals
        /\ \A f \in FrameLocals, where \in FrameCalls : [f EXCEPT !.pc = where] \in FrameLocals
        /\ \A f \in FrameLocals, c \in Proc : [f EXCEPT !.child = c] \in FrameLocals
        /\ \A f \in FrameLocals, n \in Nat : [f EXCEPT !.want = n] \in FrameLocals
    BY LocalsType
  <1>4. \A where \in FrameCalls : [User EXCEPT !.pc = where] \in FrameLocals
    BY <1>3
  <1>5. l \in [Proc -> FrameLocals] /\ sz \in [Proc -> Nat]
    BY DEF FrameTypes, TableTypes
  <1>6. ASSUME NEW p \in Proc, NEW n \in Increments, sbrk_grow(p, n)
        PROVE  l' \in [Proc -> FrameLocals]
    <2>1. Uint(sz[p] + n) \in Nat
      BY <1>1, <1>2, <1>5
    <2>2. [User EXCEPT !.pc = "grow", !.want = Uint(sz[p] + n)] \in FrameLocals
      BY <2>1, <1>3, <1>4 DEF FrameCalls
    <2> QED
      BY <1>6, <2>2, GotoType DEF sbrk_grow
  <1>7. ASSUME NEW p \in Proc, NEW n \in Increments, sbrk_shrink(p, n)
        PROVE  l' \in [Proc -> FrameLocals]
    <2>1. User \in FrameLocals /\ [User EXCEPT !.pc = "fault"] \in FrameLocals
      BY <1>3, <1>4 DEF FrameCalls
    <2> QED
      BY <1>7, <2>1, GotoType DEF sbrk_shrink
  <1>8. ASSUME NEW p \in Proc,
               \/ grow_page(p) \/ grow_fails(p) \/ grow_done(p)
               \/ fork_page(p) \/ fork_fails(p) \/ fork_no_sharep(p)
               \/ exec_page(p) \/ exec_fails(p) \/ exec_commit(p)
               \/ exit(p) \/ wait(p) \/ getadmin(p)
        PROVE  l' \in [Proc -> FrameLocals]
    <2>1. l' = l \/ Goto(p, User)
      BY <1>8 DEF grow_page, grow_fails, grow_done, fork_page, fork_fails, fork_no_sharep,
                  exec_page, exec_fails, exec_commit, exit, wait, getadmin
    <2> QED
      BY <2>1, <1>3, <1>5, GotoType
  <1>9. ASSUME NEW p \in Proc, NEW c \in Proc, fork(p, c) PROVE l' \in [Proc -> FrameLocals]
    <2>1. [User EXCEPT !.pc = "kstack", !.child = c] \in FrameLocals
      BY <1>3, <1>4 DEF FrameCalls
    <2> QED
      BY <1>9, <2>1, GotoType DEF fork
  <1>10. ASSUME NEW p \in Proc, fork_kstack(p) \/ fork_setupkvm(p)
         PROVE  l' \in [Proc -> FrameLocals]
    <2>1. [l[p] EXCEPT !.pc = "setupkvm"] \in FrameLocals /\ [l[p] EXCEPT !.pc = "copyuvm"] \in FrameLocals
      BY <1>3, <1>5 DEF FrameCalls
    <2> QED
      BY <1>10, <2>1, GotoType DEF fork_kstack, fork_setupkvm
  <1>11. ASSUME NEW p \in Proc, fork_done(p) PROVE l' \in [Proc -> FrameLocals]
    BY <1>11, <1>3, <1>5 DEF fork_done
  <1>12. ASSUME NEW p \in Proc, NEW size \in ProgramSizes,
                exec(p, size) \/ \E n \in StackSizes : exec2(p, size, n)
         PROVE  l' \in [Proc -> FrameLocals]
    <2>1. PICK pages \in Nat : BuildFor(p, pages)
      BY <1>12, <1>1, <1>2 DEF exec, exec2
    <2>2. pages * PGSIZE \in Nat
      BY <1>1
    <2>3. [User EXCEPT !.pc = "exec", !.want = pages * PGSIZE] \in FrameLocals
      BY <2>2, <1>3, <1>4 DEF FrameCalls
    <2> QED
      BY <2>1, <2>3, GotoType DEF BuildFor
  <1>13. ASSUME NEW p \in Proc, NEW q \in Proc, NEW n \in Limits, setmemorylimit(p, q, n)
         PROVE  l' \in [Proc -> FrameLocals]
    BY <1>13, <1>5 DEF setmemorylimit
  <1>14. CASE UNCHANGED vars
    BY <1>14, <1>5 DEF vars
  <1> QED
    BY <1>6, <1>7, <1>8, <1>9, <1>10, <1>11, <1>12, <1>13, <1>14 DEF Next

LEMMA TableTypesStep ==
  ASSUME ConstantsAssumption, FrameTypes, [Next]_vars
  PROVE  TableTypes'
  <1>1. /\ InitProc \in Proc /\ PGSIZE \in Nat
        /\ Increments \subseteq Int /\ Limits \subseteq Nat
    BY DEF ConstantsAssumption
  <1>2. /\ \A n \in Nat : Pages(n) \in Nat
        /\ \A n \in Int : Uint(n) \in Nat
    BY PagesNat, UintNat
  <1>a. TableTypes /\ \A p \in Proc : l[p].child \in Proc /\ l[p].want \in Nat
    BY DEF FrameTypes, FrameLocals
  <1> USE <1>a, <1>1, <1>2 DEF TableTypes
  <1>3. ASSUME NEW p \in Proc, NEW n \in Increments, sbrk_grow(p, n) PROVE TableTypes'
    <2>1. Uint(sz[p] + n) \in Nat
      OBVIOUS
    <2> QED
      BY <1>3, <2>1 DEF sbrk_grow, table, rights
  <1>4. ASSUME NEW p \in Proc, NEW n \in Increments, sbrk_shrink(p, n) PROVE TableTypes'
    <2>1. Uint(sz[p] + n) \in Nat
      OBVIOUS
    <2> QED
      BY <1>4, <2>1 DEF sbrk_shrink, table, rights
  <1>5. ASSUME NEW p \in Proc, grow_page(p) \/ grow_fails(p) \/ grow_done(p) PROVE TableTypes'
    BY <1>5 DEF grow_page, grow_fails, grow_done, table, rights
  <1>6. ASSUME NEW p \in Proc, NEW c \in Proc, fork(p, c) PROVE TableTypes'
    BY <1>6 DEF fork
  <1>7. ASSUME NEW p \in Proc, fork_kstack(p) \/ fork_setupkvm(p) \/ fork_page(p) PROVE TableTypes'
    BY <1>7 DEF fork_kstack, fork_setupkvm, fork_page, table, rights
  <1>8. ASSUME NEW p \in Proc, fork_fails(p) \/ fork_no_sharep(p) PROVE TableTypes'
    BY <1>8 DEF fork_fails, fork_no_sharep, table, rights
  <1>9. ASSUME NEW p \in Proc, fork_done(p) PROVE TableTypes'
    BY <1>9 DEF fork_done
  <1>10. ASSUME NEW p \in Proc, NEW size \in ProgramSizes,
                exec(p, size) \/ \E n \in StackSizes : exec2(p, size, n)
         PROVE TableTypes'
    BY <1>10 DEF exec, exec2, BuildFor, table, rights
  <1>11. ASSUME NEW p \in Proc, exec_page(p) \/ exec_fails(p) \/ exec_commit(p) PROVE TableTypes'
    BY <1>11 DEF exec_page, exec_fails, exec_commit, table, rights
  <1>12. ASSUME NEW p \in Proc, exit(p) \/ wait(p) \/ getadmin(p) PROVE TableTypes'
    BY <1>12 DEF exit, wait, getadmin, table, rights
  <1>13. ASSUME NEW p \in Proc, NEW q \in Proc, NEW n \in Limits, setmemorylimit(p, q, n)
         PROVE TableTypes'
    BY <1>13 DEF setmemorylimit, table, rights
  <1>14. CASE UNCHANGED vars
    BY <1>14 DEF vars, table, rights
  <1> QED
    BY <1>3, <1>4, <1>5, <1>6, <1>7, <1>8, <1>9, <1>10, <1>11, <1>12, <1>13, <1>14 DEF Next

-----------------------------------------------------------------------------
(* Who owns the slots that are neither free nor running.                      *)

LEMMA GotoEffect ==
  ASSUME FrameTypes, NEW p \in Proc, NEW f, Goto(p, f)
  PROVE  l'[p] = f /\ \A q \in Proc : q # p => l'[q] = l[q]
  BY DEF FrameTypes, Goto

LEMMA Fields ==
  /\ User.pc = "user"
  /\ \A n : [User EXCEPT !.pc = "grow", !.want = n].pc = "grow"
  /\ \A n : [User EXCEPT !.pc = "grow", !.want = n].want = n
  /\ \A n : [User EXCEPT !.pc = "exec", !.want = n].pc = "exec"
  /\ \A n : [User EXCEPT !.pc = "exec", !.want = n].want = n
  /\ [User EXCEPT !.pc = "fault"].pc = "fault"
  /\ \A c : [User EXCEPT !.pc = "kstack", !.child = c].pc = "kstack"
  /\ \A c : [User EXCEPT !.pc = "kstack", !.child = c].child = c
  BY DEF User

LEMMA ForkFields ==
  ASSUME FrameTypes, NEW p \in Proc
  PROVE  /\ [l[p] EXCEPT !.pc = "setupkvm"].pc = "setupkvm"
         /\ [l[p] EXCEPT !.pc = "copyuvm"].pc = "copyuvm"
         /\ [l[p] EXCEPT !.pc = "setupkvm"].child = l[p].child
         /\ [l[p] EXCEPT !.pc = "copyuvm"].child = l[p].child
  BY DEF FrameTypes, FrameLocals

LEMMA ForkOwnsChildStep ==
  ASSUME FrameTypes, ForkOwnsChild, [Next]_vars
  PROVE  ForkOwnsChild'
  <1>1. state \in [Proc -> {"UNUSED", "EMBRYO", "RUNNABLE", "ZOMBIE"}]
    BY DEF FrameTypes, TableTypes
  <1>2. ASSUME NEW p \in Proc, UNCHANGED state,
               l' = l \/ \E f : Goto(p, f) /\ f.pc \notin Forking
        PROVE  ForkOwnsChild'
    <2>1. /\ l'[p] = l[p] \/ l'[p].pc \notin Forking
          /\ \A q \in Proc : q # p => l'[q] = l[q]
      BY <1>2, GotoEffect
    <2> QED
      BY <1>2, <2>1 DEF ForkOwnsChild
  <1>3. ASSUME NEW p \in Proc, NEW n \in Increments, sbrk_grow(p, n) \/ sbrk_shrink(p, n)
        PROVE  ForkOwnsChild'
    <2>1. UNCHANGED state /\ \E f : Goto(p, f) /\ f.pc \in {"grow", "fault", "user"}
      <3>1. CASE sbrk_grow(p, n)
        <4> DEFINE f == [User EXCEPT !.pc = "grow", !.want = Uint(sz[p] + n)]
        <4>1. Goto(p, f) /\ f.pc = "grow" /\ UNCHANGED state
          BY <3>1, Fields DEF sbrk_grow, table
        <4> HIDE DEF f
        <4> QED
          BY <4>1
      <3>2. CASE sbrk_shrink(p, n)
        BY <3>2, Fields DEF sbrk_shrink, table
      <3> QED
        BY <1>3, <3>1, <3>2
    <2> QED
      BY <2>1, <1>2 DEF Forking
  <1>4. ASSUME NEW p \in Proc,
               \/ grow_page(p) \/ grow_fails(p) \/ grow_done(p)
               \/ fork_page(p) \/ fork_no_sharep(p)
               \/ exec_page(p) \/ exec_fails(p) \/ exec_commit(p) \/ getadmin(p)
        PROVE  ForkOwnsChild'
    <2>1. UNCHANGED state /\ (l' = l \/ Goto(p, User))
      BY <1>4 DEF grow_page, grow_fails, grow_done, fork_page, fork_no_sharep,
                  exec_page, exec_fails, exec_commit, getadmin, table
    <2> QED
      BY <2>1, <1>2, Fields DEF Forking
  <1>5. ASSUME NEW p \in Proc, NEW c \in Proc, fork(p, c) PROVE ForkOwnsChild'
    <2> DEFINE f == [User EXCEPT !.pc = "kstack", !.child = c]
    <2>1. /\ Goto(p, f) /\ state[c] = "UNUSED" /\ state[p] = "RUNNABLE"
          /\ state' = [state EXCEPT ![c] = "EMBRYO"]
      BY <1>5 DEF fork, At
    <2>2. f.child = c
      BY Fields
    <2> HIDE DEF f
    <2>3. l'[p].child = c /\ \A q \in Proc : q # p => l'[q] = l[q]
      BY <2>1, <2>2, GotoEffect
    <2> QED
      BY <1>1, <2>1, <2>3 DEF ForkOwnsChild
  <1>6. ASSUME NEW p \in Proc, fork_kstack(p) \/ fork_setupkvm(p) PROVE ForkOwnsChild'
    <2>1. /\ \E f : Goto(p, f) /\ f.child = l[p].child
          /\ l[p].pc \in Forking /\ state' = state
      BY <1>6, ForkFields DEF fork_kstack, fork_setupkvm, At, Forking, table
    <2>2. l'[p].child = l[p].child /\ \A q \in Proc : q # p => l'[q] = l[q]
      BY <2>1, GotoEffect
    <2> QED
      BY <2>1, <2>2 DEF ForkOwnsChild
  <1>7. ASSUME NEW p \in Proc, fork_fails(p) PROVE ForkOwnsChild'
    <2>1. /\ l'[p].pc = "user" /\ \A q \in Proc : q # p => l'[q] = l[q]
          /\ l[p].pc \in Forking /\ state[p] = "RUNNABLE"
          /\ state' = [state EXCEPT ![l[p].child] = "UNUSED"]
      BY <1>7, GotoEffect, Fields DEF fork_fails, At, Forking
    <2> QED
      BY <1>1, <2>1 DEF ForkOwnsChild, Forking
  <1>8. ASSUME NEW p \in Proc, fork_done(p) PROVE ForkOwnsChild'
    <2>1. /\ l'[p].pc = "user"
          /\ \A q \in Proc : q # p => l'[q] = l[q] \/ l'[q].pc = "user"
          /\ l'[l[p].child].pc = "user"
          /\ l[p].pc \in Forking /\ state[p] = "RUNNABLE"
          /\ state' = [state EXCEPT ![l[p].child] = "RUNNABLE"]
      BY <1>8, Fields DEF fork_done, At, Forking, FrameTypes, FrameLocals
    <2> QED
      BY <1>1, <2>1 DEF ForkOwnsChild, Forking
  <1>9. ASSUME NEW p \in Proc, exit(p) \/ wait(p) PROVE ForkOwnsChild'
    <2>1. /\ l' = l /\ state[p] # "EMBRYO"
          /\ \E new \in {"UNUSED", "ZOMBIE"} : state' = [state EXCEPT ![p] = new]
      BY <1>9 DEF exit, wait, At
    <2> QED
      BY <1>1, <2>1 DEF ForkOwnsChild
  <1>10. ASSUME NEW p \in Proc, NEW pages, BuildFor(p, pages) PROVE ForkOwnsChild'
    <2>1. UNCHANGED state /\ \E f : Goto(p, f) /\ f.pc = "exec"
      BY <1>10, Fields DEF BuildFor, table
    <2> QED
      BY <2>1, <1>2 DEF Forking
  <1>11. ASSUME NEW p \in Proc, NEW q \in Proc, NEW n, setmemorylimit(p, q, n)
         PROVE  ForkOwnsChild'
    BY <1>11, <1>2 DEF setmemorylimit, table
  <1>12. CASE UNCHANGED vars
    BY <1>12 DEF vars, table, ForkOwnsChild
  <1> QED
    BY <1>3, <1>4, <1>5, <1>6, <1>7, <1>8, <1>9, <1>10, <1>11, <1>12 DEF Next, exec, exec2

LEMMA FreeSlotsEmptyStep ==
  ASSUME FrameTypes, ForkOwnsChild, FreeSlotsEmpty, [Next]_vars
  PROVE  FreeSlotsEmpty'
  <1>1. TableTypes /\ \A p \in Proc : l[p].child \in Proc
    BY DEF FrameTypes, FrameLocals
  <1>2. \A p \in Proc : /\ At(p, "kstack") => state[l[p].child] = "EMBRYO"
                        /\ At(p, "setupkvm") => state[l[p].child] = "EMBRYO"
                        /\ At(p, "copyuvm") => state[l[p].child] = "EMBRYO"
    BY DEF ForkOwnsChild, Forking, At
  <1> USE <1>1, <1>2 DEF FreeSlotsEmpty, TableTypes
  <1>3. ASSUME NEW p \in Proc, state[p] = "RUNNABLE", UNCHANGED table,
               \A q \in Proc : q # p => mapped'[q] = mapped[q]
        PROVE  FreeSlotsEmpty'
    BY <1>3 DEF table
  <1>4. ASSUME NEW p \in Proc,
               \/ \E n \in Increments : sbrk_grow(p, n) \/ sbrk_shrink(p, n)
               \/ grow_page(p) \/ grow_fails(p) \/ grow_done(p)
               \/ exec_page(p) \/ exec_fails(p) \/ exec_commit(p) \/ getadmin(p)
               \/ fork_no_sharep(p) \/ \E pages : At(p, "user") /\ BuildFor(p, pages)
               \/ \E q \in Proc, n \in Limits : setmemorylimit(p, q, n)
        PROVE  FreeSlotsEmpty'
    <2>1. /\ state[p] = "RUNNABLE" /\ UNCHANGED table
          /\ \A q \in Proc : q # p => mapped'[q] = mapped[q]
      BY <1>4 DEF sbrk_grow, sbrk_shrink, grow_page, grow_fails, grow_done, exec_page, exec_fails,
                  exec_commit, getadmin, fork_no_sharep, BuildFor, setmemorylimit, At
    <2> QED
      BY <2>1, <1>3
  <1>5. ASSUME NEW p \in Proc, NEW c \in Proc, fork(p, c) PROVE FreeSlotsEmpty'
    BY <1>5 DEF fork
  <1>6. ASSUME NEW p \in Proc, fork_kstack(p) \/ fork_setupkvm(p) \/ fork_page(p)
        PROVE  FreeSlotsEmpty'
    BY <1>6 DEF fork_kstack, fork_setupkvm, fork_page, table
  <1>7. ASSUME NEW p \in Proc, fork_fails(p) PROVE FreeSlotsEmpty'
    BY <1>7 DEF fork_fails
  <1>8. ASSUME NEW p \in Proc, fork_done(p) PROVE FreeSlotsEmpty'
    BY <1>8 DEF fork_done
  <1>9. ASSUME NEW p \in Proc, exit(p) \/ wait(p) PROVE FreeSlotsEmpty'
    BY <1>9 DEF exit, wait, At
  <1>10. CASE UNCHANGED vars
    BY <1>10 DEF vars, table
  <1> QED
    BY <1>4, <1>5, <1>6, <1>7, <1>8, <1>9, <1>10 DEF Next, exec, exec2

-----------------------------------------------------------------------------
(* Sizes and limits.                                                          *)

\* SizeIsMapped, one implication for each case.
Mapped(p) ==
    /\ l[p].pc = "grow" => Pages(sz[p]) <= mapped[p] /\ mapped[p] <= Pages(l[p].want)
    /\ l[p].pc = "fault" => mapped[p] = 0
    /\ l[p].pc \notin {"grow", "fault"} => mapped[p] = Pages(sz[p])

LEMMA SizeCases ==
  ASSUME ConstantsAssumption, FrameTypes
  PROVE  SizeIsMapped <=> \A p \in Proc : state[p] = "RUNNABLE" => Mapped(p)
  <1>1. ASSUME NEW p \in Proc
        PROVE  /\ Pages(sz[p]) \in Int /\ Pages(l[p].want) \in Int /\ mapped[p] \in Int
    BY PagesNat DEF FrameTypes, TableTypes, FrameLocals
  <1> QED
    BY <1>1 DEF SizeIsMapped, Mapped

Sizes == \A p \in Proc : state[p] = "RUNNABLE" => Mapped(p)

LEMMA SizesStep ==
  ASSUME ConstantsAssumption, FrameTypes, ForkOwnsChild, Sizes, [Next]_vars
  PROVE  Sizes'
  <1>1. TableTypes /\ l \in [Proc -> FrameLocals] /\ \A p \in Proc : l[p].child \in Proc
    BY DEF FrameTypes, FrameLocals
  <1>2. \A p \in Proc : /\ At(p, "kstack") => state[l[p].child] = "EMBRYO"
                        /\ At(p, "setupkvm") => state[l[p].child] = "EMBRYO"
                        /\ At(p, "copyuvm") => state[l[p].child] = "EMBRYO"
    BY DEF ForkOwnsChild, Forking, At
  <1>3. /\ \A n \in Nat : Pages(n) \in Nat
        /\ \A n \in Int : Uint(n) \in Nat
        /\ \A m, n \in Nat : m <= n => Pages(m) <= Pages(n)
        /\ Pages(0) = 0
    BY PagesNat, UintNat, PagesMonotone, PagesZero
  \* What a step does to a process other than the one it is about.
  <1>4. ASSUME NEW p \in Proc, Mapped(p)', UNCHANGED state,
               \A q \in Proc : q # p =>
                   mapped'[q] = mapped[q] /\ sz'[q] = sz[q] /\ l'[q] = l[q]
        PROVE  Sizes'
    BY <1>4 DEF Sizes, Mapped
  <1>5. ASSUME NEW p \in Proc, NEW n \in Increments, sbrk_grow(p, n) PROVE Sizes'
    <2> DEFINE f == [User EXCEPT !.pc = "grow", !.want = Uint(sz[p] + n)]
    <2>1. /\ Goto(p, f) /\ At(p, "user")
          /\ UNCHANGED <<state, mapped, sz>>
          /\ Uint(sz[p] + n) \in sz[p]..KERNBASE - 1
      BY <1>5 DEF sbrk_grow, table
    <2>2. f.pc = "grow" /\ f.want = Uint(sz[p] + n)
      BY Fields
    <2> HIDE DEF f
    <2>3. l'[p].pc = "grow" /\ l'[p].want = Uint(sz[p] + n) /\ \A q \in Proc : q # p => l'[q] = l[q]
      BY <2>1, <2>2, GotoEffect
    <2>4. sz[p] \in Nat /\ n \in Int
      BY <1>1 DEF TableTypes, ConstantsAssumption
    <2>5. sz[p] <= Uint(sz[p] + n) /\ Uint(sz[p] + n) \in Nat
      BY <2>1, <2>4, <1>3 DEF ConstantsAssumption
    <2>6. Pages(sz[p]) <= Pages(Uint(sz[p] + n)) /\ mapped[p] = Pages(sz[p]) /\ Pages(sz[p]) \in Nat
      BY <2>1, <2>4, <2>5, <1>3 DEF Sizes, Mapped, At
    <2> QED
      BY <1>4, <2>1, <2>3, <2>6 DEF Mapped
  <1>6. ASSUME NEW p \in Proc, NEW n \in Increments, sbrk_shrink(p, n) PROVE Sizes'
    <2> DEFINE size == Uint(sz[p] + n)
    <2>1. /\ At(p, "user") /\ UNCHANGED state
          /\ mapped' = [mapped EXCEPT ![p] = Pages(size)]
          /\ size # 0 => sz' = [sz EXCEPT ![p] = size] /\ Goto(p, User)
          /\ size = 0 => sz' = sz /\ Goto(p, [User EXCEPT !.pc = "fault"])
      BY <1>6, <1>1 DEF sbrk_shrink, table, TableTypes
    <2> HIDE DEF size
    <2>2. CASE size # 0
      <3>1. l'[p].pc = "user" /\ \A q \in Proc : q # p => l'[q] = l[q]
        BY <2>1, <2>2, GotoEffect, Fields
      <3> QED
        BY <1>1, <1>4, <2>1, <2>2, <3>1 DEF Mapped, TableTypes
    <2>3. CASE size = 0
      <3> DEFINE f == [User EXCEPT !.pc = "fault"]
      <3>a. Goto(p, f) /\ f.pc = "fault"
        BY <2>1, <2>3, Fields
      <3> HIDE DEF f
      <3>1. l'[p].pc = "fault" /\ \A q \in Proc : q # p => l'[q] = l[q]
        BY <3>a, GotoEffect
      <3>2. mapped'[p] = 0
        BY <1>1, <1>3, <2>1, <2>3 DEF TableTypes
      <3>3. Mapped(p)'
        BY <3>1, <3>2 DEF Mapped
      <3>4. \A q \in Proc : q # p => mapped'[q] = mapped[q] /\ sz'[q] = sz[q]
        BY <1>1, <2>1, <2>3 DEF TableTypes
      <3> QED
        BY <1>4, <2>1, <3>1, <3>3, <3>4
    <2> QED
      BY <2>2, <2>3
  <1>7. ASSUME NEW p \in Proc, grow_page(p) PROVE Sizes'
    BY <1>1, <1>3, <1>4, <1>7 DEF grow_page, table, At, Sizes, Mapped, TableTypes, FrameLocals
  <1>8. ASSUME NEW p \in Proc, grow_fails(p) \/ grow_done(p) PROVE Sizes'
    <2>1. l'[p].pc = "user" /\ \A q \in Proc : q # p => l'[q] = l[q]
      BY <1>8, GotoEffect, Fields DEF grow_fails, grow_done
    <2> QED
      BY <1>1, <1>4, <1>8, <2>1 DEF grow_fails, grow_done, table, At, Sizes, Mapped, TableTypes
  <1>9. ASSUME NEW p \in Proc, NEW c \in Proc, fork(p, c) PROVE Sizes'
    <2> DEFINE f == [User EXCEPT !.pc = "kstack", !.child = c]
    <2>1. /\ Goto(p, f) /\ At(p, "user") /\ UNCHANGED <<mapped, sz>>
          /\ state' = [state EXCEPT ![c] = "EMBRYO"]
      BY <1>9 DEF fork
    <2>2. f.pc = "kstack"
      BY Fields
    <2> HIDE DEF f
    <2>3. l'[p].pc = "kstack" /\ \A q \in Proc : q # p => l'[q] = l[q]
      BY <2>1, <2>2, GotoEffect
    <2> QED
      BY <1>1, <2>1, <2>3 DEF At, Sizes, Mapped, TableTypes
  <1>10. ASSUME NEW p \in Proc, fork_kstack(p) \/ fork_setupkvm(p) PROVE Sizes'
    <2>1. /\ \E f : Goto(p, f) /\ f.pc \notin {"grow", "fault"}
          /\ l[p].pc \notin {"grow", "fault"} /\ UNCHANGED <<state, mapped, sz>>
      BY <1>10, ForkFields DEF fork_kstack, fork_setupkvm, At, table
    <2>2. l'[p].pc \notin {"grow", "fault"} /\ \A q \in Proc : q # p => l'[q] = l[q]
      BY <2>1, GotoEffect
    <2> QED
      BY <2>1, <2>2 DEF Sizes, Mapped
  <1>11. ASSUME NEW p \in Proc, fork_page(p) PROVE Sizes'
    BY <1>1, <1>2, <1>11 DEF fork_page, table, Sizes, Mapped, TableTypes
  <1>12. ASSUME NEW p \in Proc, fork_fails(p) \/ fork_no_sharep(p) PROVE Sizes'
    <2>1. /\ l'[p].pc = "user" /\ \A q \in Proc : q # p => l'[q] = l[q]
          /\ l[p].pc \notin {"grow", "fault"} /\ state[p] = "RUNNABLE"
      BY <1>12, GotoEffect, Fields DEF fork_fails, fork_no_sharep, At
    <2>2. /\ \A q \in Proc : state'[q] = "RUNNABLE" =>
               state[q] = "RUNNABLE" /\ mapped'[q] = mapped[q]
          /\ UNCHANGED sz
      BY <1>1, <1>12 DEF fork_fails, fork_no_sharep, table, TableTypes
    <2> QED
      BY <2>1, <2>2 DEF Sizes, Mapped
  <1>13. ASSUME NEW p \in Proc, fork_done(p) PROVE Sizes'
    <2> DEFINE c == l[p].child
    <2>1. /\ At(p, "copyuvm") /\ mapped[c] = Pages(sz[p]) /\ UNCHANGED mapped
          /\ sz' = [sz EXCEPT ![c] = sz[p]]
          /\ state' = [state EXCEPT ![c] = "RUNNABLE"]
          /\ l' = [l EXCEPT ![p] = User, ![c] = User]
      BY <1>13 DEF fork_done
    <2>2. c \in Proc /\ state[c] = "EMBRYO" /\ state[p] = "RUNNABLE" /\ c # p
      BY <1>1, <1>2, <2>1 DEF At
    <2>3. mapped[p] = Pages(sz[p])
      BY <2>1 DEF Sizes, Mapped, At
    <2>4. l'[p].pc = "user" /\ l'[c].pc = "user" /\ \A q \in Proc \ {p, c} : l'[q] = l[q]
      BY <1>1, <2>1, <2>2, Fields
    <2> HIDE DEF c
    <2> QED
      BY <1>1, <2>1, <2>2, <2>3, <2>4 DEF Sizes, Mapped, TableTypes
  <1>14. ASSUME NEW p \in Proc, NEW pages, At(p, "user"), BuildFor(p, pages) PROVE Sizes'
    <2> DEFINE f == [User EXCEPT !.pc = "exec", !.want = pages * PGSIZE]
    <2>1. Goto(p, f) /\ l[p].pc = "user" /\ UNCHANGED <<state, mapped, sz>>
      BY <1>14 DEF BuildFor, At, table
    <2>a. f.pc = "exec"
      BY Fields
    <2> HIDE DEF f
    <2>2. l'[p].pc = "exec" /\ \A q \in Proc : q # p => l'[q] = l[q]
      BY <2>1, <2>a, GotoEffect
    <2> QED
      BY <2>1, <2>2 DEF Sizes, Mapped
  <1>15. ASSUME NEW p \in Proc, exec_page(p) \/ getadmin(p) PROVE Sizes'
    BY <1>15 DEF exec_page, getadmin, table, Sizes, Mapped
  <1>16. ASSUME NEW p \in Proc, exec_fails(p) PROVE Sizes'
    <2>1. l'[p].pc = "user" /\ \A q \in Proc : q # p => l'[q] = l[q]
      BY <1>16, GotoEffect, Fields DEF exec_fails
    <2> QED
      BY <1>16, <2>1 DEF exec_fails, table, At, Sizes, Mapped
  <1>17. ASSUME NEW p \in Proc, exec_commit(p) PROVE Sizes'
    <2>1. l'[p].pc = "user" /\ \A q \in Proc : q # p => l'[q] = l[q]
      BY <1>17, GotoEffect, Fields DEF exec_commit
    <2>2. /\ mapped' = [mapped EXCEPT ![p] = Pages(l[p].want)]
          /\ sz' = [sz EXCEPT ![p] = l[p].want] /\ UNCHANGED state
      BY <1>17 DEF exec_commit, table
    <2>3. mapped'[p] = Pages(sz'[p])
      BY <1>1, <2>2 DEF TableTypes
    <2>4. Mapped(p)'
      BY <2>1, <2>3 DEF Mapped
    <2> QED
      BY <1>1, <1>4, <2>1, <2>2, <2>4 DEF TableTypes
  <1>18. ASSUME NEW p \in Proc, exit(p) \/ wait(p) PROVE Sizes'
    BY <1>1, <1>18 DEF exit, wait, Sizes, Mapped, TableTypes
  <1>19. ASSUME NEW p \in Proc, NEW q \in Proc, NEW n, setmemorylimit(p, q, n) PROVE Sizes'
    BY <1>19 DEF setmemorylimit, table, Sizes, Mapped
  <1>20. CASE UNCHANGED vars
    BY <1>20 DEF vars, table, Sizes, Mapped
  <1> QED
    BY <1>5, <1>6, <1>7, <1>8, <1>9, <1>10, <1>11, <1>12, <1>13, <1>14, <1>15, <1>16, <1>17,
       <1>18, <1>19, <1>20 DEF Next, exec, exec2

LEMMA LimitsStep ==
  ASSUME ConstantsAssumption, FrameTypes, GrowsWithinLimit, LimitHolds, [Next]_vars
  PROVE  GrowsWithinLimit' /\ LimitHolds'
  <1>1. TableTypes /\ l \in [Proc -> FrameLocals]
        /\ \A p \in Proc : l[p].child \in Proc /\ l[p].want \in Nat
    BY DEF FrameTypes, FrameLocals
  <1> DEFINE Within(p) == limit[p] > 0 /\ sz[p] > limit[p] => p \in raced
             GrowsWithin(p) == l[p].pc = "grow" =>
                 limit[p] = 0 \/ l[p].want <= limit[p] \/ p \in raced
  <1>2. \A p \in Proc : state[p] = "RUNNABLE" => Within(p) /\ GrowsWithin(p)
    BY DEF LimitHolds, GrowsWithinLimit, At
  <1>3. SUFFICES \A p \in Proc : state'[p] = "RUNNABLE" => Within(p)' /\ GrowsWithin(p)'
    BY DEF LimitHolds, GrowsWithinLimit, At
  <1> DEFINE Goal == \A p \in Proc : state'[p] = "RUNNABLE" => Within(p)' /\ GrowsWithin(p)'
  \* A step that leaves sizes and limits alone and starts no growth.
  <1>4. ASSUME NEW p \in Proc, UNCHANGED <<sz, limit, raced>>,
               \A q \in Proc : state'[q] = "RUNNABLE" => state[q] = "RUNNABLE",
               l' = l \/ \E f : Goto(p, f) /\ f.pc # "grow"
        PROVE  Goal
    <2>1. /\ l'[p] = l[p] \/ l'[p].pc # "grow"
          /\ \A q \in Proc : q # p => l'[q] = l[q]
      BY <1>4, GotoEffect
    <2> QED
      BY <1>2, <1>4, <2>1
  <1>5. ASSUME NEW p \in Proc, NEW n \in Increments, sbrk_grow(p, n) PROVE Goal
    <2> DEFINE f == [User EXCEPT !.pc = "grow", !.want = Uint(sz[p] + n)]
    <2>1. /\ Goto(p, f) /\ At(p, "user") /\ WithinLimit(p, n)
          /\ UNCHANGED <<state, sz, limit, raced>>
      BY <1>5 DEF sbrk_grow, table, rights
    <2>2. f.want = Uint(sz[p] + n)
      BY Fields
    <2> HIDE DEF f
    <2>3. l'[p].want = Uint(sz[p] + n) /\ \A q \in Proc : q # p => l'[q] = l[q]
      BY <2>1, <2>2, GotoEffect
    <2> QED
      BY <1>2, <2>1, <2>3 DEF WithinLimit
  <1>6. ASSUME NEW p \in Proc, NEW n \in Increments, sbrk_shrink(p, n) PROVE Goal
    <2>1. /\ At(p, "user") /\ WithinLimit(p, n) /\ UNCHANGED <<state, limit, raced>>
          /\ sz' = sz \/ sz' = [sz EXCEPT ![p] = Uint(sz[p] + n)]
          /\ \E f : Goto(p, f) /\ f.pc # "grow"
      BY <1>1, <1>6, Fields DEF sbrk_shrink, table, rights, TableTypes
    <2>2. l'[p].pc # "grow" /\ \A q \in Proc : q # p => l'[q] = l[q]
      BY <2>1, GotoEffect
    <2>3. Uint(sz[p] + n) \in Nat
      BY <1>1, UintNat DEF ConstantsAssumption, TableTypes
    <2> QED
      BY <1>1, <1>2, <2>1, <2>2, <2>3 DEF WithinLimit, At, TableTypes
  <1>7. ASSUME NEW p \in Proc,
               \/ grow_page(p) \/ grow_fails(p) \/ fork_page(p) \/ fork_fails(p)
               \/ fork_no_sharep(p) \/ exec_page(p) \/ exec_fails(p) \/ getadmin(p)
               \/ exit(p) \/ wait(p)
        PROVE  Goal
    <2>1. UNCHANGED <<sz, limit, raced>> /\ (l' = l \/ Goto(p, User))
      BY <1>7 DEF grow_page, grow_fails, fork_page, fork_fails, fork_no_sharep, exec_page,
                  exec_fails, getadmin, exit, wait, rights
    <2>2. \A q \in Proc : state'[q] = "RUNNABLE" => state[q] = "RUNNABLE"
      BY <1>1, <1>7 DEF grow_page, grow_fails, fork_page, fork_fails, fork_no_sharep, exec_page,
                  exec_fails, getadmin, exit, wait, table, TableTypes
    <2> QED
      BY <1>4, <2>1, <2>2, Fields
  <1>8. ASSUME NEW p \in Proc, grow_done(p) PROVE Goal
    <2>1. l'[p].pc = "user" /\ \A q \in Proc : q # p => l'[q] = l[q]
      BY <1>8, GotoEffect, Fields DEF grow_done
    <2>2. /\ At(p, "grow") /\ sz' = [sz EXCEPT ![p] = l[p].want]
          /\ UNCHANGED <<state, limit, raced>>
      BY <1>8 DEF grow_done, table, rights
    <2> QED
      BY <1>1, <1>2, <2>1, <2>2 DEF At, TableTypes
  <1>9. ASSUME NEW p \in Proc, NEW c \in Proc, fork(p, c) PROVE Goal
    <2> DEFINE f == [User EXCEPT !.pc = "kstack", !.child = c]
    <2>1. /\ Goto(p, f) /\ state' = [state EXCEPT ![c] = "EMBRYO"]
          /\ limit' = [limit EXCEPT ![c] = 0] /\ UNCHANGED <<sz, raced>>
      BY <1>9 DEF fork
    <2>2. f.pc = "kstack"
      BY Fields
    <2> HIDE DEF f
    <2>3. l'[p].pc = "kstack" /\ \A q \in Proc : q # p => l'[q] = l[q]
      BY <2>1, <2>2, GotoEffect
    <2> QED
      BY <1>1, <1>2, <2>1, <2>3 DEF TableTypes
  <1>10. ASSUME NEW p \in Proc, fork_kstack(p) \/ fork_setupkvm(p) PROVE Goal
    <2>1. /\ \E f : Goto(p, f) /\ f.pc # "grow" /\ UNCHANGED <<state, sz, limit, raced>>
      BY <1>10, ForkFields DEF fork_kstack, fork_setupkvm, table, rights
    <2> QED
      BY <1>4, <2>1
  <1>11. ASSUME NEW p \in Proc, fork_done(p) PROVE Goal
    <2> DEFINE c == l[p].child
    <2>1. /\ At(p, "copyuvm") /\ c \in Proc
          /\ sz' = [sz EXCEPT ![c] = sz[p]]
          /\ limit' = [limit EXCEPT ![c] = limit[p]]
          /\ raced' = IF p \in raced THEN raced \union {c} ELSE raced \ {c}
          /\ state' = [state EXCEPT ![c] = "RUNNABLE"]
          /\ l' = [l EXCEPT ![p] = User, ![c] = User]
      BY <1>1, <1>11 DEF fork_done
    <2>2. l'[p].pc = "user" /\ l'[c].pc = "user" /\ \A q \in Proc \ {p, c} : l'[q] = l[q]
      BY <1>1, <2>1, Fields
    <2> HIDE DEF c
    <2> QED
      BY <1>1, <1>2, <2>1, <2>2 DEF At, TableTypes
  <1>12. ASSUME NEW p \in Proc, NEW pages, BuildFor(p, pages) PROVE Goal
    <2> DEFINE f == [User EXCEPT !.pc = "exec", !.want = pages * PGSIZE]
    <2>1. Goto(p, f) /\ UNCHANGED <<state, sz, limit, raced>>
      BY <1>12 DEF BuildFor, table, rights
    <2>2. f.pc = "exec"
      BY Fields
    <2> HIDE DEF f
    <2> QED
      BY <1>4, <2>1, <2>2
  <1>13. ASSUME NEW p \in Proc, exec_commit(p) PROVE Goal
    <2>1. l'[p].pc = "user" /\ \A q \in Proc : q # p => l'[q] = l[q]
      BY <1>13, GotoEffect, Fields DEF exec_commit
    <2>2. /\ sz' = [sz EXCEPT ![p] = l[p].want] /\ limit' = [limit EXCEPT ![p] = 0]
          /\ raced' = raced \ {p} /\ UNCHANGED state
      BY <1>13 DEF exec_commit, table
    <2> QED
      BY <1>1, <1>2, <2>1, <2>2 DEF TableTypes
  <1>14. ASSUME NEW p \in Proc, NEW q \in Proc, NEW n \in Limits, setmemorylimit(p, q, n)
         PROVE  Goal
    <2>1. /\ sz[q] <= n \/ n = 0
          /\ limit' = [limit EXCEPT ![q] = n]
          /\ raced' = IF n # 0 /\ At(q, "grow") THEN raced \union {q} ELSE raced \ {q}
          /\ UNCHANGED <<state, sz, l>> /\ n \in Nat
      BY <1>14 DEF setmemorylimit, table, ConstantsAssumption
    <2> QED
      BY <1>1, <1>2, <2>1 DEF At, TableTypes
  <1>15. CASE UNCHANGED vars
    BY <1>2, <1>15 DEF vars, table, rights
  <1> QED
    BY <1>5, <1>6, <1>7, <1>8, <1>9, <1>10, <1>11, <1>12, <1>13, <1>14, <1>15
       DEF Next, exec, exec2

-----------------------------------------------------------------------------
(* The theorems.                                                              *)

-----------------------------------------------------------------------------
(* What the slots hold.                                                       *)

\* The child of a fork is nobody's but that fork's.
LEMMA Children ==
  ASSUME FrameTypes, ForkOwnsChild, NEW p \in Proc, At(p, "kstack") \/ At(p, "setupkvm") \/ At(p, "copyuvm")
  PROVE  /\ l[p].child \in Proc /\ l[p].child # p /\ state[l[p].child] = "EMBRYO"
         /\ \A q \in Proc : /\ At(q, "kstack") \/ At(q, "setupkvm") \/ At(q, "copyuvm")
                            /\ q # p
                            => l[q].child # l[p].child
  <1>1. state[p] = "RUNNABLE" /\ l[p].pc \in Forking
    BY DEF At, Forking
  <1>2. l[p].child \in Proc
    BY DEF FrameTypes, FrameLocals
  <1>3. state[l[p].child] = "EMBRYO"
    BY <1>1 DEF ForkOwnsChild
  <1>4. ASSUME NEW q \in Proc, At(q, "kstack") \/ At(q, "setupkvm") \/ At(q, "copyuvm"), q # p
        PROVE  l[q].child # l[p].child
    <2>1. state[q] = "RUNNABLE" /\ l[q].pc \in Forking
      BY <1>4 DEF At, Forking
    <2> QED
      BY <1>1, <1>4, <2>1 DEF ForkOwnsChild
  <1> QED
    BY <1>1, <1>2, <1>3, <1>4

\* A step of p that leaves the table alone and is none of a fork.
LEMMA OwnStep ==
  ASSUME FrameTypes, Holdings, NEW p \in Proc, state[p] = "RUNNABLE", UNCHANGED table,
         l'[p] = l[p] \/ l'[p].pc \notin Forking,
         \A q \in Proc : q # p => /\ l'[q] = l[q] /\ building'[q] = building[q]
                                  /\ mapped'[q] = mapped[q],
         mapped'[p] \in Nat, building'[p] \in Nat,
         l'[p].pc # "exec" => building'[p] = 0
  PROVE  Holdings'
  BY DEF Holdings, At, table, Forking

LEMMA HoldingsStep ==
  ASSUME ConstantsAssumption, FrameTypes, ForkOwnsChild, FreeSlotsEmpty, Holdings, [Next]_vars
  PROVE  Holdings'
  <1>1. TableTypes /\ \A p \in Proc : l[p].child \in Proc /\ l[p].want \in Nat
    BY DEF FrameTypes, FrameLocals
  <1>2. /\ \A n \in Nat : Pages(n) \in Nat
        /\ \A n \in Int : Uint(n) \in Nat
    BY PagesNat, UintNat
  <1>3. Increments \subseteq Int
    BY DEF ConstantsAssumption
  <1>4. ASSUME NEW p \in Proc, NEW n \in Increments, sbrk_grow(p, n) PROVE Holdings'
    <2> DEFINE f == [User EXCEPT !.pc = "grow", !.want = Uint(sz[p] + n)]
    <2>a. Goto(p, f) /\ f.pc = "grow" /\ At(p, "user") /\ UNCHANGED <<table, mapped, building>>
      BY <1>4, Fields DEF sbrk_grow
    <2> HIDE DEF f
    <2>1. /\ l'[p].pc = "grow" /\ \A q \in Proc : q # p => l'[q] = l[q]
          /\ At(p, "user") /\ UNCHANGED <<table, mapped, building>>
      BY <2>a, GotoEffect
    <2>2. "grow" \notin Forking /\ "grow" # "exec" /\ state[p] = "RUNNABLE" /\ building[p] = 0
      BY <2>1 DEF Forking, At, Holdings
    <2> QED
      BY <2>1, <2>2, OwnStep DEF Holdings
  <1>5. ASSUME NEW p \in Proc, NEW n \in Increments, sbrk_shrink(p, n) PROVE Holdings'
    <2> DEFINE f == IF Uint(sz[p] + n) = 0 THEN [User EXCEPT !.pc = "fault"] ELSE User
    <2>a. /\ Goto(p, f) /\ f.pc \in {"user", "fault"} /\ At(p, "user") /\ UNCHANGED <<table, building>>
          /\ mapped' = [mapped EXCEPT ![p] = Pages(Uint(sz[p] + n))]
      BY <1>5, Fields DEF sbrk_shrink
    <2> HIDE DEF f
    <2>1. /\ l'[p].pc \in {"user", "fault"} /\ \A q \in Proc : q # p => l'[q] = l[q]
          /\ At(p, "user") /\ UNCHANGED <<table, building>>
          /\ mapped' = [mapped EXCEPT ![p] = Pages(Uint(sz[p] + n))]
      BY <2>a, GotoEffect
    <2>2. l'[p].pc \notin Forking /\ l'[p].pc # "exec" /\ state[p] = "RUNNABLE" /\ building[p] = 0
      BY <2>1 DEF Forking, At, Holdings
    <2>3. Pages(Uint(sz[p] + n)) \in Nat
      BY <1>1, <1>2, <1>3 DEF TableTypes
    <2>4. mapped'[p] \in Nat /\ \A q \in Proc : q # p => mapped'[q] = mapped[q]
      BY <1>1, <2>1, <2>3 DEF TableTypes
    <2> QED
      BY <2>1, <2>2, <2>4, OwnStep DEF Holdings
  <1>6. ASSUME NEW p \in Proc, grow_page(p) \/ grow_fails(p) \/ grow_done(p) PROVE Holdings'
    <2>1. /\ l' = l \/ Goto(p, User)
          /\ At(p, "grow") /\ UNCHANGED <<table, building>>
          /\ mapped' = mapped \/ \E n \in Nat : mapped' = [mapped EXCEPT ![p] = n]
      BY <1>1, <1>2, <1>6 DEF grow_page, grow_fails, grow_done, TableTypes, Holdings
    <2>2. /\ l'[p] = l[p] \/ l'[p].pc = "user"
          /\ \A q \in Proc : q # p => l'[q] = l[q]
      BY <2>1, GotoEffect, Fields
    <2>3. /\ l'[p] = l[p] \/ l'[p].pc \notin Forking
          /\ state[p] = "RUNNABLE" /\ building[p] = 0
      BY <2>1, <2>2 DEF Forking, At, Holdings
    <2>4. mapped'[p] \in Nat /\ \A q \in Proc : q # p => mapped'[q] = mapped[q]
      BY <1>1, <2>1 DEF TableTypes, Holdings
    <2> QED
      BY <2>1, <2>2, <2>3, <2>4, OwnStep DEF Holdings
  <1>7. ASSUME NEW p \in Proc, NEW c \in Proc, fork(p, c) PROVE Holdings'
    <2> DEFINE f == [User EXCEPT !.pc = "kstack", !.child = c]
    <2>a. Goto(p, f) /\ f.pc = "kstack" /\ f.child = c
      BY <1>7, Fields DEF fork
    <2> HIDE DEF f
    <2>1. /\ l'[p].pc = "kstack" /\ l'[p].child = c /\ \A q \in Proc : q # p => l'[q] = l[q]
          /\ At(p, "user") /\ state[c] = "UNUSED"
          /\ state' = [state EXCEPT ![c] = "EMBRYO"] /\ sharep' = sharep \ {c}
          /\ UNCHANGED <<kstack, pgdir, mapped, building>>
      BY <1>7, <2>a, GotoEffect DEF fork
    <2>2. \A q \in Proc : state'[q] = IF q = c THEN "EMBRYO" ELSE state[q]
      BY <1>1, <2>1 DEF TableTypes
    <2>3. c \notin kstack /\ c \notin pgdir
      BY <2>1 DEF FreeSlotsEmpty
    <2> QED
      BY <2>1, <2>2, <2>3 DEF Holdings, At
  <1>8. ASSUME NEW p \in Proc, fork_kstack(p) PROVE Holdings'
    <2> DEFINE f == [l[p] EXCEPT !.pc = "setupkvm"]
    <2>a. Goto(p, f) /\ f.pc = "setupkvm" /\ f.child = l[p].child
      BY <1>8, ForkFields DEF fork_kstack
    <2> HIDE DEF f
    <2>1. /\ l'[p].pc = "setupkvm" /\ l'[p].child = l[p].child
          /\ \A q \in Proc : q # p => l'[q] = l[q]
          /\ At(p, "kstack") /\ kstack' = kstack \union {l[p].child}
          /\ UNCHANGED <<state, pgdir, sharep, mapped, building>>
      BY <1>8, <2>a, GotoEffect DEF fork_kstack
    <2>2. \A q \in Proc : q # p /\ At(q, "kstack") => l[q].child # l[p].child
      BY <2>1, Children
    <2> QED
      BY <2>1, <2>2 DEF Holdings, At
  <1>9. ASSUME NEW p \in Proc, fork_setupkvm(p) PROVE Holdings'
    <2> DEFINE f == [l[p] EXCEPT !.pc = "copyuvm"]
    <2>a. Goto(p, f) /\ f.pc = "copyuvm" /\ f.child = l[p].child
      BY <1>9, ForkFields DEF fork_setupkvm
    <2> HIDE DEF f
    <2>1. /\ l'[p].pc = "copyuvm" /\ l'[p].child = l[p].child
          /\ \A q \in Proc : q # p => l'[q] = l[q]
          /\ At(p, "setupkvm") /\ pgdir' = pgdir \union {l[p].child}
          /\ UNCHANGED <<state, kstack, sharep, mapped, building>>
      BY <1>9, <2>a, GotoEffect DEF fork_setupkvm
    <2>2. \A q \in Proc : q # p /\ (At(q, "kstack") \/ At(q, "setupkvm")) => l[q].child # l[p].child
      BY <2>1, Children
    <2> QED
      BY <2>1, <2>2 DEF Holdings, At
  <1>10. ASSUME NEW p \in Proc, fork_page(p) PROVE Holdings'
    <2>1. /\ UNCHANGED <<table, building, l>>
          /\ mapped' = [mapped EXCEPT ![l[p].child] = @ + 1]
      BY <1>10 DEF fork_page
    <2>2. \A q \in Proc : mapped'[q] \in Nat
      BY <1>1, <2>1 DEF TableTypes, Holdings
    <2> QED
      BY <2>1, <2>2 DEF Holdings, At, table
  <1>11. ASSUME NEW p \in Proc, fork_fails(p) PROVE Holdings'
    <2>1. PICK c : c = l[p].child
      OBVIOUS
    <2>2. /\ At(p, "kstack") \/ At(p, "setupkvm") \/ At(p, "copyuvm")
          /\ state' = [state EXCEPT ![c] = "UNUSED"]
          /\ kstack' = kstack \ {c} /\ pgdir' = pgdir \ {c}
          /\ mapped' = [mapped EXCEPT ![c] = 0]
          /\ l'[p].pc = "user" /\ \A q \in Proc : q # p => l'[q] = l[q]
          /\ UNCHANGED <<sharep, building>>
      BY <1>11, <2>1, GotoEffect, Fields DEF fork_fails
    <2>3. /\ c \in Proc /\ c # p /\ state[c] = "EMBRYO"
          /\ \A q \in Proc : /\ At(q, "kstack") \/ At(q, "setupkvm") \/ At(q, "copyuvm")
                             /\ q # p
                             => l[q].child # c
      BY <2>1, <2>2, Children
    <2>4. \A q \in Proc : /\ state'[q] = IF q = c THEN "UNUSED" ELSE state[q]
                          /\ mapped'[q] = IF q = c THEN 0 ELSE mapped[q]
      BY <1>1, <2>2 DEF TableTypes
    <2>5. building[p] = 0 /\ state[p] = "RUNNABLE"
      BY <2>2 DEF Holdings, At
    <2> QED
      BY <2>2, <2>3, <2>4, <2>5 DEF Holdings, At
  <1>12. ASSUME NEW p \in Proc, fork_done(p) PROVE Holdings'
    <2>1. PICK c : c = l[p].child
      OBVIOUS
    <2>2. /\ At(p, "copyuvm") /\ sharep' = sharep \union {c}
          /\ state' = [state EXCEPT ![c] = "RUNNABLE"]
          /\ UNCHANGED <<kstack, pgdir, mapped, building>>
          /\ l' = [l EXCEPT ![p] = User, ![c] = User]
      BY <1>12, <2>1 DEF fork_done
    <2>3. c \in Proc /\ c # p /\ state[c] = "EMBRYO"
      BY <2>1, <2>2, Children
    <2>4. /\ \A q \in Proc : state'[q] = IF q = c THEN "RUNNABLE" ELSE state[q]
          /\ l'[p].pc = "user" /\ l'[c].pc = "user" /\ \A q \in Proc : q # p /\ q # c => l'[q] = l[q]
      BY <1>1, <2>2, <2>3, Fields DEF FrameTypes, TableTypes
    <2>5. building[p] = 0 /\ building[c] = 0 /\ c \in kstack /\ c \in pgdir
      BY <2>1, <2>2, <2>3 DEF Holdings, At
    <2>6. \A q \in Proc : ~At(q, "exec")' => building'[q] = 0
      BY <2>2, <2>4, <2>5 DEF Holdings, At
    <2>7. \A q \in Proc : state'[q] = "RUNNABLE" => q \in kstack' /\ q \in pgdir' /\ q \in sharep'
      BY <2>2, <2>4, <2>5 DEF Holdings
    <2>8. ASSUME NEW q \in Proc
          PROVE  /\ At(q, "kstack")' => At(q, "kstack") /\ l'[q].child = l[q].child
                 /\ At(q, "setupkvm")' => At(q, "setupkvm") /\ l'[q].child = l[q].child
                 /\ At(q, "copyuvm")' => At(q, "copyuvm") /\ l'[q].child = l[q].child
      BY <2>4 DEF At
    <2>9. ASSUME NEW q \in Proc
          PROVE  /\ At(q, "kstack")' => l'[q].child \notin kstack'
                 /\ At(q, "kstack")' \/ At(q, "setupkvm")' => l'[q].child \notin pgdir'
                 /\ At(q, "setupkvm")' \/ At(q, "copyuvm")' => l'[q].child \in kstack'
                 /\ At(q, "copyuvm")' => l'[q].child \in pgdir'
      <3>1. kstack' = kstack /\ pgdir' = pgdir
        BY <2>2
      <3> QED
        BY <2>8, <3>1 DEF Holdings
    <2>10. \A q \in Proc : mapped'[q] \in Nat /\ building'[q] \in Nat
      BY <2>2 DEF Holdings
    <2> QED
      BY <2>6, <2>7, <2>9, <2>10 DEF Holdings
  <1>13. ASSUME NEW p \in Proc, fork_no_sharep(p) PROVE Holdings'
    <2>1. /\ l'[p].pc = "user" /\ \A q \in Proc : q # p => l'[q] = l[q]
          /\ At(p, "copyuvm") /\ UNCHANGED <<table, mapped, building>>
      BY <1>13, GotoEffect, Fields DEF fork_no_sharep
    <2>2. l'[p].pc \notin Forking /\ l'[p].pc # "exec" /\ state[p] = "RUNNABLE" /\ building[p] = 0
      BY <2>1 DEF Forking, At, Holdings
    <2> QED
      BY <2>1, <2>2, OwnStep DEF Holdings
  <1>14. ASSUME NEW p \in Proc, NEW pages, At(p, "user"), BuildFor(p, pages) PROVE Holdings'
    <2> DEFINE f == [User EXCEPT !.pc = "exec", !.want = pages * PGSIZE]
    <2>a. Goto(p, f) /\ f.pc = "exec" /\ UNCHANGED <<table, mapped, building>>
      BY <1>14, Fields DEF BuildFor
    <2> HIDE DEF f
    <2>1. /\ l'[p].pc = "exec" /\ \A q \in Proc : q # p => l'[q] = l[q]
          /\ UNCHANGED <<table, mapped, building>>
      BY <2>a, GotoEffect
    <2>2. l'[p].pc \notin Forking /\ state[p] = "RUNNABLE"
      BY <1>14, <2>1 DEF Forking, At
    <2> QED
      BY <2>1, <2>2, OwnStep DEF Holdings
  <1>15. ASSUME NEW p \in Proc, exec_page(p) PROVE Holdings'
    <2>1. /\ At(p, "exec") /\ UNCHANGED <<table, mapped, l>>
          /\ building' = [building EXCEPT ![p] = @ + 1]
      BY <1>15 DEF exec_page
    <2>2. building'[p] \in Nat /\ \A q \in Proc : q # p => building'[q] = building[q]
      BY <1>1, <2>1 DEF TableTypes, Holdings
    <2>3. l'[p].pc = "exec" /\ state[p] = "RUNNABLE"
      BY <2>1 DEF At
    <2> QED
      BY <2>1, <2>2, <2>3, OwnStep DEF Holdings
  <1>16. ASSUME NEW p \in Proc, exec_fails(p) \/ exec_commit(p) PROVE Holdings'
    <2>1. /\ At(p, "exec") /\ UNCHANGED table
          /\ building' = [building EXCEPT ![p] = 0]
          /\ mapped' = mapped \/ mapped' = [mapped EXCEPT ![p] = building[p]]
          /\ l'[p].pc = "user" /\ \A q \in Proc : q # p => l'[q] = l[q]
      BY <1>16, GotoEffect, Fields DEF exec_fails, exec_commit
    <2>2. building'[p] = 0 /\ \A q \in Proc : q # p => building'[q] = building[q]
      BY <1>1, <2>1 DEF TableTypes
    <2>3. mapped'[p] \in Nat /\ \A q \in Proc : q # p => mapped'[q] = mapped[q]
      BY <1>1, <2>1 DEF TableTypes, Holdings
    <2>4. l'[p].pc \notin Forking /\ state[p] = "RUNNABLE"
      BY <2>1 DEF At, Forking
    <2> QED
      BY <2>1, <2>2, <2>3, <2>4, OwnStep
  <1>17. ASSUME NEW p \in Proc, exit(p) PROVE Holdings'
    <2>1. /\ At(p, "user") \/ At(p, "fault")
          /\ state' = [state EXCEPT ![p] = "ZOMBIE"] /\ sharep' = sharep \ {p}
          /\ UNCHANGED <<kstack, pgdir, mapped, building, l>>
      BY <1>17 DEF exit
    <2>2. \A q \in Proc : state'[q] = IF q = p THEN "ZOMBIE" ELSE state[q]
      BY <1>1, <2>1 DEF TableTypes
    <2>3. building[p] = 0
      BY <2>1 DEF Holdings, At
    <2> QED
      BY <2>1, <2>2, <2>3 DEF Holdings, At
  <1>18. ASSUME NEW p \in Proc, wait(p) PROVE Holdings'
    <2>1. /\ state[p] = "ZOMBIE" /\ state' = [state EXCEPT ![p] = "UNUSED"]
          /\ kstack' = kstack \ {p} /\ pgdir' = pgdir \ {p}
          /\ mapped' = [mapped EXCEPT ![p] = 0]
          /\ UNCHANGED <<sharep, building, l>>
      BY <1>18 DEF wait
    <2>2. \A q \in Proc : /\ state'[q] = IF q = p THEN "UNUSED" ELSE state[q]
                          /\ mapped'[q] = IF q = p THEN 0 ELSE mapped[q]
      BY <1>1, <2>1 DEF TableTypes
    <2>3. \A q \in Proc : At(q, "kstack") \/ At(q, "setupkvm") \/ At(q, "copyuvm") => l[q].child # p
      BY <2>1, Children
    <2> QED
      BY <2>1, <2>2, <2>3 DEF Holdings, At
  <1>19. ASSUME NEW p \in Proc,
                getadmin(p) \/ \E q \in Proc, n \in Limits : setmemorylimit(p, q, n)
         PROVE  Holdings'
    BY <1>19 DEF getadmin, setmemorylimit, table, Holdings, At
  <1>20. CASE UNCHANGED vars
    BY <1>20 DEF vars, Holdings, At
  <1> QED
    BY <1>4, <1>5, <1>6, <1>7, <1>8, <1>9, <1>10, <1>11, <1>12, <1>13, <1>14, <1>15, <1>16, <1>17,
       <1>18, <1>19, <1>20 DEF Next, exec, exec2

-----------------------------------------------------------------------------
(* Frames: none is lost and none is given out twice.                          *)

LEMMA FramesOfSlot ==
  ASSUME NEW p, NEW n \in Nat
  PROVE  IsFiniteSet({p} \X (1..n)) /\ Cardinality({p} \X (1..n)) = n
  <1>1. IsFiniteSet({p}) /\ Cardinality({p}) = 1
    BY FS_Singleton
  <1>2. IsFiniteSet(1..n) /\ Cardinality(1..n) = n
    BY FS_Interval
  <1>3. /\ IsFiniteSet({p} \X (1..n))
        /\ Cardinality({p} \X (1..n)) = Cardinality({p}) * Cardinality(1..n)
    BY <1>1, <1>2, FS_Product
  <1> QED
    BY <1>1, <1>2, <1>3

\* One slot takes or gives back frames.
LEMMA OneSlotChanges ==
  ASSUME NEW u \in [Proc -> Nat], NEW w \in [Proc -> Nat], NEW p \in Proc,
         \A q \in Proc : q # p => w[q] = u[q], IsFiniteSet(Taken(u))
  PROVE  /\ IsFiniteSet(Taken(w)) /\ Cardinality(Taken(u)) \in Nat
         /\ Cardinality(Taken(w)) = Cardinality(Taken(u)) - u[p] + w[p]
  <1> DEFINE rest == {x \in Taken(u) : x[1] # p}
             old == {p} \X (1..u[p])
             new == {p} \X (1..w[p])
  <1>1. \A q \in Proc : u[q] \in Nat /\ w[q] \in Nat
    OBVIOUS
  <1>2. \A x : x \in Taken(u) <=> \E q \in Proc : x \in {q} \X (1..u[q])
    BY DEF Taken
  <1>3. \A x : x \in Taken(w) <=> \E q \in Proc : x \in {q} \X (1..w[q])
    BY DEF Taken
  <1>4. \A q, n, x : x \in {q} \X (1..n) => x[1] = q
    OBVIOUS
  <1>5. Taken(u) = rest \union old /\ rest \intersect old = {}
    BY <1>2, <1>4
  <1>6. Taken(w) = rest \union new /\ rest \intersect new = {}
    BY <1>2, <1>3, <1>4
  <1>7. /\ IsFiniteSet(old) /\ Cardinality(old) = u[p]
        /\ IsFiniteSet(new) /\ Cardinality(new) = w[p]
    BY <1>1, FramesOfSlot
  <1>8. IsFiniteSet(rest)
    BY FS_Subset
  <1> HIDE DEF rest, old, new
  <1>9. Cardinality({}) = 0
    BY FS_EmptySet
  <1>10. Cardinality(Taken(u)) = Cardinality(rest) + Cardinality(old) - 0
    <2>1. Cardinality(rest \union old) =
            Cardinality(rest) + Cardinality(old) - Cardinality(rest \intersect old)
      BY <1>7, <1>8, FS_Union
    <2> QED
      BY <1>5, <1>9, <2>1
  <1>11. /\ IsFiniteSet(Taken(w))
         /\ Cardinality(Taken(w)) = Cardinality(rest) + Cardinality(new) - 0
    BY <1>6, <1>7, <1>8, <1>9, FS_Union
  <1>12. Cardinality(rest) \in Nat
    BY <1>8, FS_CardinalityType
  <1> QED
    BY <1>1, <1>7, <1>10, <1>11, <1>12

Counted == /\ free \in Int /\ IsFiniteSet(Taken(Using))
           /\ free + Cardinality(Taken(Using)) = Frames

LEMMA InUseNat ==
  ASSUME ConstantsAssumption, Holdings
  PROVE  \A p \in Proc : Held(p) \in Nat /\ InUse(p) \in Nat
  BY DEF ConstantsAssumption, Holdings, Held, InUse

LEMMA InUseNatNext ==
  ASSUME ConstantsAssumption, Holdings'
  PROVE  \A p \in Proc : InUse(p)' \in Nat
  <1>1. DirFrames \in Nat
    BY DEF ConstantsAssumption
  <1>2. \A p \in Proc : mapped'[p] \in Nat /\ building'[p] \in Nat
    BY DEF Holdings
  <1> QED
    BY <1>1, <1>2 DEF Held, InUse

\* What p has more or less, the free list has less or more.
Exchanges(p) ==
    /\ free' = free + InUse(p) - InUse(p)'
    /\ \A q \in Proc : q # p => InUse(q)' = InUse(q)

LEMMA CountedStep ==
  ASSUME ConstantsAssumption, Holdings, Holdings', Counted, NEW p \in Proc, Exchanges(p)
  PROVE  Counted'
  <1>0. PICK u, w : u = [q \in Proc |-> InUse(q)] /\ w = [q \in Proc |-> InUse(q)']
    OBVIOUS
  <1>1. u \in [Proc -> Nat] /\ w \in [Proc -> Nat]
    BY <1>0, InUseNat, InUseNatNext
  <1>2. \A q \in Proc : u[q] = InUse(q) /\ w[q] = InUse(q)'
    BY <1>0
  <1>3. u = Using /\ w = Using'
    BY <1>0 DEF Using
  <1>4. IsFiniteSet(Taken(u)) /\ free \in Int /\ free + Cardinality(Taken(u)) = Frames
    BY <1>3 DEF Counted
  <1>5. /\ IsFiniteSet(Taken(w)) /\ Cardinality(Taken(u)) \in Nat
        /\ Cardinality(Taken(w)) = Cardinality(Taken(u)) - u[p] + w[p]
    <2>1. \A q \in Proc : q # p => w[q] = u[q]
      BY <1>2 DEF Exchanges
    <2> QED
      BY <1>1, <1>4, <2>1, OneSlotChanges
  <1>6. free' = free + u[p] - w[p]
    BY <1>2 DEF Exchanges
  <1>7. u[p] \in Nat /\ w[p] \in Nat
    BY <1>1
  <1>8. free' \in Int /\ free' + Cardinality(Taken(w)) = Frames
    BY <1>4, <1>5, <1>6, <1>7
  <1>9. Taken(Using)' = Taken(w)
    BY <1>3 DEF Taken
  <1> QED
    BY <1>5, <1>8, <1>9 DEF Counted

\* The parts of InUse, for a process and after a step.
LEMMA InUseParts ==
  ASSUME NEW p \in Proc
  PROVE  /\ InUse(p) = (IF p \in kstack THEN 1 ELSE 0) + (IF p \in pgdir THEN DirFrames ELSE 0)
                       + mapped[p] + (IF p \in sharep THEN 1 ELSE 0)
                       + (IF state[p] = "RUNNABLE" /\ l[p].pc = "exec" THEN DirFrames + building[p] ELSE 0)
         /\ InUse(p)' = (IF p \in kstack' THEN 1 ELSE 0) + (IF p \in pgdir' THEN DirFrames ELSE 0)
                        + mapped'[p] + (IF p \in sharep' THEN 1 ELSE 0)
                        + (IF state'[p] = "RUNNABLE" /\ l'[p].pc = "exec" THEN DirFrames + building'[p] ELSE 0)
  BY DEF InUse, Held, At

\* A step of p on its own pages, outside exec or within it.
LEMMA OwnPages ==
  ASSUME ConstantsAssumption, FrameTypes, Holdings, Counted, NEW p \in Proc, UNCHANGED table,
         \A q \in Proc : q # p => l'[q] = l[q] /\ mapped'[q] = mapped[q] /\ building'[q] = building[q],
         mapped'[p] \in Nat, building'[p] \in Nat,
         l[p].pc = "exec" <=> l'[p].pc = "exec",
         free' = free + mapped[p] - mapped'[p] + building[p] - building'[p],
         l[p].pc # "exec" => building'[p] = building[p], state[p] = "RUNNABLE"
  PROVE  Exchanges(p)
  <1>1. DirFrames \in Nat /\ mapped[p] \in Nat /\ building[p] \in Nat /\ free \in Int
    BY DEF ConstantsAssumption, Holdings, Counted
  <1>2. ASSUME NEW q \in Proc, q # p PROVE InUse(q)' = InUse(q)
    BY <1>2, InUseParts DEF table
  <1>3. free' = free + InUse(p) - InUse(p)'
    BY <1>1, InUseParts DEF table
  <1> QED
    BY <1>2, <1>3 DEF Exchanges

LEMMA FramesStep ==
  ASSUME ConstantsAssumption, FrameTypes, ForkOwnsChild, FreeSlotsEmpty, Holdings, Counted, Next
  PROVE  \E p \in Proc : Exchanges(p)
  <1>1. TableTypes /\ \A p \in Proc : l[p].child \in Proc /\ l[p].want \in Nat
    BY DEF FrameTypes, FrameLocals
  <1>2. /\ \A n \in Nat : Pages(n) \in Nat
        /\ \A n \in Int : Uint(n) \in Nat
    BY PagesNat, UintNat
  <1>3. Increments \subseteq Int /\ DirFrames \in Nat /\ free \in Int
    BY DEF ConstantsAssumption, Counted
  <1>n. \A p \in Proc : mapped[p] \in Nat /\ building[p] \in Nat /\ Held(p) \in Nat
    BY InUseNat DEF Holdings
  <1>4. ASSUME NEW p \in Proc, NEW n \in Increments, sbrk_grow(p, n) PROVE Exchanges(p)
    <2> DEFINE f == [User EXCEPT !.pc = "grow", !.want = Uint(sz[p] + n)]
    <2>a. /\ Goto(p, f) /\ f.pc = "grow" /\ l[p].pc = "user" /\ state[p] = "RUNNABLE"
          /\ UNCHANGED <<free, table, mapped, building>>
      BY <1>4, Fields DEF sbrk_grow, At
    <2> HIDE DEF f
    <2>1. l'[p].pc = "grow" /\ \A q \in Proc : q # p => l'[q] = l[q]
      BY <2>a, GotoEffect
    <2>2. free' = free + mapped[p] - mapped'[p] + building[p] - building'[p]
      BY <2>a, <1>3, <1>n
    <2> QED
      BY <2>a, <2>1, <2>2, <1>n, OwnPages
  <1>5. ASSUME NEW p \in Proc, NEW n \in Increments, sbrk_shrink(p, n) PROVE Exchanges(p)
    <2> DEFINE f == IF Uint(sz[p] + n) = 0 THEN [User EXCEPT !.pc = "fault"] ELSE User
    <2>a. /\ Goto(p, f) /\ f.pc \in {"user", "fault"} /\ l[p].pc = "user" /\ state[p] = "RUNNABLE"
          /\ free' = free + (mapped[p] - Pages(Uint(sz[p] + n)))
          /\ mapped' = [mapped EXCEPT ![p] = Pages(Uint(sz[p] + n))]
          /\ UNCHANGED <<table, building>>
      BY <1>5, Fields DEF sbrk_shrink, At, kfree
    <2> HIDE DEF f
    <2>1. l'[p].pc # "exec" /\ \A q \in Proc : q # p => l'[q] = l[q]
      BY <2>a, GotoEffect
    <2>2. Pages(Uint(sz[p] + n)) \in Nat
      BY <1>1, <1>2, <1>3 DEF TableTypes
    <2>3. mapped'[p] = Pages(Uint(sz[p] + n)) /\ \A q \in Proc : q # p => mapped'[q] = mapped[q]
      BY <1>1, <2>a DEF TableTypes
    <2>4. free' = free + mapped[p] - mapped'[p] + building[p] - building'[p]
      BY <2>a, <2>2, <2>3, <1>3, <1>n
    <2> QED
      BY <2>a, <2>1, <2>2, <2>3, <2>4, <1>n, OwnPages
  <1>6. ASSUME NEW p \in Proc, grow_page(p) \/ grow_fails(p) \/ grow_done(p) PROVE Exchanges(p)
    <2>1. PICK n \in Nat : /\ free' = free + (mapped[p] - n)
                           /\ mapped' = [mapped EXCEPT ![p] = n]
      <3>1. CASE grow_page(p)
        <4>1. free' = free - 1 /\ mapped' = [mapped EXCEPT ![p] = mapped[p] + 1]
          BY <3>1, <1>1 DEF grow_page, kalloc, TableTypes
        <4>2. mapped[p] + 1 \in Nat /\ free' = free + (mapped[p] - (mapped[p] + 1))
          BY <4>1, <1>3, <1>n
        <4> QED
          BY <4>1, <4>2
      <3>2. CASE grow_fails(p)
        BY <3>2, <1>1, <1>2 DEF grow_fails, kfree, TableTypes
      <3>3. CASE grow_done(p)
        <4>1. free' = free /\ mapped' = [mapped EXCEPT ![p] = mapped[p]]
          BY <3>3, <1>1 DEF grow_done, TableTypes
        <4>2. mapped[p] \in Nat /\ free' = free + (mapped[p] - mapped[p])
          BY <4>1, <1>3, <1>n
        <4> QED
          BY <4>1, <4>2
      <3> QED
        BY <1>6, <3>1, <3>2, <3>3
    <2>2. /\ l[p].pc = "grow" /\ state[p] = "RUNNABLE" /\ UNCHANGED <<table, building>>
          /\ l' = l \/ Goto(p, User)
      BY <1>6 DEF grow_page, grow_fails, grow_done, At
    <2>3. l'[p].pc # "exec" /\ \A q \in Proc : q # p => l'[q] = l[q]
      BY <2>2, GotoEffect, Fields
    <2>4. mapped'[p] = n /\ \A q \in Proc : q # p => mapped'[q] = mapped[q]
      BY <1>1, <2>1 DEF TableTypes
    <2>5. free' = free + mapped[p] - mapped'[p] + building[p] - building'[p]
      BY <2>1, <2>2, <2>4, <1>3, <1>n
    <2> QED
      BY <2>2, <2>3, <2>4, <2>5, <1>n, OwnPages
  <1>7. ASSUME NEW p \in Proc, NEW c \in Proc, fork(p, c) PROVE Exchanges(p)
    <2> DEFINE f == [User EXCEPT !.pc = "kstack", !.child = c]
    <2>a. Goto(p, f) /\ f.pc = "kstack"
      BY <1>7, Fields DEF fork
    <2> HIDE DEF f
    <2>1. /\ l'[p].pc = "kstack" /\ \A q \in Proc : q # p => l'[q] = l[q]
          /\ l[p].pc = "user" /\ state[c] = "UNUSED"
          /\ state' = [state EXCEPT ![c] = "EMBRYO"] /\ sharep' = sharep \ {c}
          /\ UNCHANGED <<free, kstack, pgdir, mapped, building>>
      BY <1>7, <2>a, GotoEffect DEF fork, At
    <2>2. \A q \in Proc : state'[q] = "RUNNABLE" <=> state[q] = "RUNNABLE"
      BY <1>1, <2>1 DEF TableTypes
    <2>3. sharep' = sharep
      BY <2>1 DEF FreeSlotsEmpty
    <2>4. \A q \in Proc : l'[q].pc = "exec" <=> l[q].pc = "exec"
      BY <2>1
    <2>5. \A q \in Proc : InUse(q)' = InUse(q)
      BY <2>1, <2>2, <2>3, <2>4, InUseParts
    <2>6. free' = free + InUse(p) - InUse(p)'
      BY <2>1, <2>5, <1>3, InUseNat
    <2> QED
      BY <2>5, <2>6 DEF Exchanges
  <1>8. ASSUME NEW p \in Proc, fork_kstack(p) \/ fork_setupkvm(p) \/ fork_page(p)
        PROVE  \E c \in Proc : Exchanges(c)
    <2>1. PICK c : c = l[p].child
      OBVIOUS
    <2>2. /\ At(p, "kstack") \/ At(p, "setupkvm") \/ At(p, "copyuvm")
          /\ UNCHANGED <<state, sharep, building>>
          /\ l' = l \/ Goto(p, [l[p] EXCEPT !.pc = "setupkvm"]) \/ Goto(p, [l[p] EXCEPT !.pc = "copyuvm"])
      BY <1>8 DEF fork_kstack, fork_setupkvm, fork_page, table
    <2>3. \A q \in Proc : l'[q].pc = "exec" <=> l[q].pc = "exec"
      <3>1. \A q \in Proc : q # p => l'[q] = l[q]
        BY <2>2, GotoEffect
      <3>2. l'[p].pc # "exec" /\ l[p].pc # "exec"
        BY <2>2, GotoEffect, ForkFields DEF At
      <3> QED
        BY <3>1, <3>2
    <2>4. c \in Proc
      BY <1>1, <2>1
    <2>5. CASE fork_kstack(p)
      <3>1. /\ kstack' = kstack \union {c} /\ free' = free - 1 /\ UNCHANGED <<pgdir, mapped>>
            /\ c \notin kstack
        BY <2>1, <2>5 DEF fork_kstack, kalloc, Holdings
      <3>2. \A q \in Proc : q # c => InUse(q)' = InUse(q)
        BY <2>2, <2>3, <3>1, InUseParts
      <3>3. InUse(c)' = InUse(c) + 1
        BY <2>2, <2>3, <2>4, <3>1, <1>3, <1>n, InUseParts
      <3>4. free' = free + InUse(c) - InUse(c)'
        BY <2>4, <3>1, <3>3, <1>3, InUseNat
      <3> QED
        BY <2>4, <3>2, <3>4 DEF Exchanges
    <2>6. CASE fork_setupkvm(p)
      <3>1. /\ pgdir' = pgdir \union {c} /\ free' = free - DirFrames /\ UNCHANGED <<kstack, mapped>>
            /\ c \notin pgdir
        BY <2>1, <2>6 DEF fork_setupkvm, kalloc, Holdings
      <3>2. \A q \in Proc : q # c => InUse(q)' = InUse(q)
        BY <2>2, <2>3, <3>1, InUseParts
      <3>3. InUse(c)' = InUse(c) + DirFrames
        BY <2>2, <2>3, <2>4, <3>1, <1>3, <1>n, InUseParts
      <3>4. free' = free + InUse(c) - InUse(c)'
        BY <2>4, <3>1, <3>3, <1>3, InUseNat
      <3> QED
        BY <2>4, <3>2, <3>4 DEF Exchanges
    <2>7. CASE fork_page(p)
      <3>1. /\ mapped' = [mapped EXCEPT ![c] = mapped[c] + 1] /\ free' = free - 1
            /\ UNCHANGED <<kstack, pgdir>>
        BY <2>1, <2>7 DEF fork_page, kalloc, table
      <3>a. mapped'[c] = mapped[c] + 1 /\ \A q \in Proc : q # c => mapped'[q] = mapped[q]
        BY <1>1, <2>4, <3>1 DEF TableTypes
      <3>2. \A q \in Proc : q # c => InUse(q)' = InUse(q)
        BY <2>2, <2>3, <3>1, <3>a, InUseParts
      <3>3. InUse(c)' = InUse(c) + 1
        BY <2>2, <2>3, <2>4, <3>1, <3>a, <1>3, <1>n, InUseParts
      <3>4. free' = free + InUse(c) - InUse(c)'
        BY <2>4, <3>1, <3>3, <1>3, InUseNat
      <3> QED
        BY <2>4, <3>2, <3>4 DEF Exchanges
    <2> QED
      BY <1>8, <2>5, <2>6, <2>7
  <1>9. ASSUME NEW p \in Proc, fork_fails(p) PROVE \E c \in Proc : Exchanges(c)
    <2>1. PICK c : c = l[p].child
      OBVIOUS
    <2>2. /\ At(p, "kstack") \/ At(p, "setupkvm") \/ At(p, "copyuvm")
          /\ state' = [state EXCEPT ![c] = "UNUSED"] /\ free' = free + Held(c)
          /\ kstack' = kstack \ {c} /\ pgdir' = pgdir \ {c}
          /\ mapped' = [mapped EXCEPT ![c] = 0]
          /\ l'[p].pc = "user" /\ \A q \in Proc : q # p => l'[q] = l[q]
          /\ UNCHANGED <<sharep, building>>
      BY <1>9, <2>1, GotoEffect, Fields DEF fork_fails, kfree
    <2>3. c \in Proc /\ c # p /\ state[c] = "EMBRYO" /\ c \notin sharep
      BY <2>1, <2>2, Children DEF FreeSlotsEmpty
    <2>4. \A q \in Proc : /\ state'[q] = IF q = c THEN "UNUSED" ELSE state[q]
                          /\ mapped'[q] = IF q = c THEN 0 ELSE mapped[q]
                          /\ l'[q].pc = "exec" <=> l[q].pc = "exec"
      BY <1>1, <2>2 DEF TableTypes, At
    <2>5. \A q \in Proc : q # c => InUse(q)' = InUse(q)
      BY <2>2, <2>3, <2>4, InUseParts
    <2>6. InUse(c) = Held(c) /\ InUse(c)' = 0
      <3>1. InUse(c) = Held(c)
        BY <2>3, <1>n DEF InUse, At
      <3>2. InUse(c)' = 0
        BY <2>2, <2>3, <2>4, InUseParts
      <3> QED
        BY <3>1, <3>2
    <2>7. free' = free + InUse(c) - InUse(c)'
      BY <2>2, <2>3, <2>6, <1>3, <1>n
    <2> QED
      BY <2>3, <2>5, <2>7 DEF Exchanges
  <1>10. ASSUME NEW p \in Proc, fork_done(p) PROVE \E c \in Proc : Exchanges(c)
    <2>1. PICK c : c = l[p].child
      OBVIOUS
    <2>2. /\ At(p, "copyuvm") /\ sharep' = sharep \union {c} /\ free' = free - 1
          /\ state' = [state EXCEPT ![c] = "RUNNABLE"]
          /\ UNCHANGED <<kstack, pgdir, mapped, building>>
          /\ l' = [l EXCEPT ![p] = User, ![c] = User]
      BY <1>10, <2>1 DEF fork_done, kalloc
    <2>3. c \in Proc /\ c # p /\ state[c] = "EMBRYO" /\ c \notin sharep
      BY <2>1, <2>2, Children DEF FreeSlotsEmpty
    <2>4. /\ \A q \in Proc : state'[q] = IF q = c THEN "RUNNABLE" ELSE state[q]
          /\ l'[p].pc = "user" /\ l'[c].pc = "user" /\ \A q \in Proc : q # p /\ q # c => l'[q] = l[q]
      BY <1>1, <2>2, <2>3, Fields DEF FrameTypes, TableTypes
    <2>a. l[p].pc # "exec"
      BY <2>2 DEF At
    <2>5. \A q \in Proc : q # c => InUse(q)' = InUse(q)
      BY <2>2, <2>3, <2>4, <2>a, InUseParts
    <2>6. InUse(c)' = InUse(c) + 1
      <3>1. c \in sharep' /\ mapped'[c] = mapped[c] /\ mapped[c] \in Nat
        BY <2>2, <2>3, <1>n
      <3>2. /\ InUse(c)' = (IF c \in kstack THEN 1 ELSE 0) + (IF c \in pgdir THEN DirFrames ELSE 0)
                           + mapped[c] + 1 + 0
            /\ InUse(c) = (IF c \in kstack THEN 1 ELSE 0) + (IF c \in pgdir THEN DirFrames ELSE 0)
                          + mapped[c] + 0 + 0
        BY <2>2, <2>3, <2>4, <3>1, InUseParts
      <3> QED
        BY <3>1, <3>2, <1>3
    <2>7. free' = free + InUse(c) - InUse(c)'
      BY <2>2, <2>3, <2>6, <1>3, InUseNat
    <2> QED
      BY <2>3, <2>5, <2>7 DEF Exchanges
  <1>11. ASSUME NEW p \in Proc, fork_no_sharep(p) PROVE Exchanges(p)
    <2>1. /\ l'[p].pc = "user" /\ \A q \in Proc : q # p => l'[q] = l[q]
          /\ l[p].pc = "copyuvm" /\ state[p] = "RUNNABLE" /\ UNCHANGED <<free, table, mapped, building>>
      BY <1>11, GotoEffect, Fields DEF fork_no_sharep, At
    <2>2. free' = free + mapped[p] - mapped'[p] + building[p] - building'[p]
      BY <2>1, <1>3, <1>n
    <2> QED
      BY <2>1, <2>2, <1>n, OwnPages
  <1>12. ASSUME NEW p \in Proc, NEW pages, At(p, "user"), BuildFor(p, pages) PROVE Exchanges(p)
    <2> DEFINE f == [User EXCEPT !.pc = "exec", !.want = pages * PGSIZE]
    <2>a. Goto(p, f) /\ f.pc = "exec" /\ free' = free - DirFrames /\ UNCHANGED <<table, mapped, building>>
      BY <1>12, Fields DEF BuildFor, kalloc
    <2> HIDE DEF f
    <2>1. l'[p].pc = "exec" /\ \A q \in Proc : q # p => l'[q] = l[q]
      BY <2>a, GotoEffect
    <2>2. state[p] = "RUNNABLE" /\ l[p].pc = "user" /\ building[p] = 0
      BY <1>12 DEF At, Holdings
    <2>3. \A q \in Proc : q # p => InUse(q)' = InUse(q)
      BY <2>a, <2>1, InUseParts DEF table
    <2>4. InUse(p)' = InUse(p) + DirFrames
      BY <2>a, <2>1, <2>2, <1>3, <1>n, InUseParts DEF table
    <2>5. free' = free + InUse(p) - InUse(p)'
      BY <2>a, <2>4, <1>3, InUseNat
    <2> QED
      BY <2>3, <2>5 DEF Exchanges
  <1>13. ASSUME NEW p \in Proc, exec_page(p) PROVE Exchanges(p)
    <2>1. /\ At(p, "exec") /\ free' = free - 1 /\ UNCHANGED <<table, mapped, l>>
          /\ building' = [building EXCEPT ![p] = building[p] + 1]
      BY <1>13 DEF exec_page, kalloc
    <2>2. building'[p] = building[p] + 1 /\ \A q \in Proc : q # p => building'[q] = building[q]
      BY <1>1, <2>1 DEF TableTypes
    <2>3. free' = free + mapped[p] - mapped'[p] + building[p] - building'[p]
      BY <2>1, <2>2, <1>3, <1>n
    <2>4. l[p].pc = "exec" /\ state[p] = "RUNNABLE" /\ building'[p] \in Nat
      BY <2>1, <2>2, <1>n DEF At
    <2> QED
      BY <2>1, <2>2, <2>3, <2>4, <1>n, OwnPages
  <1>14. ASSUME NEW p \in Proc, exec_fails(p) \/ exec_commit(p) PROVE Exchanges(p)
    <2>1. /\ state[p] = "RUNNABLE" /\ l[p].pc = "exec" /\ UNCHANGED table
          /\ building' = [building EXCEPT ![p] = 0]
          /\ \/ mapped' = mapped /\ free' = free + (DirFrames + building[p])
             \/ mapped' = [mapped EXCEPT ![p] = building[p]] /\ free' = free + (DirFrames + mapped[p])
          /\ l'[p].pc = "user" /\ \A q \in Proc : q # p => l'[q] = l[q]
      BY <1>14, GotoEffect, Fields DEF exec_fails, exec_commit, At, kfree
    <2>2. building'[p] = 0 /\ \A q \in Proc : q # p => building'[q] = building[q]
      BY <1>1, <2>1 DEF TableTypes
    <2>3. \A q \in Proc : q # p => mapped'[q] = mapped[q]
      BY <1>1, <2>1 DEF TableTypes
    <2>4. \/ mapped'[p] = mapped[p] /\ free' = free + (DirFrames + building[p])
          \/ mapped'[p] = building[p] /\ free' = free + (DirFrames + mapped[p])
      BY <1>1, <2>1 DEF TableTypes
    <2>5. \A q \in Proc : q # p => InUse(q)' = InUse(q)
      BY <2>1, <2>2, <2>3, InUseParts DEF table
    <2>6. InUse(p)' = InUse(p) - mapped[p] + mapped'[p] - DirFrames - building[p]
      <3>1. mapped'[p] \in Nat
        BY <2>4, <1>n
      <3> QED
        BY <2>1, <2>2, <3>1, <1>3, <1>n, InUseParts DEF table
    <2>7. free' = free + InUse(p) - InUse(p)'
      BY <2>4, <2>6, <1>3, <1>n, InUseNat
    <2> QED
      BY <2>5, <2>7 DEF Exchanges
  <1>15. ASSUME NEW p \in Proc, exit(p) PROVE Exchanges(p)
    <2>1. /\ state[p] = "RUNNABLE" /\ l[p].pc # "exec" /\ p \in sharep
          /\ state' = [state EXCEPT ![p] = "ZOMBIE"] /\ sharep' = sharep \ {p} /\ free' = free + 1
          /\ UNCHANGED <<kstack, pgdir, mapped, building, l>>
      BY <1>15 DEF exit, kfree, At, Holdings
    <2>2. \A q \in Proc : state'[q] = IF q = p THEN "ZOMBIE" ELSE state[q]
      BY <1>1, <2>1 DEF TableTypes
    <2>3. \A q \in Proc : q # p => InUse(q)' = InUse(q)
      BY <2>1, <2>2, InUseParts
    <2>4. InUse(p) = InUse(p)' + 1
      BY <2>1, <2>2, <1>3, <1>n, InUseParts
    <2>5. InUse(p)' \in Int
      BY <2>1, <2>2, <1>3, <1>n, InUseParts
    <2>6. free' = free + InUse(p) - InUse(p)'
      BY <2>1, <2>4, <2>5, <1>3
    <2> QED
      BY <2>3, <2>6 DEF Exchanges
  <1>16. ASSUME NEW p \in Proc, wait(p) PROVE Exchanges(p)
    <2>1. /\ state[p] = "ZOMBIE" /\ state' = [state EXCEPT ![p] = "UNUSED"]
          /\ kstack' = kstack \ {p} /\ pgdir' = pgdir \ {p} /\ free' = free + Held(p)
          /\ mapped' = [mapped EXCEPT ![p] = 0]
          /\ UNCHANGED <<sharep, building, l>>
      BY <1>16 DEF wait, kfree
    <2>2. \A q \in Proc : /\ state'[q] = IF q = p THEN "UNUSED" ELSE state[q]
                          /\ mapped'[q] = IF q = p THEN 0 ELSE mapped[q]
      BY <1>1, <2>1 DEF TableTypes
    <2>3. p \notin sharep
      BY <2>1 DEF FreeSlotsEmpty
    <2>4. \A q \in Proc : q # p => InUse(q)' = InUse(q)
      BY <2>1, <2>2, InUseParts
    <2>5. InUse(p) = Held(p)
      BY <2>1, <2>3, <1>n DEF InUse, At
    <2>6. InUse(p)' = 0
      BY <2>1, <2>2, <2>3, InUseParts
    <2>7. free' = free + InUse(p) - InUse(p)'
      BY <2>1, <2>5, <2>6, <1>3, <1>n
    <2> QED
      BY <2>4, <2>7 DEF Exchanges
  <1>17. ASSUME NEW p \in Proc,
                getadmin(p) \/ \E q \in Proc, n \in Limits : setmemorylimit(p, q, n)
         PROVE  Exchanges(p)
    <2>1. UNCHANGED <<free, table, mapped, building, l>>
      BY <1>17 DEF getadmin, setmemorylimit
    <2>2. \A q \in Proc : InUse(q)' = InUse(q)
      BY <2>1, InUseParts DEF table
    <2>3. free' = free + InUse(p) - InUse(p)'
      BY <2>1, <2>2, <1>3, InUseNat
    <2> QED
      BY <2>2, <2>3 DEF Exchanges
  <1> QED
    BY <1>1, <1>4, <1>5, <1>6, <1>7, <1>8, <1>9, <1>10, <1>11, <1>12, <1>13, <1>14, <1>15, <1>16,
       <1>17 DEF Next, exec, exec2

FrameInv == /\ FrameTypes /\ ForkOwnsChild /\ FreeSlotsEmpty /\ SizeIsMapped /\ GrowsWithinLimit /\ LimitHolds
       /\ Holdings /\ Counted

LEMMA PagesOne ==
  ASSUME ConstantsAssumption
  PROVE  Pages(PGSIZE) = 1
  <1>1. PGSIZE \in Nat /\ PGSIZE > 0
    BY DEF ConstantsAssumption
  <1>2. PGSIZE + PGSIZE - 1 = 1 * PGSIZE + (PGSIZE - 1) /\ 0 <= PGSIZE - 1 /\ PGSIZE - 1 < PGSIZE
    BY <1>1
  <1> QED
    BY <1>1, <1>2 DEF Pages

LEMMA FramesInit ==
  ASSUME ConstantsAssumption, Init
  PROVE  Holdings /\ Counted
  <1>1. InitProc \in Proc /\ DirFrames \in Nat /\ Frames \in Nat
    BY DEF ConstantsAssumption
  <1>2. /\ \A p \in Proc : /\ state[p] = IF p = InitProc THEN "RUNNABLE" ELSE "UNUSED"
                           /\ mapped[p] = IF p = InitProc THEN 1 ELSE 0
                           /\ building[p] = 0 /\ l[p].pc = "user"
        /\ kstack = {InitProc} /\ pgdir = {InitProc} /\ sharep = {InitProc}
        /\ free = Frames - DirFrames - 3
    BY PagesZero, PagesOne, Fields DEF Init
  <1>3. Holdings
    BY <1>2 DEF Holdings, At
  <1>4. \A p \in Proc : InUse(p) = IF p = InitProc THEN DirFrames + 3 ELSE 0
    BY <1>1, <1>2, InUseParts
  <1>5. Taken(Using) = {InitProc} \X (1..DirFrames + 3)
    <2>1. \A p \in Proc : Using[p] = IF p = InitProc THEN DirFrames + 3 ELSE 0
      BY <1>4 DEF Using
    <2>2. 1..0 = {}
      OBVIOUS
    <2>3. \A p \in Proc : {p} \X (1..Using[p]) = IF p = InitProc THEN {InitProc} \X (1..DirFrames + 3) ELSE {}
      BY <2>1, <2>2
    <2> QED
      BY <1>1, <2>3 DEF Taken
  <1>6. DirFrames + 3 \in Nat
    BY <1>1
  <1>7. /\ IsFiniteSet({InitProc} \X (1..DirFrames + 3))
        /\ Cardinality({InitProc} \X (1..DirFrames + 3)) = DirFrames + 3
    BY <1>6, FramesOfSlot
  <1>8. Counted
    BY <1>1, <1>2, <1>5, <1>7 DEF Counted
  <1> QED
    BY <1>3, <1>8

LEMMA FrameInvInit ==
  ASSUME ConstantsAssumption
  PROVE  Init => FrameInv
  <1> SUFFICES ASSUME Init PROVE FrameInv
    OBVIOUS
  <1>1. FrameTypes
    BY TypesInit
  <1>2. \A p \in Proc : l[p].pc = "user" /\ mapped[p] = Pages(sz[p]) /\ limit[p] = 0
    BY Fields DEF Init
  <1>3. ForkOwnsChild /\ GrowsWithinLimit /\ LimitHolds
    BY <1>2 DEF ForkOwnsChild, Forking, GrowsWithinLimit, At, LimitHolds
  <1>4. FreeSlotsEmpty
    <2>1. InitProc \in Proc
      BY DEF ConstantsAssumption
    <2> QED
      BY <2>1, PagesZero DEF Init, FreeSlotsEmpty
  <1>5. SizeIsMapped
    BY <1>1, <1>2, SizeCases DEF Mapped
  <1> QED
    BY <1>1, <1>3, <1>4, <1>5, FramesInit DEF FrameInv

LEMMA FrameInvStep ==
  ASSUME ConstantsAssumption, FrameInv, [Next]_vars
  PROVE  FrameInv'
  <1>1. FrameTypes'
    BY LocalsStep, TableTypesStep DEF FrameInv, FrameTypes
  <1>2. ForkOwnsChild' /\ FreeSlotsEmpty'
    BY ForkOwnsChildStep, FreeSlotsEmptyStep DEF FrameInv
  <1>3. SizeIsMapped'
    <2>1. Sizes
      BY SizeCases DEF FrameInv, Sizes
    <2>2. Sizes'
      BY <2>1, SizesStep DEF FrameInv
    <2>3. \A p \in Proc : /\ Pages(sz'[p]) \in Int /\ Pages(l'[p].want) \in Int
                          /\ mapped'[p] \in Int
      BY <1>1, PagesNat DEF FrameTypes, TableTypes, FrameLocals
    <2> QED
      BY <2>2, <2>3 DEF Sizes, Mapped, SizeIsMapped
  <1>4. GrowsWithinLimit' /\ LimitHolds'
    BY LimitsStep DEF FrameInv
  <1>5. Holdings'
    BY HoldingsStep DEF FrameInv
  <1>6. Counted'
    <2>1. CASE UNCHANGED vars
      BY <2>1 DEF vars, FrameInv, Counted, Taken, Using, InUse, Held, At
    <2>2. CASE Next
      <3>1. PICK p \in Proc : Exchanges(p)
        BY <2>2, FramesStep DEF FrameInv
      <3> QED
        BY <1>5, <3>1, CountedStep DEF FrameInv
    <2> QED
      BY <2>1, <2>2
  <1> QED
    BY <1>1, <1>2, <1>3, <1>4, <1>5, <1>6 DEF FrameInv

LEMMA Invariance ==
  ASSUME ConstantsAssumption
  PROVE  Spec => []FrameInv
  <1>1. Init => FrameInv
    BY FrameInvInit
  <1>2. FrameInv /\ [Next]_vars => FrameInv'
    BY FrameInvStep
  <1> QED
    BY <1>1, <1>2, PTL DEF Spec

(* A slot that was given back has no stack, no page directory, no shared page *)
(* and no user page, wherever the fork or the process it was used for ended.  *)
THEOREM FreeSlotsAreEmpty ==
  ASSUME ConstantsAssumption
  PROVE  Spec => []FreeSlotsEmpty
  <1>1. FrameInv => FreeSlotsEmpty
    BY DEF FrameInv
  <1> QED
    BY <1>1, Invariance, PTL

(* While a fork is at work its child's slot is taken and no other fork has it.*)
THEOREM ForksOwnTheirChildren ==
  ASSUME ConstantsAssumption
  PROVE  Spec => []ForkOwnsChild
  <1>1. FrameInv => ForkOwnsChild
    BY DEF FrameInv
  <1> QED
    BY <1>1, Invariance, PTL

(* The page table of a process always holds the pages its sz says: copyuvm    *)
(* meets no missing page, whatever grows, shrinks, forks and fails before.    *)
THEOREM SizesAreMapped ==
  ASSUME ConstantsAssumption
  PROVE  Spec => []SizeIsMapped
  <1>1. FrameInv => SizeIsMapped
    BY DEF FrameInv
  <1> QED
    BY <1>1, Invariance, PTL

(* No process outgrows its limit but by an sbrk that was at work when the     *)
(* limit was set, its own or that of the one it was forked from.              *)
THEOREM LimitsHold ==
  ASSUME ConstantsAssumption
  PROVE  Spec => []LimitHolds
  <1>1. FrameInv => LimitHolds
    BY DEF FrameInv
  <1> QED
    BY <1>1, Invariance, PTL

(* No frame is lost and none is given out twice: the free ones and those of   *)
(* all slots are together as many as there were, wherever fork, exec and sbrk *)
(* run out of frames, and a free slot holds none.                             *)
THEOREM FramesAreConserved ==
  ASSUME ConstantsAssumption
  PROVE  Spec => []FramesConserved
  <1>1. FrameInv => FramesConserved
    <2> SUFFICES ASSUME FrameInv PROVE FramesConserved
      OBVIOUS
    <2>1. free + Cardinality(Taken(Using)) = Frames
      BY DEF FrameInv, Counted
    <2>2. ASSUME NEW p \in Proc, state[p] = "UNUSED" PROVE InUse(p) = 0
      BY <2>2, InUseParts DEF FrameInv, FreeSlotsEmpty
    <2> QED
      BY <2>1, <2>2 DEF FramesConserved
  <1> QED
    BY <1>1, Invariance, PTL

-----------------------------------------------------------------------------
(* Users: the table, the file and the accounts                                *)

(* Types                                                                      *)

Image == [userlist : U!Table \union {None}, homes : SUBSET Id]
Call == [pc : {"idle", "look", "take", "name", "write", "home", "unset", "erase", "end"},
         id : Id \union {None}, password : Password \union {None}, entry : 0..Nusers]

AccountTypeOK ==
    /\ usertable \in U!Table
    /\ cached \in Image /\ disk \in Image
    /\ console \in {"init", "login", "prompt", "shell"}
    /\ copy \in U!Table \union {None}
    /\ session \in Id \union {Root, None}
    /\ calls \in [Job -> Call]
    /\ background \in BOOLEAN

\* A call has the name of a user, useradd a password until it is written, and
\* both an entry from when they chose one until it is changed.
Arguments ==
    \A j \in Job :
        /\ calls[j].pc # "idle" => calls[j].id \in Id
        /\ calls[j].pc \in {"look", "take", "name"} => calls[j].password \in Password
        /\ calls[j].pc \in {"take", "name", "unset"} => calls[j].entry \in U!Entry

\* init is the first to run, and login reads what it stored.
Loaded ==
    /\ console # "init" => cached.userlist # None
    /\ console = "prompt" => copy # None

LEMMA LeastOne ==
  ASSUME NEW S \in SUBSET U!Entry, S # {}
  PROVE  U!Min(S) \in S
  <1>1. PICK x \in S : \A y \in S : ~(<<y, x>> \in OpToRel(<, Nat))
    <2>1. S \subseteq Nat
      BY DEF U!Entry
    <2> QED
      BY <2>1, NatLessThanWellFounded, WFMin
  <1>2. ASSUME NEW y \in S PROVE x <= y
    <2>1. x \in Nat /\ y \in Nat /\ <<y, x>> \in Nat \X Nat
      BY DEF U!Entry
    <2>2. ~(y < x)
      BY <1>1, <2>1 DEF OpToRel
    <2> QED
      BY <2>1, <2>2
  <1> QED
    BY <1>2 DEF U!Min

LEMMA TableRows ==
  /\ U!Empty \in U!Table
  /\ \A t \in U!Table, i \in U!Entry, r \in U!Row : [t EXCEPT ![i] = r] \in U!Table
  /\ \A id \in Id \union {Root}, pw \in Password \union {RootPassword} : U!User(id, pw) \in U!Row
  BY DEF U!Empty, U!Nobody, U!Table, U!Row, U!User

LEMMA AccountTypeInit ==
  ASSUME U!ConstantsAssumption, U!Init
  PROVE  AccountTypeOK /\ Arguments /\ Loaded
  <1>1. U!Idle \in Call
    BY DEF U!Idle, Call, U!ConstantsAssumption
  <1>2. [userlist |-> None, homes |-> {}] \in Image
    BY DEF Image
  <1> QED
    BY <1>1, <1>2, TableRows DEF U!Init, AccountTypeOK, Arguments, Loaded, U!Idle

LEMMA AccountTypeStep ==
  ASSUME U!ConstantsAssumption, AccountTypeOK, Arguments, Loaded, [U!Next]_(U!vars)
  PROVE  AccountTypeOK' /\ Arguments' /\ Loaded'
  <1> DEFINE Goal == AccountTypeOK' /\ Arguments' /\ Loaded'
  <1>1. ASSUME NEW j \in Job, NEW id \in Id, NEW pw \in Password, U!useradd(j, id, pw)
        PROVE  Goal
    <2>1. [pc |-> "look", id |-> id, password |-> pw, entry |-> 0] \in Call
      BY DEF Call, U!ConstantsAssumption
    <2> QED
      BY <1>1, <2>1 DEF U!useradd, AccountTypeOK, Arguments, Loaded
  <1>2. ASSUME NEW j \in Job, U!useradd_look(j) PROVE Goal
    <2>1. CASE U!FreeEntries = {}
      <3>1. U!Idle \in Call
        BY DEF U!Idle, Call, U!ConstantsAssumption
      <3> QED
        BY <1>2, <2>1, <3>1 DEF U!useradd_look, AccountTypeOK, Arguments, Loaded, U!Idle
    <2>2. CASE U!FreeEntries # {}
      <3>1. PICK e \in U!Entry : e = U!Min(U!FreeEntries)
        BY <2>2, LeastOne DEF U!FreeEntries
      <3>2. calls' = [calls EXCEPT ![j].pc = "take", ![j].entry = e]
        BY <1>2, <2>2, <3>1 DEF U!useradd_look
      <3>3. calls' \in [Job -> Call]
        <4>1. e \in 0..Nusers
          BY DEF U!Entry, U!ConstantsAssumption
        <4> QED
          BY <3>2, <4>1 DEF AccountTypeOK, Call
      <3>4. Arguments'
        BY <1>2, <3>1, <3>2 DEF U!useradd_look, AccountTypeOK, Arguments, Call
      <3> QED
        BY <1>2, <3>3, <3>4 DEF U!useradd_look, AccountTypeOK, Loaded
    <2> QED
      BY <2>1, <2>2
  <1>2a. ASSUME NEW j \in Job, U!useradd_take(j) \/ U!userdel_unset(j) PROVE Goal
    <2>1. PICK e \in U!Entry, v \in BOOLEAN : usertable' = [usertable EXCEPT ![e].valid = v]
      BY <1>2a DEF U!useradd_take, U!userdel_unset, Arguments
    <2>2. usertable' \in U!Table
      BY <2>1 DEF AccountTypeOK, U!Table, U!Row
    <2>3. PICK to \in {"name", "erase"} :
             calls' = [calls EXCEPT ![j].pc = to] /\ (to = "name" <=> calls[j].pc = "take")
      BY <1>2a DEF U!useradd_take, U!userdel_unset
    <2>4. calls' \in [Job -> Call]
      BY <2>3 DEF AccountTypeOK, Call
    <2>5. Arguments'
      BY <1>2a, <2>3 DEF U!useradd_take, U!userdel_unset, AccountTypeOK, Arguments, Call
    <2> QED
      BY <1>2a, <2>2, <2>4, <2>5 DEF U!useradd_take, U!userdel_unset, AccountTypeOK, Loaded
  <1>3. ASSUME NEW j \in Job, U!useradd_name(j) PROVE Goal
    <2>1. usertable' \in U!Table
      BY <1>3 DEF U!useradd_name, AccountTypeOK, Arguments, U!Table, U!Row
    <2>2. calls' = [calls EXCEPT ![j].pc = "write"]
      BY <1>3 DEF U!useradd_name
    <2>3. calls' \in [Job -> Call]
      BY <2>2 DEF AccountTypeOK, Call
    <2>4. Arguments'
      BY <1>3, <2>2 DEF U!useradd_name, AccountTypeOK, Arguments, Call
    <2> QED
      BY <1>3, <2>1, <2>3, <2>4 DEF U!useradd_name, AccountTypeOK, Loaded
  <1>4. ASSUME NEW j \in Job, U!write(j) PROVE Goal
    <2>1. PICK to \in {"home", "end"} : calls' = [calls EXCEPT ![j].pc = to]
      BY <1>4 DEF U!write, AccountTypeOK, Call
    <2>2. calls' \in [Job -> Call]
      BY <2>1 DEF AccountTypeOK, Call
    <2>3. Arguments'
      BY <1>4, <2>1 DEF U!write, AccountTypeOK, Arguments, Call
    <2>4. cached' \in Image /\ cached'.userlist # None
      BY <1>4 DEF U!write, AccountTypeOK, Image, U!ConstantsAssumption
    <2> QED
      BY <1>4, <2>2, <2>3, <2>4 DEF U!write, AccountTypeOK, Loaded
  <1>5. ASSUME NEW j \in Job, U!useradd_home(j) PROVE Goal
    <2>1. calls' = [calls EXCEPT ![j].pc = "end"]
      BY <1>5 DEF U!useradd_home
    <2>2. calls' \in [Job -> Call]
      BY <2>1 DEF AccountTypeOK, Call
    <2>3. Arguments'
      BY <1>5, <2>1 DEF U!useradd_home, AccountTypeOK, Arguments, Call
    <2>4. cached' \in Image /\ cached'.userlist = cached.userlist
      BY <1>5 DEF U!useradd_home, AccountTypeOK, Arguments, Image
    <2> QED
      BY <1>5, <2>2, <2>3, <2>4 DEF U!useradd_home, AccountTypeOK, Loaded
  <1>6. ASSUME NEW j \in Job, U!end_op(j) PROVE Goal
    <2>1. U!Idle \in Call
      BY DEF U!Idle, Call, U!ConstantsAssumption
    <2> QED
      BY <1>6, <2>1 DEF U!end_op, U!Commit, AccountTypeOK, Arguments, Loaded, U!Idle
  <1>7. ASSUME NEW j \in Job, NEW id \in Id, U!userdel(j, id) PROVE Goal
    <2>1. PICK e \in U!Entry : calls' = [calls EXCEPT ![j].pc = "unset", ![j].id = id, ![j].entry = e]
      <3>1. PICK S : S = {i \in U!Entry : usertable[i].valid /\ usertable[i].id = id}
        OBVIOUS
      <3>2. S \in SUBSET U!Entry /\ S # {}
        BY <1>7, <3>1 DEF U!userdel, U!Has
      <3>3. calls' = [calls EXCEPT ![j].pc = "unset", ![j].id = id, ![j].entry = U!Min(S)]
        BY <1>7, <3>1 DEF U!userdel
      <3> QED
        BY <3>2, <3>3, LeastOne
    <2>2. calls' \in [Job -> Call]
      <3>1. e \in 0..Nusers
        BY DEF U!Entry, U!ConstantsAssumption
      <3>2. [calls[j] EXCEPT !.pc = "unset", !.id = id, !.entry = e] \in Call
        BY <3>1 DEF AccountTypeOK, Call
      <3>3. calls' = [calls EXCEPT ![j] = [calls[j] EXCEPT !.pc = "unset", !.id = id, !.entry = e]]
        BY <2>1 DEF AccountTypeOK
      <3> QED
        BY <3>2, <3>3 DEF AccountTypeOK
    <2>3. Arguments'
      BY <2>1 DEF AccountTypeOK, Arguments, Call
    <2> QED
      BY <1>7, <2>2, <2>3 DEF U!userdel, AccountTypeOK, Loaded
  <1>8. CASE U!init_usertable
    <2>1. CASE cached.userlist = None
      <3>1. usertable' \in U!Table
        <4>1. \A i \in U!Entry : [usertable[i] EXCEPT !.valid = FALSE] \in U!Row
          BY DEF AccountTypeOK, U!Table, U!Row
        <4>2. U!User(Root, RootPassword) \in U!Row
          BY TableRows
        <4> QED
          BY <1>8, <2>1, <4>1, <4>2 DEF U!init_usertable, U!Table
      <3>2. cached' \in Image /\ cached'.userlist = usertable'
        BY <1>8, <2>1, <3>1 DEF U!init_usertable, AccountTypeOK, Image
      <3> QED
        BY <1>8, <3>1, <3>2 DEF U!init_usertable, U!Commit, AccountTypeOK, Arguments, Loaded, U!ConstantsAssumption
    <2>2. CASE cached.userlist # None
      <3>1. usertable' \in U!Table /\ cached' = cached
        BY <1>8, <2>2 DEF U!init_usertable, AccountTypeOK, Image
      <3> QED
        BY <1>8, <2>2, <3>1 DEF U!init_usertable, U!Commit, AccountTypeOK, Arguments, Loaded
    <2> QED
      BY <2>1, <2>2
  <1>9. CASE U!login_read
    BY <1>9 DEF U!login_read, AccountTypeOK, Arguments, Loaded, Image
  <1>10. CASE U!login
    <2>1. PICK i \in U!Entry : session' = copy[i].id
      BY <1>10 DEF U!login
    <2>2. copy[i].id \in Id \union {Root, None}
      BY <1>10 DEF U!login, AccountTypeOK, Loaded, U!Table, U!Row
    <2> QED
      BY <1>10, <2>1, <2>2, TableRows DEF U!login, AccountTypeOK, Arguments, Loaded
  <1>11. CASE U!logout
    BY <1>11 DEF U!logout, AccountTypeOK, Arguments, Loaded
  <1>12. CASE U!kill_login
    BY <1>12, TableRows DEF U!kill_login, AccountTypeOK, Arguments, Loaded
  <1>13. CASE U!Crash
    <2>1. U!Idle \in Call
      BY DEF U!Idle, Call, U!ConstantsAssumption
    <2> QED
      BY <1>13, <2>1, TableRows DEF U!Crash, AccountTypeOK, Arguments, Loaded, U!Idle
  <1>14. CASE UNCHANGED U!vars
    BY <1>14 DEF U!vars, AccountTypeOK, Arguments, Loaded
  <1> QED
    BY <1>1, <1>2, <1>2a, <1>3, <1>4, <1>5, <1>6, <1>7, <1>8, <1>9, <1>10, <1>11, <1>12, <1>13, <1>14
       DEF U!Next

-----------------------------------------------------------------------------
(* What is stored                                                             *)

\* Who changed the table has still to write it, all of it.
Stored ==
    \/ console = "init"
    \/ cached.userlist = usertable
    \/ \E j \in Job : calls[j].pc \in {"name", "write", "erase"}

LEMMA StoredStep ==
  ASSUME AccountTypeOK, Stored, [U!Next]_(U!vars)
  PROVE  Stored'
  <1>1. ASSUME NEW j \in Job, NEW id \in Id, NEW pw \in Password, U!useradd(j, id, pw)
        PROVE  Stored'
    BY <1>1 DEF U!useradd, AccountTypeOK, Stored
  <1>2. ASSUME NEW j \in Job, U!useradd_look(j) \/ (\E id \in Id : U!userdel(j, id)) PROVE Stored'
    <2>1. CASE U!useradd_look(j)
      BY <2>1 DEF U!useradd_look, AccountTypeOK, Stored, Call, U!Idle
    <2>2. ASSUME NEW id \in Id, U!userdel(j, id) PROVE Stored'
      BY <2>2 DEF U!userdel, AccountTypeOK, Stored, Call
    <2> QED
      BY <1>2, <2>1, <2>2
  <1>3. ASSUME NEW j \in Job, U!useradd_take(j) \/ U!useradd_name(j) \/ U!userdel_unset(j) PROVE Stored'
    <2>1. calls'[j].pc \in {"name", "write", "erase"}
      BY <1>3 DEF U!useradd_take, U!useradd_name, U!userdel_unset, AccountTypeOK, Call
    <2> QED
      BY <2>1 DEF Stored
  <1>4. ASSUME NEW j \in Job, U!write(j) PROVE Stored'
    BY <1>4 DEF U!write, AccountTypeOK, Stored, Image
  <1>5. ASSUME NEW j \in Job, U!useradd_home(j) PROVE Stored'
    BY <1>5 DEF U!useradd_home, AccountTypeOK, Stored, Image, Call
  <1>6. ASSUME NEW j \in Job, U!end_op(j) PROVE Stored'
    BY <1>6 DEF U!end_op, AccountTypeOK, Stored, Call
  <1>7. CASE U!init_usertable
    BY <1>7 DEF U!init_usertable, AccountTypeOK, Stored, Image
  <1>8. CASE U!login_read \/ U!login \/ U!logout \/ U!kill_login \/ U!Crash \/ UNCHANGED U!vars
    BY <1>8 DEF U!login_read, U!login, U!logout, U!kill_login, U!Crash, U!vars, Stored
  <1> QED
    BY <1>1, <1>2, <1>3, <1>4, <1>5, <1>6, <1>7, <1>8 DEF U!Next

AccountInv == AccountTypeOK /\ Arguments /\ Loaded /\ Stored

LEMMA InvInductive ==
  ASSUME U!ConstantsAssumption
  PROVE  (U!Init => AccountInv) /\ (AccountInv /\ [U!Next]_(U!vars) => AccountInv')
  BY AccountTypeInit, AccountTypeStep, StoredStep DEF AccountInv, U!Init, Stored

(* When no call is under way, /userlist holds what the kernel has in memory   *)
(* (fs.c:836-842, :877), whatever ran in the background and whenever init     *)
(* loaded the table.                                                          *)
THEOREM TableIsStored ==
  ASSUME U!ConstantsAssumption PROVE U!Spec => []StoredWhenQuiet
  <1>1. AccountInv => StoredWhenQuiet
    BY DEF AccountInv, Stored, StoredWhenQuiet, U!StoredWhenQuiet, U!Quiet
  <1> QED
    BY <1>1, InvInductive, PTL DEF U!Spec

-----------------------------------------------------------------------------
(* A shell that waits                                                         *)

Distinct(t) ==
    \A i, k \in U!Entry : t[i].valid /\ t[k].valid /\ t[i].id = t[k].id => i = k

\* What a call has made of the table, as what it will be on the disk.
Adds(j) ==
    /\ ~U!Has(disk.userlist, calls[j].id)
    /\ \E e \in U!Entry, pw \in Password :
        /\ ~disk.userlist[e].valid
        /\ usertable = [disk.userlist EXCEPT ![e] = U!User(calls[j].id, pw)]
Deletes(j) ==
    \E e \in U!Entry :
        /\ disk.userlist[e].valid /\ disk.userlist[e].id = calls[j].id
        /\ usertable = [disk.userlist EXCEPT ![e].valid = FALSE]

Progress(j) ==
    \/ /\ calls[j].pc = "look"
       /\ cached = disk /\ usertable = disk.userlist
       /\ ~U!Has(disk.userlist, calls[j].id)
    \/ /\ calls[j].pc = "take"
       /\ cached = disk /\ usertable = disk.userlist
       /\ ~U!Has(disk.userlist, calls[j].id)
       /\ ~disk.userlist[calls[j].entry].valid
    \/ /\ calls[j].pc = "unset"
       /\ cached = disk /\ usertable = disk.userlist
       /\ disk.userlist[calls[j].entry].valid
       /\ disk.userlist[calls[j].entry].id = calls[j].id
    \/ /\ calls[j].pc = "name"
       /\ cached = disk
       /\ ~U!Has(disk.userlist, calls[j].id)
       /\ ~disk.userlist[calls[j].entry].valid
       /\ usertable = [disk.userlist EXCEPT ![calls[j].entry].valid = TRUE]
    \/ calls[j].pc = "write" /\ Adds(j) /\ cached = disk
    \/ calls[j].pc = "erase" /\ Deletes(j) /\ cached = disk
    \/ calls[j].pc = "home" /\ Adds(j) /\ cached = [userlist |-> usertable, homes |-> disk.homes]
    \/ /\ calls[j].pc = "end" /\ Adds(j)
       /\ cached = [userlist |-> usertable, homes |-> disk.homes \union {calls[j].id}]
    \/ calls[j].pc = "end" /\ Deletes(j) /\ cached = [userlist |-> usertable, homes |-> disk.homes]

Busy(j) == calls[j].pc # "idle"
OneCall == \A i, j \in Job : Busy(i) /\ Busy(j) => i = j
ByRoot == \A j \in Job : Busy(j) => console = "shell" /\ session = Root
InOrder == \A j \in Job : Busy(j) => Progress(j)
AtRest ==
    (\A j \in Job : ~Busy(j)) =>
        cached = disk /\ (console # "init" => usertable = disk.userlist)
AtConsole ==
    /\ session # None => console = "shell"
    /\ console = "prompt" => copy = disk.userlist
    /\ console # "init" => disk.userlist # None
    /\ disk.userlist # None => Distinct(disk.userlist)

Foreground == ~background => OneCall /\ ByRoot /\ InOrder /\ AtRest /\ AtConsole

LEMMA ForegroundInit == U!Init => Foreground
  BY DEF U!Init, Foreground, OneCall, ByRoot, InOrder, AtRest, AtConsole, Busy, U!Idle

\* A step of the call that is under way.
LEMMA CallStep ==
  ASSUME AccountTypeOK, Foreground, ~background, NEW j \in Job, calls[j].pc # "idle",
         NEW c \in Call, calls' = [calls EXCEPT ![j] = c], c.pc # "idle",
         UNCHANGED <<disk, console, copy, session, background>>, Progress(j)'
  PROVE  Foreground'
  <1>1. OneCall /\ ByRoot /\ AtConsole
    BY DEF Foreground
  <1>2. \A i \in Job : Busy(i)' <=> i = j
    BY <1>1 DEF OneCall, Busy, AccountTypeOK
  <1>3. OneCall' /\ InOrder' /\ AtRest'
    BY <1>2 DEF OneCall, InOrder, AtRest
  <1>4. ByRoot'
    BY <1>1, <1>2 DEF ByRoot, Busy
  <1>5. AtConsole'
    BY <1>1 DEF AtConsole, Distinct
  <1> QED
    BY <1>3, <1>4, <1>5 DEF Foreground

\* A call that starts, from a shell that has waited for the one before.
LEMMA CallStarts ==
  ASSUME U!ConstantsAssumption, AccountTypeOK, Foreground, ~background, U!MayCall, NEW j \in Job,
         NEW c \in Call, calls' = [calls EXCEPT ![j] = c], c.pc # "idle",
         UNCHANGED <<disk, console, copy, session, background>>, Progress(j)'
  PROVE  Foreground'
  <1>1. OneCall /\ ByRoot /\ AtConsole
    BY DEF Foreground
  <1>2. \A i \in Job : calls[i].pc = "idle"
    BY DEF U!MayCall
  <1>3. \A i \in Job : Busy(i)' <=> i = j
    BY <1>2 DEF Busy, AccountTypeOK
  <1>4. OneCall' /\ InOrder' /\ AtRest'
    BY <1>3 DEF OneCall, InOrder, AtRest
  <1>5. ByRoot'
    BY <1>1, <1>3 DEF ByRoot, AtConsole, U!MayCall, U!ConstantsAssumption
  <1>6. AtConsole'
    BY <1>1 DEF AtConsole, Distinct
  <1> QED
    BY <1>4, <1>5, <1>6 DEF Foreground

LEMMA AtRestTable ==
  ASSUME Foreground, ~background, U!MayCall, U!ConstantsAssumption
  PROVE  cached = disk /\ usertable = disk.userlist
  BY DEF Foreground, U!MayCall, AtRest, AtConsole, Busy, U!ConstantsAssumption

\* Nobody is in a call, and nobody comes into one.
LEMMA IdleStep ==
  ASSUME Foreground, \A j \in Job : ~Busy(j), calls' = calls, ~background, background' = background,
         AtRest', AtConsole'
  PROVE  Foreground'
  BY DEF Foreground, OneCall, ByRoot, InOrder, Busy

\* Distinct names, after both changes.
LEMMA StaysDistinct ==
  ASSUME U!ConstantsAssumption, NEW t \in U!Table, Distinct(t), NEW e \in U!Entry
  PROVE  /\ \A id \in Id, pw \in Password :
             ~U!Has(t, id) => Distinct([t EXCEPT ![e] = U!User(id, pw)])
         /\ Distinct([t EXCEPT ![e].valid = FALSE])
  <1>1. ASSUME NEW id \in Id, NEW pw \in Password, ~U!Has(t, id)
        PROVE  Distinct([t EXCEPT ![e] = U!User(id, pw)])
    BY <1>1 DEF Distinct, U!Has, U!Table, U!Row, U!User
  <1>2. Distinct([t EXCEPT ![e].valid = FALSE])
    BY DEF Distinct, U!Table, U!Row
  <1> QED
    BY <1>1, <1>2

LEMMA ForegroundAdd ==
  ASSUME U!ConstantsAssumption, AccountInv, Foreground, ~background, NEW j \in Job,
         \/ \E id \in Id, pw \in Password : U!useradd(j, id, pw)
         \/ U!useradd_look(j) \/ U!useradd_take(j) \/ U!useradd_name(j) \/ U!useradd_home(j)
  PROVE  Foreground'
  <1>1. AccountTypeOK /\ Arguments /\ (Busy(j) => Progress(j))
    BY DEF AccountInv, Foreground, InOrder
  <1>2. ASSUME NEW id \in Id, NEW pw \in Password, U!useradd(j, id, pw)
        PROVE  Foreground'
    <2>1. PICK c \in Call : c = [pc |-> "look", id |-> id, password |-> pw, entry |-> 0]
      <3>1. 0 \in 0..Nusers
        BY DEF U!ConstantsAssumption
      <3>2. [pc |-> "look", id |-> id, password |-> pw, entry |-> 0] \in Call
        BY <3>1 DEF Call
      <3> QED
        BY <3>2
    <2>2. calls' = [calls EXCEPT ![j] = c] /\ c.pc = "look" /\ c.id = id
      BY <1>2, <2>1 DEF U!useradd
    <2>3. calls'[j] = c
      BY <1>1, <2>2 DEF AccountTypeOK
    <2>4. cached = disk /\ usertable = disk.userlist
      BY <1>2, AtRestTable DEF U!useradd
    <2>5. Progress(j)'
      BY <1>2, <2>2, <2>3, <2>4 DEF U!useradd, Progress, U!Has
    <2> QED
      BY <1>1, <1>2, <2>2, <2>5, CallStarts DEF U!useradd
  <1>3. ASSUME U!useradd_look(j) PROVE Foreground'
    <2>1. calls[j].pc = "look" /\ Progress(j)
      BY <1>1, <1>3 DEF U!useradd_look, Busy
    <2>2. cached = disk /\ usertable = disk.userlist /\ ~U!Has(disk.userlist, calls[j].id)
      BY <2>1 DEF Progress
    <2>3. CASE U!FreeEntries = {}
      <3>1. calls' = [calls EXCEPT ![j] = U!Idle] /\ usertable' = usertable
        BY <1>3, <2>3 DEF U!useradd_look
      <3>2. \A i \in Job : ~Busy(i)'
        BY <1>1, <2>1, <3>1 DEF Foreground, OneCall, Busy, U!Idle, AccountTypeOK
      <3>3. OneCall' /\ ByRoot' /\ InOrder'
        BY <3>2 DEF OneCall, ByRoot, InOrder
      <3>4. AtRest' /\ AtConsole'
        BY <1>3, <2>2, <3>1 DEF U!useradd_look, Foreground, AtRest, AtConsole, Distinct
      <3> QED
        BY <3>3, <3>4 DEF Foreground
    <2>4. CASE U!FreeEntries # {}
      <3>1. PICK e \in U!Entry : e = U!Min(U!FreeEntries) /\ e \in U!FreeEntries
        BY <2>4, LeastOne DEF U!FreeEntries
      <3>2. PICK c \in Call : c = [calls[j] EXCEPT !.pc = "take", !.entry = e]
        <4>1. e \in 0..Nusers
          BY DEF U!Entry, U!ConstantsAssumption
        <4> QED
          BY <1>1, <4>1 DEF AccountTypeOK, Call
      <3>3. calls' = [calls EXCEPT ![j] = c]
        BY <1>1, <1>3, <2>4, <3>1, <3>2 DEF U!useradd_look, AccountTypeOK
      <3>4. calls'[j] = c /\ c.pc = "take" /\ c.id = calls[j].id /\ c.entry = e
        BY <1>1, <3>2, <3>3 DEF AccountTypeOK, Call
      <3>5. Progress(j)'
        BY <1>3, <2>2, <3>1, <3>4 DEF U!useradd_look, U!FreeEntries, Progress, U!Has
      <3> QED
        BY <1>1, <1>3, <2>1, <3>3, <3>4, <3>5, CallStep DEF U!useradd_look
    <2> QED
      BY <2>3, <2>4
  <1>3a. ASSUME U!useradd_take(j) PROVE Foreground'
    <2>1. calls[j].pc = "take" /\ Progress(j)
      BY <1>1, <1>3a DEF U!useradd_take, Busy
    <2>2. PICK c \in Call : c = [calls[j] EXCEPT !.pc = "name"]
      BY <1>1 DEF AccountTypeOK, Call
    <2>3. calls' = [calls EXCEPT ![j] = c]
      BY <1>1, <1>3a, <2>2 DEF U!useradd_take, AccountTypeOK
    <2>4. calls'[j] = c /\ c.pc = "name" /\ c.id = calls[j].id /\ c.entry = calls[j].entry
      BY <1>1, <2>2, <2>3 DEF AccountTypeOK, Call
    <2>5. Progress(j)'
      BY <1>3a, <2>1, <2>4 DEF U!useradd_take, Progress, U!Has
    <2> QED
      BY <1>1, <1>3a, <2>1, <2>3, <2>4, <2>5, CallStep DEF U!useradd_take
  <1>4. ASSUME U!useradd_name(j) PROVE Foreground'
    <2>1. calls[j].pc = "name" /\ Progress(j)
      BY <1>1, <1>4 DEF U!useradd_name, Busy
    <2>2. PICK e \in U!Entry, pw \in Password : e = calls[j].entry /\ pw = calls[j].password
      BY <1>1, <2>1 DEF Arguments
    <2>3. /\ cached = disk /\ ~U!Has(disk.userlist, calls[j].id)
          /\ ~disk.userlist[e].valid /\ usertable = [disk.userlist EXCEPT ![e].valid = TRUE]
      BY <2>1, <2>2 DEF Progress
    <2>4. PICK c \in Call : c = [calls[j] EXCEPT !.pc = "write"]
      BY <1>1 DEF AccountTypeOK, Call
    <2>5. calls' = [calls EXCEPT ![j] = c]
      BY <1>1, <1>4, <2>4 DEF U!useradd_name, AccountTypeOK
    <2>6. calls'[j] = c /\ c.pc = "write" /\ c.id = calls[j].id
      BY <1>1, <2>4, <2>5 DEF AccountTypeOK, Call
    <2>7. disk.userlist \in U!Table
      BY <1>1, <2>1 DEF AccountTypeOK, Image, Foreground, ByRoot, AtConsole, Busy
    <2>8. usertable' = [disk.userlist EXCEPT ![e] = U!User(calls[j].id, pw)]
      <3>1. usertable' = [usertable EXCEPT ![e].id = calls[j].id, ![e].password = pw]
        BY <1>4, <2>2 DEF U!useradd_name
      <3>2. usertable \in U!Table /\ usertable' \in U!Table
        BY <1>1, <1>4, AccountTypeStep DEF AccountTypeOK, AccountInv, U!Next
      <3>3. usertable'[e] = U!User(calls[j].id, pw)
        <4>1. usertable[e].valid
          BY <2>3, <2>7 DEF U!Table, U!Row
        <4> QED
          BY <3>1, <3>2, <4>1 DEF U!User, U!Table, U!Row
      <3>4. \A i \in U!Entry \ {e} : usertable'[i] = disk.userlist[i]
        BY <2>3, <2>7, <3>1, <3>2 DEF U!Table
      <3> QED
        BY <2>7, <3>2, <3>3, <3>4 DEF U!Table
    <2>9. Adds(j)'
      <3>1. disk' = disk /\ calls'[j].id = calls[j].id
        BY <1>4, <2>6 DEF U!useradd_name
      <3>2. ~U!Has(disk.userlist, calls[j].id)'
        BY <2>3, <3>1 DEF U!Has
      <3>3. ~disk'.userlist[e].valid /\ usertable' = [disk'.userlist EXCEPT ![e] = U!User(calls'[j].id, pw)]
        BY <2>3, <2>8, <3>1
      <3> QED
        BY <3>2, <3>3 DEF Adds
    <2>10. Progress(j)'
      BY <1>4, <2>3, <2>6, <2>9 DEF U!useradd_name, Progress
    <2> QED
      BY <1>1, <1>4, <2>1, <2>5, <2>6, <2>10, CallStep DEF U!useradd_name
  <1>5. ASSUME U!useradd_home(j) PROVE Foreground'
    <2>1. calls[j].pc = "home" /\ Progress(j)
      BY <1>1, <1>5 DEF U!useradd_home, Busy
    <2>2. Adds(j) /\ cached = [userlist |-> usertable, homes |-> disk.homes]
      BY <2>1 DEF Progress
    <2>3. PICK c \in Call : c = [calls[j] EXCEPT !.pc = "end"]
      BY <1>1 DEF AccountTypeOK, Call
    <2>4. calls' = [calls EXCEPT ![j] = c]
      BY <1>1, <1>5, <2>3 DEF U!useradd_home, AccountTypeOK
    <2>5. calls'[j] = c /\ c.pc = "end" /\ c.id = calls[j].id
      BY <1>1, <2>3, <2>4 DEF AccountTypeOK, Call
    <2>6. cached' = [userlist |-> usertable, homes |-> disk.homes \union {calls[j].id}]
      BY <1>5, <2>2 DEF U!useradd_home
    <2>7. Adds(j)'
      BY <1>5, <2>2, <2>5 DEF U!useradd_home, Adds, U!Has
    <2>8. Progress(j)'
      BY <1>5, <2>5, <2>6, <2>7 DEF U!useradd_home, Progress
    <2> QED
      BY <1>1, <1>5, <2>1, <2>4, <2>5, <2>8, CallStep DEF U!useradd_home
  <1> QED
    BY <1>2, <1>3, <1>3a, <1>4, <1>5

LEMMA ForegroundDel ==
  ASSUME U!ConstantsAssumption, AccountInv, Foreground, ~background, NEW j \in Job,
         (\E id \in Id : U!userdel(j, id)) \/ U!userdel_unset(j) \/ U!write(j)
  PROVE  Foreground'
  <1>1. AccountTypeOK /\ Arguments /\ (Busy(j) => Progress(j))
    BY DEF AccountInv, Foreground, InOrder
  <1>2. ASSUME NEW id \in Id, U!userdel(j, id) PROVE Foreground'
    <2>1. cached = disk /\ usertable = disk.userlist
      BY <1>2, AtRestTable DEF U!userdel
    <2>2. PICK e \in U!Entry :
             /\ calls' = [calls EXCEPT ![j].pc = "unset", ![j].id = id, ![j].entry = e]
             /\ usertable[e].valid /\ usertable[e].id = id
      <3>1. PICK S : S = {i \in U!Entry : usertable[i].valid /\ usertable[i].id = id}
        OBVIOUS
      <3>2. S \in SUBSET U!Entry /\ S # {}
        BY <1>2, <3>1 DEF U!userdel, U!Has
      <3>3. calls' = [calls EXCEPT ![j].pc = "unset", ![j].id = id, ![j].entry = U!Min(S)]
        BY <1>2, <3>1 DEF U!userdel
      <3>4. U!Min(S) \in S
        BY <3>2, LeastOne
      <3> QED
        BY <3>1, <3>3, <3>4
    <2>3. PICK c \in Call : c = [calls[j] EXCEPT !.pc = "unset", !.id = id, !.entry = e]
      <3>1. e \in 0..Nusers
        BY DEF U!Entry, U!ConstantsAssumption
      <3> QED
        BY <1>1, <3>1 DEF AccountTypeOK, Call
    <2>4. calls' = [calls EXCEPT ![j] = c]
      BY <1>1, <2>2, <2>3 DEF AccountTypeOK
    <2>5. calls'[j] = c /\ c.pc = "unset" /\ c.id = id /\ c.entry = e
      BY <1>1, <2>3, <2>4 DEF AccountTypeOK, Call
    <2>6. Progress(j)'
      BY <1>2, <2>1, <2>2, <2>5 DEF U!userdel, Progress
    <2> QED
      BY <1>1, <1>2, <2>4, <2>5, <2>6, CallStarts DEF U!userdel
  <1>4. ASSUME U!userdel_unset(j) PROVE Foreground'
    <2>1. calls[j].pc = "unset" /\ Progress(j)
      BY <1>1, <1>4 DEF U!userdel_unset, Busy
    <2>2. PICK e \in U!Entry : e = calls[j].entry
      BY <1>1, <2>1 DEF Arguments
    <2>3. /\ cached = disk /\ usertable = disk.userlist
          /\ disk.userlist[e].valid /\ disk.userlist[e].id = calls[j].id
      BY <2>1, <2>2 DEF Progress
    <2>4. PICK c \in Call : c = [calls[j] EXCEPT !.pc = "erase"]
      BY <1>1 DEF AccountTypeOK, Call
    <2>5. calls' = [calls EXCEPT ![j] = c]
      BY <1>1, <1>4, <2>4 DEF U!userdel_unset, AccountTypeOK
    <2>6. calls'[j] = c /\ c.pc = "erase" /\ c.id = calls[j].id
      BY <1>1, <2>4, <2>5 DEF AccountTypeOK, Call
    <2>7. usertable' = [disk.userlist EXCEPT ![e].valid = FALSE]
      BY <1>4, <2>2, <2>3 DEF U!userdel_unset
    <2>8. Deletes(j)'
      BY <1>4, <2>3, <2>6, <2>7 DEF U!userdel_unset, Deletes
    <2>9. Progress(j)'
      BY <1>4, <2>3, <2>6, <2>8 DEF U!userdel_unset, Progress
    <2> QED
      BY <1>1, <1>4, <2>1, <2>5, <2>6, <2>9, CallStep DEF U!userdel_unset
  <1>3. ASSUME U!write(j) PROVE Foreground'
    <2>1. calls[j].pc \in {"write", "erase"} /\ Progress(j)
      BY <1>1, <1>3 DEF U!write, Busy
    <2>2. PICK to \in {"home", "end"} : to = IF calls[j].pc = "write" THEN "home" ELSE "end"
      OBVIOUS
    <2>3. PICK c \in Call : c = [calls[j] EXCEPT !.pc = to]
      BY <1>1 DEF AccountTypeOK, Call
    <2>4. calls' = [calls EXCEPT ![j] = c]
      BY <1>1, <1>3, <2>2, <2>3 DEF U!write, AccountTypeOK
    <2>5. calls'[j] = c /\ c.pc = to /\ c.id = calls[j].id
      BY <1>1, <2>3, <2>4 DEF AccountTypeOK, Call
    <2>6. cached = disk /\ disk \in [userlist : U!Table \union {None}, homes : SUBSET Id]
      BY <1>1, <2>1 DEF Progress, AccountTypeOK, Image
    <2>7. cached' = [userlist |-> usertable, homes |-> disk.homes]
      BY <1>3, <2>6 DEF U!write
    <2>8. CASE calls[j].pc = "write"
      <3>1. Adds(j)
        BY <2>1, <2>8 DEF Progress
      <3>2. Adds(j)'
        BY <1>3, <2>5, <3>1 DEF U!write, Adds, U!Has
      <3>3. Progress(j)'
        BY <1>3, <2>2, <2>5, <2>7, <2>8, <3>2 DEF U!write, Progress
      <3> QED
        BY <1>1, <1>3, <2>1, <2>2, <2>4, <2>5, <3>3, CallStep DEF U!write
    <2>9. CASE calls[j].pc = "erase"
      <3>1. Deletes(j)
        BY <2>1, <2>9 DEF Progress
      <3>2. Deletes(j)'
        BY <1>3, <2>5, <3>1 DEF U!write, Deletes
      <3>3. Progress(j)'
        BY <1>3, <2>2, <2>5, <2>7, <2>9, <3>2 DEF U!write, Progress
      <3> QED
        BY <1>1, <1>3, <2>1, <2>2, <2>4, <2>5, <3>3, CallStep DEF U!write
    <2> QED
      BY <2>1, <2>8, <2>9
  <1> QED
    BY <1>2, <1>3, <1>4

\* Where a call that ends has got.
LEMMA AtEnd ==
  ASSUME AccountInv, Foreground, ~background, NEW j \in Job, U!end_op(j)
  PROVE  /\ disk' = cached /\ disk.userlist \in U!Table /\ Distinct(disk.userlist)
         /\ calls[j].id \in Id /\ session = Root
         /\ cached.userlist = usertable
         /\ \/ Adds(j) /\ cached.homes = disk.homes \union {calls[j].id}
            \/ Deletes(j) /\ cached.homes = disk.homes
  <1>1. calls[j].pc = "end" /\ Busy(j) /\ cached' = cached
    BY DEF U!end_op, Busy
  <1>2. \A i \in Job \ {j} : ~U!InTransaction(i)
    BY <1>1 DEF Foreground, OneCall, Busy, U!InTransaction
  <1>3. disk' = cached
    BY <1>1, <1>2 DEF U!end_op, U!Commit
  <1>4. Progress(j) /\ console = "shell" /\ session = Root
    BY <1>1 DEF Foreground, InOrder, ByRoot
  <1>5. disk.userlist \in U!Table /\ Distinct(disk.userlist)
    BY <1>4 DEF Foreground, AtConsole, AccountInv, AccountTypeOK, Image
  <1>6. calls[j].id \in Id
    BY <1>1 DEF AccountInv, Arguments
  <1> QED
    BY <1>1, <1>3, <1>4, <1>5, <1>6 DEF Progress

LEMMA ForegroundEnd ==
  ASSUME U!ConstantsAssumption, AccountInv, Foreground, ~background, NEW j \in Job, U!end_op(j)
  PROVE  Foreground'
  <1>1. calls' = [calls EXCEPT ![j] = U!Idle] /\ Busy(j)
        /\ UNCHANGED <<usertable, cached, console, copy, session, background>>
    BY DEF U!end_op, Busy
  <1>2. \A i \in Job : ~Busy(i)'
    BY <1>1 DEF Foreground, OneCall, Busy, U!Idle, AccountInv, AccountTypeOK
  <1>3. OneCall' /\ ByRoot' /\ InOrder'
    BY <1>2 DEF OneCall, ByRoot, InOrder
  <1>4. disk' = cached' /\ disk'.userlist = usertable'
    BY <1>1, AtEnd
  <1>5. Distinct(usertable)
    <2>1. CASE Adds(j)
      <3>1. PICK e \in U!Entry, pw \in Password :
              usertable = [disk.userlist EXCEPT ![e] = U!User(calls[j].id, pw)]
        BY <2>1 DEF Adds
      <3>2. PICK t \in U!Table : t = disk.userlist
        BY AtEnd
      <3>3. Distinct(t) /\ ~U!Has(t, calls[j].id) /\ calls[j].id \in Id
        BY <2>1, <3>2, AtEnd DEF Adds
      <3> QED
        BY <3>1, <3>2, <3>3, StaysDistinct
    <2>2. CASE Deletes(j)
      BY <2>2, AtEnd, StaysDistinct DEF Deletes
    <2> QED
      BY <2>1, <2>2, AtEnd
  <1>6. usertable \in U!Table
    BY DEF AccountInv, AccountTypeOK
  <1>7. AtRest'
    BY <1>4 DEF AtRest
  <1>8. AtConsole'
    <2>1. console = "shell"
      BY <1>1 DEF Foreground, ByRoot
    <2>2. usertable # None
      BY <1>6 DEF U!ConstantsAssumption
    <2> QED
      BY <1>1, <1>4, <1>5, <2>1, <2>2 DEF AtConsole, Distinct
  <1> QED
    BY <1>3, <1>7, <1>8 DEF Foreground

LEMMA ForegroundConsole ==
  ASSUME U!ConstantsAssumption, AccountInv, Foreground, ~background,
         U!init_usertable \/ U!login_read \/ U!login \/ U!logout \/ U!Crash
  PROVE  Foreground'
  <1>1. AccountTypeOK /\ AtRest /\ AtConsole /\ ByRoot
    BY DEF AccountInv, Foreground
  <1>2. CASE U!init_usertable
    <2>1. \A j \in Job : ~Busy(j)
      BY <1>1, <1>2 DEF U!init_usertable, ByRoot
    <2>2. cached = disk /\ disk' = cached'
      BY <1>1, <1>2, <2>1 DEF U!init_usertable, AtRest, U!Commit, Busy, U!InTransaction
    <2>3. usertable' \in U!Table /\ usertable' # None
      <3>1. AccountTypeOK'
        BY <1>2, AccountTypeStep DEF AccountInv, U!Next
      <3> QED
        BY <3>1 DEF AccountTypeOK, U!ConstantsAssumption
    <2>4. disk'.userlist = usertable' /\ Distinct(usertable')
      <3>1. CASE cached.userlist = None
        <4>1. disk'.userlist = usertable'
          BY <1>1, <1>2, <2>2, <3>1 DEF U!init_usertable, AccountTypeOK, Image
        <4>2. usertable' = [i \in U!Entry |-> IF i = 1 THEN U!User(Root, RootPassword)
                                            ELSE [usertable[i] EXCEPT !.valid = FALSE]]
          BY <1>2, <3>1 DEF U!init_usertable
        <4>3. \A i \in U!Entry : usertable'[i].valid => i = 1
          BY <1>1, <4>2 DEF AccountTypeOK, U!Table, U!Row
        <4> QED
          BY <4>1, <4>3 DEF Distinct
      <3>2. CASE cached.userlist # None
        BY <1>1, <1>2, <2>2, <3>2 DEF U!init_usertable, AtConsole
      <3> QED
        BY <3>1, <3>2
    <2>5. AtRest' /\ AtConsole'
      BY <1>1, <1>2, <2>2, <2>3, <2>4 DEF U!init_usertable, AtRest, AtConsole, Distinct
    <2> QED
      BY <1>2, <2>1, <2>5, IdleStep DEF U!init_usertable
  <1>3. CASE U!login_read
    <2>1. \A j \in Job : ~Busy(j)
      BY <1>1, <1>3 DEF U!login_read, ByRoot
    <2>2. AtRest' /\ AtConsole'
      BY <1>1, <1>3, <2>1 DEF U!login_read, AtRest, AtConsole, Distinct
    <2> QED
      BY <1>3, <2>1, <2>2, IdleStep DEF U!login_read
  <1>4. CASE U!login
    <2>1. \A j \in Job : ~Busy(j)
      BY <1>1, <1>4 DEF U!login, ByRoot
    <2>2. AtRest' /\ AtConsole'
      BY <1>1, <1>4, <2>1 DEF U!login, AtRest, AtConsole, Distinct
    <2> QED
      BY <1>4, <2>1, <2>2, IdleStep DEF U!login
  <1>5. CASE U!logout
    <2>1. \A j \in Job : ~Busy(j)
      BY <1>5 DEF U!logout, Busy
    <2>2. AtRest' /\ AtConsole'
      BY <1>1, <1>5, <2>1 DEF U!logout, AtRest, AtConsole, Distinct
    <2> QED
      BY <1>5, <2>1, <2>2, IdleStep DEF U!logout
  <1>6. CASE U!Crash
    <2>1. \A j \in Job : ~Busy(j)'
      BY <1>6 DEF U!Crash, Busy, U!Idle
    <2>2. OneCall' /\ ByRoot' /\ InOrder'
      BY <2>1 DEF OneCall, ByRoot, InOrder
    <2>3. AtRest' /\ AtConsole'
      BY <1>1, <1>6 DEF U!Crash, AtRest, AtConsole, Distinct
    <2> QED
      BY <2>2, <2>3 DEF Foreground
  <1> QED
    BY <1>2, <1>3, <1>4, <1>5, <1>6

LEMMA ForegroundStep ==
  ASSUME U!ConstantsAssumption, AccountInv, Foreground, [U!Next]_(U!vars)
  PROVE  Foreground'
  <1>1. background' = background
    BY DEF U!Next, U!useradd, U!useradd_look, U!useradd_take, U!useradd_name, U!useradd_home,
           U!userdel, U!userdel_unset, U!write, U!end_op,
           U!init_usertable, U!login_read, U!login, U!logout, U!kill_login, U!Crash, U!vars
  <1>2. CASE background
    BY <1>1, <1>2 DEF Foreground
  <1>3. CASE ~background
    <2>1. CASE UNCHANGED U!vars
      <3>1. OneCall' /\ ByRoot' /\ AtRest' /\ AtConsole'
        BY <1>3, <2>1 DEF U!vars, Foreground, OneCall, ByRoot, AtRest, AtConsole, Busy, Distinct
      <3>2. ASSUME NEW j \in Job, Busy(j)' PROVE Progress(j)'
        <4>1. Progress(j)
          BY <1>3, <2>1, <3>2 DEF U!vars, Foreground, InOrder, Busy
        <4>2. (Adds(j)' <=> Adds(j)) /\ (Deletes(j)' <=> Deletes(j))
          BY <2>1 DEF U!vars, Adds, Deletes, U!Has
        <4>3. U!Has(disk.userlist, calls[j].id)' <=> U!Has(disk.userlist, calls[j].id)
          BY <2>1 DEF U!vars, U!Has
        <4> QED
          BY <2>1, <4>1, <4>2, <4>3 DEF U!vars, Progress
      <3> QED
        BY <3>1, <3>2 DEF Foreground, InOrder
    <2>2. ~U!kill_login
      BY <1>3 DEF U!kill_login
    <2> QED
      BY <1>3, <2>1, <2>2, ForegroundAdd, ForegroundDel, ForegroundEnd, ForegroundConsole DEF U!Next
  <1> QED
    BY <1>2, <1>3

-----------------------------------------------------------------------------
(* What the disk promises                                                     *)

Acc(list) == {[id |-> u.id, password |-> u.password] : u \in U!AccountsIn(list)}

LEMMA AccIn ==
  ASSUME U!ConstantsAssumption, NEW t \in U!Table
  PROVE  /\ \A i \in U!Entry : t[i].valid => U!A!Account(t[i].id, t[i].password) \in Acc(t)
         /\ \A a \in Acc(t) : \E i \in U!Entry :
                t[i].valid /\ a = U!A!Account(t[i].id, t[i].password)
         /\ Acc(None) = {U!A!Account(Root, RootPassword)}
  <1>1. U!AccountsIn(t) = {t[i] : i \in {k \in U!Entry : t[k].valid}}
    BY DEF U!AccountsIn, U!ConstantsAssumption
  <1>2. ASSUME NEW i \in U!Entry, t[i].valid
        PROVE  U!A!Account(t[i].id, t[i].password) \in Acc(t)
    BY <1>1, <1>2 DEF Acc, U!A!Account
  <1>3. ASSUME NEW a \in Acc(t)
        PROVE  \E i \in U!Entry : t[i].valid /\ a = U!A!Account(t[i].id, t[i].password)
    BY <1>1, <1>3 DEF Acc, U!A!Account
  <1>4. Acc(None) = {U!A!Account(Root, RootPassword)}
    BY DEF Acc, U!AccountsIn, U!A!Account, U!User
  <1> QED
    BY <1>2, <1>3, <1>4

LEMMA AccAdd ==
  ASSUME U!ConstantsAssumption, NEW t \in U!Table, NEW s \in U!Table, NEW e \in U!Entry, ~t[e].valid,
         NEW id \in Id, NEW pw \in Password,
         s[e] = U!User(id, pw), \A i \in U!Entry \ {e} : s[i] = t[i]
  PROVE  Acc(s) = Acc(t) \union {U!A!Account(id, pw)}
  <1>1. s[e] = U!User(id, pw) /\ \A i \in U!Entry \ {e} : s[i] = t[i]
    OBVIOUS
  <1>2. ASSUME NEW a \in Acc(s) PROVE a \in Acc(t) \union {U!A!Account(id, pw)}
    <2>1. PICK i \in U!Entry : s[i].valid /\ a = U!A!Account(s[i].id, s[i].password)
      BY <1>2, AccIn
    <2> QED
      BY <1>1, <2>1, AccIn DEF U!User
  <1>3. ASSUME NEW a \in Acc(t) PROVE a \in Acc(s)
    <2>1. PICK i \in U!Entry : t[i].valid /\ a = U!A!Account(t[i].id, t[i].password)
      BY <1>3, AccIn
    <2> QED
      BY <1>1, <2>1, AccIn
  <1>4. U!A!Account(id, pw) \in Acc(s)
    <2>1. s[e].valid /\ s[e].id = id /\ s[e].password = pw
      BY <1>1 DEF U!User
    <2> QED
      BY <2>1, AccIn
  <1> QED
    BY <1>2, <1>3, <1>4

LEMMA AccDelete ==
  ASSUME U!ConstantsAssumption, NEW t \in U!Table, NEW s \in U!Table, Distinct(t),
         NEW e \in U!Entry, t[e].valid,
         ~s[e].valid, \A i \in U!Entry \ {e} : s[i] = t[i]
  PROVE  Acc(s) = {a \in Acc(t) : a.id # t[e].id}
  <1>1. ~s[e].valid /\ \A i \in U!Entry \ {e} : s[i] = t[i]
    OBVIOUS
  <1>2. ASSUME NEW a \in Acc(s) PROVE a \in Acc(t) /\ a.id # t[e].id
    <2>1. PICK i \in U!Entry : s[i].valid /\ a = U!A!Account(s[i].id, s[i].password)
      BY <1>2, AccIn
    <2>2. i # e /\ t[i].valid /\ a = U!A!Account(t[i].id, t[i].password)
      BY <1>1, <2>1
    <2>3. a.id = t[i].id
      BY <2>2 DEF U!A!Account
    <2> QED
      BY <2>2, <2>3, AccIn DEF Distinct
  <1>3. ASSUME NEW a \in Acc(t), a.id # t[e].id PROVE a \in Acc(s)
    <2>1. PICK i \in U!Entry : t[i].valid /\ a = U!A!Account(t[i].id, t[i].password)
      BY <1>3, AccIn
    <2>2. i # e
      BY <1>3, <2>1 DEF U!A!Account
    <2> QED
      BY <1>1, <2>1, <2>2, AccIn
  <1> QED
    BY <1>2, <1>3

\* A free row is a free account.
LEMMA Room ==
  ASSUME U!ConstantsAssumption, NEW t \in U!Table, NEW e \in U!Entry, ~t[e].valid
  PROVE  Cardinality(Acc(t)) < Nusers
  <1>1. IsFiniteSet(U!Entry) /\ Cardinality(U!Entry) = Nusers
    BY FS_Interval DEF U!Entry, U!ConstantsAssumption
  <1> DEFINE Rest == U!Entry \ {e}
  <1>2. IsFiniteSet(Rest) /\ Cardinality(Rest) = Nusers - 1
    BY <1>1, FS_RemoveElement
  <1>3. PICK f : f = [a \in Acc(t) |->
                        CHOOSE i \in U!Entry : t[i].valid /\ a = U!A!Account(t[i].id, t[i].password)]
    OBVIOUS
  <1>4. ASSUME NEW a \in Acc(t)
        PROVE  f[a] \in Rest /\ a = U!A!Account(t[f[a]].id, t[f[a]].password)
    <2>1. \E i \in U!Entry : t[i].valid /\ a = U!A!Account(t[i].id, t[i].password)
      BY <1>4, AccIn
    <2> QED
      BY <1>3, <2>1
  <1>5. f \in [Acc(t) -> Rest]
    BY <1>3, <1>4
  <1>6. IsInjective(f)
    BY <1>3, <1>4, <1>5 DEF IsInjective
  <1>7. f \in Injection(Acc(t), Rest)
    BY <1>5, <1>6 DEF Injection
  <1>8. IsFiniteSet(Acc(t)) /\ Cardinality(Acc(t)) <= Cardinality(Rest)
    BY <1>2, <1>7, FS_Injection
  <1> QED
    BY <1>2, <1>8, FS_CardinalityType DEF U!ConstantsAssumption

\* The accounts as Accounts is given them.
Promised == {[id |-> u.id, password |-> u.password] :
                u \in IF background THEN U!AccountsIn(None) ELSE U!AccountsIn(disk.userlist)}

LEMMA PromisedIs ==
  /\ background => Promised = Acc(None)
  /\ ~background => Promised = Acc(disk.userlist)
  BY DEF Promised, Acc

\* What the disk has to do for each step of Accounts.
LEMMA StepsOfAccounts ==
  ASSUME ~background, background' = background
  PROVE  /\ \A id \in Id, pw \in Password :
              /\ session = Root /\ session' = session
              /\ \A a \in Promised : a.id # id
              /\ Cardinality(Promised) < Nusers
              /\ Promised' = Promised \union {U!A!Account(id, pw)}
              /\ disk'.homes = disk.homes \union {id}
              => U!A!Next
         /\ \A id \in Id :
              /\ session = Root /\ session' = session /\ id # Root
              /\ Promised' = {a \in Promised : a.id # id}
              /\ disk'.homes = disk.homes
              => U!A!Next
         /\ \A a \in Promised :
              session = None /\ session' = a.id /\ disk' = disk => U!A!Next
         /\ session' = None /\ disk' = disk => U!A!Next
         /\ session' = session /\ Promised' = Promised /\ disk'.homes = disk.homes
              => UNCHANGED U!A!vars
  <1> DEFINE H == IF background THEN {} ELSE disk.homes
             S == IF background THEN None ELSE session
  <1>1. H = disk.homes /\ H' = disk'.homes /\ S = session /\ S' = session'
    OBVIOUS
  <1>2. disk' = disk => Promised' = Promised
    BY DEF Promised, U!AccountsIn
  <1>3. ASSUME NEW id \in Id, NEW pw \in Password,
               session = Root, session' = session,
               \A a \in Promised : a.id # id, Cardinality(Promised) < Nusers,
               Promised' = Promised \union {U!A!Account(id, pw)},
               disk'.homes = disk.homes \union {id}
        PROVE  U!A!Next
    <2>1. U!A!Cardinality(Promised) < Nusers
      BY <1>3 DEF Cardinality, U!A!Cardinality
    <2>2. U!A!Add(id, pw)
      BY <1>1, <1>3, <2>1 DEF U!A!Add, Promised
    <2> QED
      BY <2>2 DEF U!A!Next
  <1>4. ASSUME NEW id \in Id, session = Root, session' = session, id # Root,
               Promised' = {a \in Promised : a.id # id}, disk'.homes = disk.homes
        PROVE  U!A!Next
    <2>1. U!A!Delete(id)
      BY <1>1, <1>4 DEF U!A!Delete, Promised
    <2> QED
      BY <2>1 DEF U!A!Next
  <1>5. ASSUME NEW a \in Promised, session = None, session' = a.id, disk' = disk
        PROVE  U!A!Next
    <2>1. U!A!LogIn(a)
      BY <1>1, <1>2, <1>5 DEF U!A!LogIn, Promised
    <2> QED
      BY <2>1 DEF U!A!Next, Promised
  <1>6. ASSUME session' = None, disk' = disk PROVE U!A!Next
    <2>1. U!A!LogOut
      BY <1>1, <1>2, <1>6 DEF U!A!LogOut, Promised
    <2> QED
      BY <2>1 DEF U!A!Next
  <1>7. ASSUME session' = session, Promised' = Promised, disk'.homes = disk.homes
        PROVE  UNCHANGED U!A!vars
    BY <1>1, <1>7 DEF U!A!vars, Promised
  <1> QED
    BY <1>3, <1>4, <1>5, <1>6, <1>7

LEMMA EndMaps ==
  ASSUME U!ConstantsAssumption, AccountInv, Foreground, ~background, NEW j \in Job, U!end_op(j)
  PROVE  U!A!Next
  <1>1. UNCHANGED <<session, background, usertable>>
    BY DEF U!end_op
  <1>2. PICK t \in U!Table, id \in Id : t = disk.userlist /\ id = calls[j].id
    BY AtEnd
  <1>3. PICK s \in U!Table : s = usertable
    BY DEF AccountInv, AccountTypeOK
  <1>4. /\ disk'.userlist = s /\ Distinct(t) /\ session = Root
        /\ \/ Adds(j) /\ disk'.homes = disk.homes \union {id}
           \/ Deletes(j) /\ disk'.homes = disk.homes
    BY <1>2, <1>3, AtEnd
  <1>5. Promised = Acc(t) /\ Promised' = Acc(s)
    BY <1>1, <1>2, <1>4, PromisedIs DEF Promised, Acc
  <1>6. CASE Adds(j) /\ disk'.homes = disk.homes \union {id}
    <2>1. PICK e \in U!Entry, pw \in Password : ~t[e].valid /\ s = [t EXCEPT ![e] = U!User(id, pw)]
      BY <1>2, <1>3, <1>6 DEF Adds
    <2>2. Acc(s) = Acc(t) \union {U!A!Account(id, pw)}
      <3>1. s[e] = U!User(id, pw) /\ \A i \in U!Entry \ {e} : s[i] = t[i]
        BY <2>1 DEF U!Table
      <3>2. t \in U!Table /\ s \in U!Table /\ e \in U!Entry /\ id \in Id /\ pw \in Password /\ ~t[e].valid
        BY <2>1
      <3> HIDE DEF U!Table, U!Entry
      <3> QED
        BY <3>1, <3>2, AccAdd
    <2>3. Cardinality(Acc(t)) < Nusers
      BY <2>1, Room
    <2>4. \A a \in Acc(t) : a.id # id
      <3>1. ~U!Has(t, id)
        BY <1>2, <1>6 DEF Adds
      <3>2. ASSUME NEW a \in Acc(t) PROVE a.id # id
        <4>1. PICK i \in U!Entry : t[i].valid /\ a = U!A!Account(t[i].id, t[i].password)
          BY AccIn
        <4> QED
          BY <3>1, <4>1 DEF U!Has, U!A!Account
      <3> QED
        BY <3>2
    <2> QED
      BY <1>1, <1>4, <1>5, <1>6, <2>2, <2>3, <2>4, StepsOfAccounts
  <1>7. CASE Deletes(j) /\ disk'.homes = disk.homes
    <2>1. PICK e \in U!Entry : t[e].valid /\ t[e].id = id /\ s = [t EXCEPT ![e].valid = FALSE]
      BY <1>2, <1>3, <1>7 DEF Deletes
    <2>2. Acc(s) = {a \in Acc(t) : a.id # id}
      <3>1. ~s[e].valid /\ \A i \in U!Entry \ {e} : s[i] = t[i]
        BY <2>1 DEF U!Table, U!Row
      <3>2. Acc(s) = {a \in Acc(t) : a.id # t[e].id}
        BY <1>4, <2>1, <3>1, AccDelete
      <3> QED
        BY <2>1, <3>2
    <2>3. id # Root
      BY DEF U!ConstantsAssumption
    <2> QED
      BY <1>1, <1>4, <1>5, <1>7, <2>2, <2>3, StepsOfAccounts
  <1> QED
    BY <1>4, <1>6, <1>7

\* The first table has the account that was there without it.
LEMMA FirstTable ==
  ASSUME U!ConstantsAssumption, AccountInv, Foreground, ~background, U!init_usertable
  PROVE  UNCHANGED U!A!vars
  <1>1. console = "init" /\ UNCHANGED <<session, calls, background>>
    BY DEF U!init_usertable
  <1>2. \A j \in Job : ~Busy(j)
    BY <1>1 DEF Foreground, ByRoot
  <1>3. cached = disk /\ disk' = cached'
    BY <1>1, <1>2 DEF U!init_usertable, Foreground, AtRest, U!Commit, Busy, U!InTransaction
  <1>4. CASE cached.userlist = None
    <2>1. PICK s \in U!Table : s = usertable'
      <3>1. AccountTypeOK'
        BY AccountTypeStep DEF AccountInv, U!Next
      <3> QED
        BY <3>1 DEF AccountTypeOK
    <2>2. s = [i \in U!Entry |-> IF i = 1 THEN U!User(Root, RootPassword)
                               ELSE [usertable[i] EXCEPT !.valid = FALSE]]
      BY <1>4, <2>1 DEF U!init_usertable
    <2>3. 1 \in U!Entry /\ s[1] = U!User(Root, RootPassword)
      BY <2>2 DEF U!Entry, U!ConstantsAssumption
    <2>4. \A i \in U!Entry : s[i].valid => i = 1
      BY <2>2 DEF AccountInv, AccountTypeOK, U!Table, U!Row
    <2>5. s[1].valid /\ s[1].id = Root /\ s[1].password = RootPassword
      BY <2>3 DEF U!User
    <2>6. U!A!Account(Root, RootPassword) \in Acc(s)
      BY <2>3, <2>5, AccIn
    <2>7. ASSUME NEW a \in Acc(s) PROVE a = U!A!Account(Root, RootPassword)
      <3>1. PICK i \in U!Entry : s[i].valid /\ a = U!A!Account(s[i].id, s[i].password)
        BY AccIn
      <3> QED
        BY <2>4, <2>5, <3>1
    <2>8. Acc(s) = Acc(None)
      BY <2>6, <2>7, AccIn
    <2>9. disk'.userlist = s /\ disk'.homes = disk.homes
      BY <1>3, <1>4, <2>1 DEF U!init_usertable, AccountInv, AccountTypeOK, Image
    <2>10. Promised = Acc(None) /\ Promised' = Acc(s)
      BY <1>1, <1>3, <1>4, <2>9, PromisedIs DEF Promised, Acc
    <2> QED
      BY <1>1, <2>8, <2>9, <2>10, StepsOfAccounts
  <1>5. CASE cached.userlist # None
    <2>1. disk' = disk
      BY <1>3, <1>5 DEF U!init_usertable
    <2>2. Promised' = Promised
      BY <1>1, <2>1 DEF Promised, U!AccountsIn
    <2> QED
      BY <1>1, <2>1, <2>2, StepsOfAccounts
  <1> QED
    BY <1>4, <1>5

LEMMA AccountsStep ==
  ASSUME U!ConstantsAssumption, AccountInv, Foreground, [U!Next]_(U!vars)
  PROVE  [U!A!Next]_(U!A!vars)
  <1>1. background' = background
    BY DEF U!Next, U!useradd, U!useradd_look, U!useradd_take, U!useradd_name, U!useradd_home,
           U!userdel, U!userdel_unset, U!write, U!end_op,
           U!init_usertable, U!login_read, U!login, U!logout, U!kill_login, U!Crash, U!vars
  <1>2. CASE background
    BY <1>1, <1>2 DEF U!A!vars, U!AccountsIn
  <1>3. CASE ~background
    <2>1. UNCHANGED <<disk, session>> => UNCHANGED U!A!vars
      BY <1>1, <1>3 DEF U!A!vars, U!AccountsIn
    <2>2. ASSUME NEW j \in Job,
                 \/ \E id \in Id, pw \in Password : U!useradd(j, id, pw)
                 \/ \E id \in Id : U!userdel(j, id)
                 \/ U!useradd_look(j) \/ U!useradd_take(j) \/ U!useradd_name(j) \/ U!useradd_home(j)
                 \/ U!userdel_unset(j) \/ U!write(j)
          PROVE  UNCHANGED <<disk, session>>
      BY <2>2 DEF U!useradd, U!useradd_look, U!useradd_take, U!useradd_name, U!useradd_home,
                  U!userdel, U!userdel_unset, U!write
    <2>3. CASE U!login
      <3>1. copy = disk.userlist /\ session = None /\ disk' = disk
        BY <1>3, <2>3 DEF U!login, Foreground, AtConsole
      <3>2. PICK t \in U!Table : t = copy
        BY <2>3 DEF U!login, AccountInv, AccountTypeOK, Loaded
      <3>3. PICK i \in U!Entry : t[i].valid /\ session' = t[i].id
        BY <2>3, <3>2 DEF U!login
      <3>4. PICK a : a = U!A!Account(t[i].id, t[i].password)
        OBVIOUS
      <3>5. a \in Promised /\ a.id = t[i].id
        BY <1>3, <3>1, <3>2, <3>3, <3>4, AccIn, PromisedIs DEF U!A!Account
      <3> QED
        BY <1>1, <1>3, <3>1, <3>3, <3>5, StepsOfAccounts
    <2>4. CASE U!logout \/ U!Crash
      BY <1>1, <1>3, <2>4, StepsOfAccounts DEF U!logout, U!Crash
    <2>5. CASE U!login_read \/ U!kill_login \/ UNCHANGED U!vars
      BY <2>1, <2>5 DEF U!login_read, U!kill_login, U!vars
    <2> QED
      BY <1>3, <2>1, <2>2, <2>3, <2>4, <2>5, EndMaps, FirstTable DEF U!Next
  <1> QED
    BY <1>2, <1>3

LEMMA AccountsInit ==
  ASSUME U!Init PROVE U!A!Init
  BY DEF U!Init, U!A!Init, U!A!Account, U!AccountsIn, U!User

(* As long as root's shell waits for its commands, useradd and userdel        *)
(* (fs.c:812-889) change the accounts at once and for good wherever the       *)
(* machine stops, home directory included, never more than usertable has room *)
(* for, and login lets nobody in without an account: Users implements         *)
(* Accounts, for every number of entries, users, passwords and calls.         *)
THEOREM AccountsKept ==
  ASSUME U!ConstantsAssumption PROVE U!Spec => ImplementsAccounts
  <1>1. U!Init => AccountInv /\ Foreground /\ U!A!Init
    BY InvInductive, ForegroundInit, AccountsInit
  <1>2. AccountInv /\ Foreground /\ [U!Next]_(U!vars) => AccountInv' /\ Foreground' /\ [U!A!Next]_(U!A!vars)
    BY InvInductive, ForegroundStep, AccountsStep
  <1> QED
    BY <1>1, <1>2, PTL DEF U!Spec, ImplementsAccounts, U!ImplementsAccounts, U!A!Spec

-----------------------------------------------------------------------------
(* Switch: locks, switches, sleep and wakeup                                  *)

(* Where a process may be, in a call and in a handler, and the scheduler of a *)
(* processor.                                                                 *)
CallPlaces ==
    {"user", "sysret", "sys_sleep", "sleepAgain", "sleep", "letGo", "sleepSwtch", "slept",
     "sleepDone", "wait", "waitScan", "waitSwtch", "exit", "exitSwtch", "allocproc", "found",
     "copyuvm", "fork", "done", "kill", "forkret", "trapret"}
TrapPlaces ==
    {"none", "tick", "wakeup", "woken", "ticked", "trapEnd", "iret", "yield", "yieldSwtch",
     "yielded", "exit", "exitSwtch"}
LoopPlaces == {"loop", "scheduler", "scan", "round"}
LoopTraps == {"none", "tick", "wakeup", "woken", "ticked", "trapEnd", "iret"}

\* Where a thread holds ptable.lock, where tickslock, and where it may be
\* interrupted: without a lock.
WithTable ==
    {"letGo", "sleepSwtch", "slept", "waitScan", "waitSwtch", "exitSwtch", "found", "done",
     "forkret", "yieldSwtch", "yielded", "woken", "scan", "round"}
WithTicks == {"sleep", "letGo", "sleepDone", "wakeup", "woken", "ticked"}
Open ==
    {"user", "sysret", "sys_sleep", "sleepAgain", "wait", "exit", "allocproc", "copyuvm",
     "fork", "kill", "trapret", "loop", "scheduler"}
Spins ==
    {"sys_sleep", "sleepAgain", "tick", "sleep", "wakeup", "wait", "exit", "allocproc",
     "fork", "kill", "yield", "scheduler"}
Switching == {"sleepSwtch", "waitSwtch", "yieldSwtch", "exitSwtch"}
SwitchForking == {"found", "copyuvm", "fork"}
Leaving == {"exit", "exitSwtch"}
Unborn == {"UNUSED", "EMBRYO", "ZOMBIE"}        \* the states of those that run no more, or not yet

Here(t) == IF trap[t] # "none" THEN trap[t] ELSE pc[t]
Trapped(c) == trap[K!Thread(c)] # "none"
SwitchBusy(c) == K!At(c) \in WithTable \/ K!At(c) \in WithTicks \/ c \in spinning
Runs(p) == \E c \in Cpu : proc[c] = p

SwitchTypes ==
    /\ owner \in [K!Lock -> Cpu \union {None}]
    /\ spinning \subseteq Cpu /\ iflag \subseteq Cpu /\ intena \subseteq Cpu
    /\ ncli \in [Cpu -> Int]
    /\ proc \in [Cpu -> Proc \union {None}]
    /\ pc \in [Proc \union Cpu -> CallPlaces \union LoopPlaces]
    /\ trap \in [Proc \union Cpu -> TrapPlaces]
    /\ saved \subseteq Proc /\ killed \subseteq Proc /\ stack \subseteq Proc
    /\ early \subseteq Proc
    /\ procstate \in [Proc -> {"UNUSED", "EMBRYO", "SLEEPING", "RUNNABLE", "RUNNING", "ZOMBIE"}]
    /\ parent \in [Proc -> Proc \union {None}]
    /\ chan \in [Proc -> Proc \union {None, "ticks"}]
    /\ np \in [Proc -> Proc \union {None}]

\* A process is on one processor at most; one that is on none has left through
\* sched() or has never run.
Threads ==
    /\ \A c, d \in Cpu : proc[c] = proc[d] /\ proc[c] # None => c = d
    /\ \A p \in Proc : pc[p] \in CallPlaces
    /\ \A c \in Cpu :
           /\ pc[c] \in LoopPlaces /\ trap[c] \in LoopTraps
           /\ proc[c] # None => pc[c] = "scan" /\ trap[c] = "none"
    /\ \A t \in Proc \union Cpu : trap[t] # "none" => pc[t] \in Open
    /\ \A p \in Proc : ~Runs(p) => Here(p) \in Switching \union {"forkret"}

\* Who holds a lock is at one of its places, and the other way round.
Locked ==
    \A c \in Cpu :
        /\ owner["ptable"] = c <=> K!At(c) \in WithTable
        /\ owner["ticks"] = c <=> K!At(c) \in WithTicks

\* ncli counts the locks held and waited for, and intena, or the intena that
\* sched() saved, is what interrupts were before the first of them.
FlagsOf(c) ==
    /\ ncli[c] = (IF K!At(c) \in WithTable THEN 1 ELSE 0) + (IF K!At(c) \in WithTicks THEN 1 ELSE 0)
                 + (IF c \in spinning THEN 1 ELSE 0)
    /\ c \in spinning => K!At(c) \in Spins
    /\ SwitchBusy(c) \/ Trapped(c) => c \notin iflag
    /\ Trapped(c) /\ SwitchBusy(c) => c \notin intena
    /\ ~Trapped(c) /\ ~SwitchBusy(c) /\ K!At(c) \notin {"trapret", "loop"} => c \in iflag
    /\ ~Trapped(c) /\ SwitchBusy(c) /\ K!At(c) \notin {"forkret", "scan", "round"} => c \in intena
ParkedFlags ==
    /\ \A p \in Proc : Runs(p) => p \notin saved
    /\ \A p \in Proc : ~Runs(p) /\ Here(p) # "forkret" => (p \in saved <=> trap[p] = "none")
Flags == (\A c \in Cpu : FlagsOf(c)) /\ ParkedFlags

\* The state of a process, where it is, and whether it has a stack.
StateAt(place) ==
    IF place \in {"sleepSwtch", "waitSwtch"} THEN "SLEEPING"
    ELSE IF place = "yieldSwtch" THEN "RUNNABLE"
    ELSE IF place = "exitSwtch" THEN "ZOMBIE" ELSE "RUNNING"
States ==
    /\ \A c \in Cpu : proc[c] # None =>
           procstate[proc[c]] = StateAt(K!At(c)) /\ proc[c] \in stack
    /\ \A p \in Proc : ~Runs(p) =>
           /\ procstate[p] # "RUNNING"
           /\ procstate[p] \in {"RUNNABLE", "SLEEPING"} => p \in stack
           /\ procstate[p] = "RUNNABLE" => Here(p) # "exitSwtch"
           /\ procstate[p] = "SLEEPING" => Here(p) \in {"sleepSwtch", "waitSwtch"}

\* A slot that fork took is that fork's alone.
Embryos ==
    /\ \A p \in Proc : np[p] # None <=> pc[p] \in SwitchForking
    /\ \A p \in Proc : np[p] # None => /\ procstate[np[p]] = "EMBRYO"
                                        /\ procstate[p] \notin Unborn /\ trap[p] \notin Leaving
    /\ \A p, q \in Proc : np[p] = np[q] /\ np[p] # None => p = q
    /\ \A p \in Proc : pc[p] = "fork" => np[p] \in stack /\ Here(np[p]) = "forkret"

\* init does not exit, and nobody is his own parent.
Family ==
    /\ \A p \in Proc : parent[p] # p
    /\ InitProc \notin killed /\ pc[InitProc] \notin Leaving
    /\ trap[InitProc] \notin Leaving
    /\ procstate[InitProc] \notin {"UNUSED", "EMBRYO", "ZOMBIE"} /\ parent[InitProc] = None

\* What a process sleeps for has not happened, or its wakeup is under way.
Sleepers ==
    /\ \A p \in Proc : procstate[p] = "SLEEPING" => chan[p] \in {"ticks", p}
    /\ \A p \in Proc : pc[p] \in {"sleep", "letGo"} => p \in early
    /\ K!NoLostWakeup

Control == SwitchTypes /\ Threads /\ Locked /\ Flags
SwitchInv == Control /\ States /\ Embryos /\ Family /\ Sleepers

-----------------------------------------------------------------------------
(* Places                                                                     *)
USE DEF Leaving, Unborn

\* Which lock acquire takes at which place.
LEMMA WantsAt ==
  /\ DOMAIN K!Wants = Spins
  /\ \A x \in Spins : K!Wants[x] = IF x \in {"sys_sleep", "sleepAgain", "tick"} THEN "ticks" ELSE "ptable"
  BY DEF K!Wants, Spins

\* Which lock release lets go where, and what follows.
LEMMA DropsAt ==
  /\ DOMAIN K!Drops = {"slept", "sleepDone", "found", "done", "yielded", "woken", "ticked", "round",
                     "forkret"}
  /\ \A x \in DOMAIN K!Drops :
        /\ K!Drops[x].lock = IF x \in {"sleepDone", "ticked"} THEN "ticks" ELSE "ptable"
        /\ x = "slept" => K!Drops[x].next = "sleepAgain"
        /\ x = "sleepDone" => K!Drops[x].next = "sysret"
        /\ x = "found" => K!Drops[x].next = "copyuvm"
        /\ x = "done" => K!Drops[x].next = "sysret"
        /\ x = "yielded" => K!Drops[x].next = "iret"
        /\ x = "woken" => K!Drops[x].next = "ticked"
        /\ x = "ticked" => K!Drops[x].next = "trapEnd"
        /\ x = "round" => K!Drops[x].next = "loop"
        /\ x = "forkret" => K!Drops[x].next = "trapret"
  BY DEF K!Drops

\* The calls of sched() and where they return.
LEMMA ResumesAt ==
  /\ DOMAIN K!Resumes = Switching
  /\ K!Resumes["sleepSwtch"] = "slept" /\ K!Resumes["waitSwtch"] = "waitScan"
  /\ K!Resumes["yieldSwtch"] = "yielded" /\ K!Resumes["exitSwtch"] = "zombie"
  BY DEF K!Resumes, Switching

\* Processes, processors, None and the channel of ticks differ.
LEMMA Constants ==
  ASSUME K!ConstantsAssumption
  PROVE  /\ InitProc \in Proc /\ BootCpu \in Cpu
         /\ None \notin Proc /\ None \notin Cpu
         /\ \A p \in Proc : p \notin Cpu /\ p # None /\ p # "ticks"
         /\ Victim \subseteq Proc /\ InitProc \notin Victim
  BY DEF K!ConstantsAssumption

\* On whose stack a processor is, and what the place says of it.
LEMMA Who ==
  ASSUME K!ConstantsAssumption, SwitchTypes, Threads, NEW c \in Cpu
  PROVE  /\ proc[c] = None => K!Thread(c) = c
         /\ proc[c] # None => proc[c] \in Proc /\ K!Thread(c) = proc[c] /\ Runs(proc[c])
         /\ K!Thread(c) \in Proc \union Cpu
         /\ K!At(c) = Here(K!Thread(c))
         /\ Trapped(c) => K!At(c) = trap[K!Thread(c)] /\ pc[K!Thread(c)] \in Open
         /\ ~Trapped(c) => K!At(c) = pc[K!Thread(c)]
         /\ \A d \in Cpu : K!Thread(d) = K!Thread(c) => d = c
  BY Constants DEF SwitchTypes, Threads, K!Thread, K!At, Here, Trapped, Runs

\* A handler's places, a call's places, and those of a scheduler.
LEMMA Where ==
  ASSUME K!ConstantsAssumption, SwitchTypes, Threads, NEW c \in Cpu
  PROVE  /\ Trapped(c) => K!At(c) \in TrapPlaces \ {"none"}
         /\ Trapped(c) /\ proc[c] = None => K!At(c) \in LoopTraps \ {"none"}
         /\ ~Trapped(c) /\ proc[c] = None => K!At(c) \in LoopPlaces
         /\ ~Trapped(c) /\ proc[c] # None => K!At(c) \in CallPlaces
  BY Constants, Who DEF SwitchTypes, Threads, Trapped

\* What a place alone says of the thread that is there.
LEMMA WhereCall ==
  ASSUME K!ConstantsAssumption, SwitchTypes, Threads, NEW c \in Cpu
  PROVE  /\ K!At(c) \in CallPlaces => proc[c] # None
         /\ K!At(c) \in CallPlaces \ Leaving => ~Trapped(c)
         /\ K!At(c) \in LoopPlaces => proc[c] = None /\ ~Trapped(c)
         /\ K!At(c) \in {"yield", "yieldSwtch", "yielded"} => proc[c] # None /\ Trapped(c)
         /\ K!At(c) \in {"tick", "wakeup", "woken", "ticked", "trapEnd", "iret"} => Trapped(c)
  BY Where DEF CallPlaces, LoopPlaces, TrapPlaces, LoopTraps

-----------------------------------------------------------------------------
(* What a step that moves one thread leaves alone.                            *)

MayGo(c, place) ==
    /\ Trapped(c) /\ proc[c] = None => place \in LoopTraps \ {"none"}
    /\ Trapped(c) /\ proc[c] # None => place \in TrapPlaces \ {"none"}
    /\ ~Trapped(c) /\ proc[c] = None => place \in LoopPlaces
    /\ ~Trapped(c) /\ proc[c] # None => place \in CallPlaces

\* The thread of one processor moves, everybody else stays.
LEMMA Moves ==
  ASSUME K!ConstantsAssumption, SwitchTypes, Threads, NEW c \in Cpu, NEW place, K!GoTo(c, place),
         MayGo(c, place), proc' = proc
  PROVE  /\ K!At(c)' = place /\ Trapped(c)' = Trapped(c)
         /\ \A d \in Cpu : d # c => K!At(d)' = K!At(d) /\ Trapped(d)' = Trapped(d)
         /\ \A p \in Proc : Runs(p)' = Runs(p)
         /\ \A p \in Proc : p # proc[c] => pc'[p] = pc[p] /\ trap'[p] = trap[p] /\ Here(p)' = Here(p)
         /\ proc[c] # None => pc'[proc[c]] = IF Trapped(c) THEN pc[proc[c]] ELSE place
         /\ proc[c] # None => trap'[proc[c]] = IF Trapped(c) THEN place ELSE "none"
         /\ pc' \in [Proc \union Cpu -> CallPlaces \union LoopPlaces]
         /\ trap' \in [Proc \union Cpu -> TrapPlaces]
         /\ Threads'
  <1>1. K!Thread(c) \in Proc \union Cpu /\ \A d \in Cpu : K!Thread(d)' = K!Thread(d)
    BY Who DEF K!Thread
  <1>2. CASE Trapped(c)
    <2>1. pc' = pc /\ trap' = [trap EXCEPT ![K!Thread(c)] = place] /\ place \in TrapPlaces \ {"none"}
      BY <1>2 DEF K!GoTo, Trapped, MayGo, LoopTraps, TrapPlaces
    <2>2. trap' \in [Proc \union Cpu -> TrapPlaces] /\ pc' \in [Proc \union Cpu -> CallPlaces \union LoopPlaces]
      BY <2>1 DEF SwitchTypes
    <2>3. /\ K!At(c)' = place /\ Trapped(c)' = Trapped(c)
          /\ \A d \in Cpu : d # c => K!At(d)' = K!At(d) /\ Trapped(d)' = Trapped(d)
      BY <1>1, <1>2, <2>1, Who DEF K!At, Trapped, SwitchTypes
    <2>4. /\ \A p \in Proc : p # proc[c] => pc'[p] = pc[p] /\ trap'[p] = trap[p] /\ Here(p)' = Here(p)
          /\ proc[c] # None => pc'[proc[c]] = pc[proc[c]] /\ trap'[proc[c]] = place
      BY <2>1, Who, Constants DEF Here, SwitchTypes
    <2>5. \A p \in Proc : Runs(p)' = Runs(p)
      BY DEF Runs
    <2>6. Threads'
      <3>1. \A d \in Cpu : /\ pc'[d] \in LoopPlaces /\ trap'[d] \in LoopTraps
                           /\ proc'[d] # None => pc'[d] = "scan" /\ trap'[d] = "none"
        BY <1>2, <2>1, Who, Constants DEF Threads, SwitchTypes, MayGo, Trapped
      <3>2. \A t \in Proc \union Cpu : trap'[t] # "none" => pc'[t] \in Open
        BY <1>2, <2>1 DEF Threads, SwitchTypes, Trapped
      <3>3. \A p \in Proc : ~Runs(p)' => Here(p)' \in Switching \union {"forkret"}
        BY <2>4, <2>5, Who, Constants DEF Threads
      <3> QED
        BY <2>1, <3>1, <3>2, <3>3 DEF Threads
    <2> QED
      BY <1>2, <2>2, <2>3, <2>4, <2>5, <2>6
  <1>3. CASE ~Trapped(c)
    <2>1. trap' = trap /\ pc' = [pc EXCEPT ![K!Thread(c)] = place] /\ place \in CallPlaces \union LoopPlaces
      BY <1>3 DEF K!GoTo, Trapped, MayGo
    <2>2. trap' \in [Proc \union Cpu -> TrapPlaces] /\ pc' \in [Proc \union Cpu -> CallPlaces \union LoopPlaces]
      BY <2>1 DEF SwitchTypes
    <2>3. /\ K!At(c)' = place /\ Trapped(c)' = Trapped(c)
          /\ \A d \in Cpu : d # c => K!At(d)' = K!At(d) /\ Trapped(d)' = Trapped(d)
      BY <1>1, <1>3, <2>1, Who DEF K!At, Trapped, SwitchTypes
    <2>4. /\ \A p \in Proc : p # proc[c] => pc'[p] = pc[p] /\ trap'[p] = trap[p] /\ Here(p)' = Here(p)
          /\ proc[c] # None => pc'[proc[c]] = place /\ trap'[proc[c]] = "none"
      BY <1>3, <2>1, Who, Constants DEF Here, SwitchTypes, Trapped
    <2>5. \A p \in Proc : Runs(p)' = Runs(p)
      BY DEF Runs
    <2>6. Threads'
      <3>1. \A d \in Cpu : /\ pc'[d] \in LoopPlaces /\ trap'[d] \in LoopTraps
                           /\ proc'[d] # None => pc'[d] = "scan" /\ trap'[d] = "none"
        BY <1>3, <2>1, Who, Constants DEF Threads, SwitchTypes, MayGo
      <3>2. \A t \in Proc \union Cpu : trap'[t] # "none" => pc'[t] \in Open
        BY <1>3, <2>1 DEF Threads, SwitchTypes, Trapped
      <3>3. \A p \in Proc : ~Runs(p)' => Here(p)' \in Switching \union {"forkret"}
        BY <2>4, <2>5, Who, Constants DEF Threads
      <3>4. \A p \in Proc : pc'[p] \in CallPlaces
        BY <1>3, <2>1, <2>4, Who, Constants DEF Threads, MayGo
      <3> QED
        BY <2>1, <3>1, <3>2, <3>3, <3>4 DEF Threads
    <2> QED
      BY <1>3, <2>2, <2>3, <2>4, <2>5, <2>6
  <1> QED
    BY <1>2, <1>3

-----------------------------------------------------------------------------
(* Locks and the interrupt flag, for each kind of step.                       *)

\* A process that is on no processor is as it was, and so are the others.
LEMMA ParkedStay ==
  ASSUME K!ConstantsAssumption, Control, NEW c \in Cpu, NEW place, K!GoTo(c, place),
         MayGo(c, place), proc' = proc, saved' = saved
  PROVE  ParkedFlags'
  BY Moves, Who, Constants DEF Control, Flags, ParkedFlags

\* The flags of a processor that does nothing.
LEMMA OthersStay ==
  ASSUME Control, NEW d \in Cpu, K!At(d)' = K!At(d), Trapped(d)' = Trapped(d),
         ncli'[d] = ncli[d], d \in spinning' <=> d \in spinning,
         d \in iflag' <=> d \in iflag, d \in intena' <=> d \in intena
  PROVE  FlagsOf(d)'
  BY DEF Control, Flags, FlagsOf, SwitchBusy

\* A step from one place to another with the same locks.
LEMMA PlainStep ==
  ASSUME K!ConstantsAssumption, Control, NEW c \in Cpu, NEW place, K!GoTo(c, place),
         MayGo(c, place), UNCHANGED <<K!locks, K!cpuVars, saved>>, c \notin spinning,
         place \in WithTable <=> K!At(c) \in WithTable,
         place \in WithTicks <=> K!At(c) \in WithTicks,
         ~Trapped(c) => K!At(c) \notin {"trapret", "loop", "forkret", "scan"} \/ place = "round"
  PROVE  Locked' /\ Flags'
  <1>1. proc' = proc /\ saved' = saved /\ owner' = owner /\ spinning' = spinning
        /\ iflag' = iflag /\ ncli' = ncli /\ intena' = intena
    BY DEF K!locks, K!cpuVars
  <1>2. /\ K!At(c)' = place /\ Trapped(c)' = Trapped(c)
        /\ \A d \in Cpu : d # c => K!At(d)' = K!At(d) /\ Trapped(d)' = Trapped(d)
    BY <1>1, Moves DEF Control
  <1>3. Locked'
    BY <1>1, <1>2 DEF Control, Locked
  <1>4. FlagsOf(c)'
    <2>1. SwitchBusy(c)' <=> SwitchBusy(c)
      BY <1>1, <1>2 DEF SwitchBusy
    <2>2. K!At(c) = "round" => K!At(c)' \in {"scan", "round"} \/ Trapped(c)
      BY <1>2, Where DEF MayGo, LoopPlaces, CallPlaces, WithTable, Control
    <2> QED
      BY <1>1, <1>2, <2>1, <2>2 DEF Control, Flags, FlagsOf, SwitchBusy, WithTable
  <1> QED
    BY <1>1, <1>2, <1>3, <1>4, OthersStay, ParkedStay DEF Flags

\* acquire: interrupts go off, and intena says what they were.
LEMMA AcquireStep ==
  ASSUME K!ConstantsAssumption, Control, NEW c \in Cpu, K!acquire(c)
  PROVE  Control'
  <1>1. /\ K!At(c) \in Spins /\ c \notin spinning /\ spinning' = spinning \union {c}
        /\ UNCHANGED <<owner, proc, pc, trap, saved, procstate, parent, chan, killed, stack, np, early>>
        /\ iflag' = iflag \ {c} /\ ncli' = [ncli EXCEPT ![c] = @ + 1]
        /\ intena' = IF ncli[c] > 0 THEN intena
                     ELSE IF c \in iflag THEN intena \union {c} ELSE intena \ {c}
    BY WantsAt DEF K!acquire, K!pushcli, K!threads, K!procVars
  <1>2. \A d \in Cpu : K!At(d)' = K!At(d) /\ Trapped(d)' = Trapped(d)
    BY <1>1 DEF K!At, K!Thread, Trapped
  <1>3. SwitchTypes'
    BY <1>1 DEF Control, SwitchTypes
  <1>4. Threads' /\ Locked' /\ ParkedFlags'
    BY <1>1, <1>2 DEF Control, Threads, Locked, Flags, ParkedFlags, Runs, Here
  <1>5. FlagsOf(c)'
    <2>1. /\ FlagsOf(c) /\ ncli[c] \in Int /\ SwitchBusy(c)' /\ c \notin iflag'
          /\ ncli'[c] = ncli[c] + 1
      BY <1>1 DEF Control, Flags, SwitchTypes, SwitchBusy
    <2>2. CASE SwitchBusy(c)
      <3>1. K!At(c) \in WithTable \/ K!At(c) \in WithTicks
        BY <1>1, <2>2 DEF SwitchBusy
      <3>2. ncli[c] > 0
        BY <2>1, <3>1 DEF FlagsOf
      <3> QED
        BY <1>1, <1>2, <2>1, <2>2, <3>2 DEF FlagsOf, Spins
    <2>3. CASE ~SwitchBusy(c)
      <3>1. ncli[c] = 0
        BY <2>1, <2>3 DEF FlagsOf, SwitchBusy
      <3> QED
        BY <1>1, <1>2, <2>1, <2>3, <3>1 DEF FlagsOf, Spins, SwitchBusy
    <2> QED
      BY <2>2, <2>3
  <1>6. \A d \in Cpu : d # c => FlagsOf(d)'
    BY <1>1, <1>2, OthersStay DEF Control, SwitchTypes
  <1> QED
    BY <1>3, <1>4, <1>5, <1>6 DEF Control, Flags

\* The end of acquire: the lock was free.
LEMMA EnterStep ==
  ASSUME K!ConstantsAssumption, Control, NEW c \in Cpu, NEW x, K!Enters(c, x), NEW place,
         K!GoTo(c, place), MayGo(c, place), saved' = saved,
         place \in WithTable <=> x \in WithTable \/ K!Wants[x] = "ptable",
         place \in WithTicks <=> x \in WithTicks \/ K!Wants[x] = "ticks"
  PROVE  /\ Locked' /\ Flags' /\ owner[K!Wants[x]] = None /\ x \in Spins
         /\ owner' \in [K!Lock -> Cpu \union {None}] /\ spinning' \subseteq Cpu
         /\ UNCHANGED <<iflag, ncli, intena, proc>>
  <1>1. /\ K!At(c) = x /\ c \in spinning /\ x \in Spins /\ owner[K!Wants[x]] = None
        /\ K!Wants[x] \in K!Lock
        /\ owner' = [owner EXCEPT ![K!Wants[x]] = c] /\ spinning' = spinning \ {c}
        /\ iflag' = iflag /\ ncli' = ncli /\ intena' = intena /\ proc' = proc
    BY WantsAt DEF K!Enters, K!cpuVars, Control, Flags, FlagsOf, K!Lock
  <1>2. /\ K!At(c)' = place /\ Trapped(c)' = Trapped(c)
        /\ \A d \in Cpu : d # c => K!At(d)' = K!At(d) /\ Trapped(d)' = Trapped(d)
    BY <1>1, Moves DEF Control
  <1>3. \A d \in Cpu : d # None
    BY Constants
  <1>4. Locked'
    <2>1. CASE K!Wants[x] = "ptable"
      BY <1>1, <1>2, <1>3, <2>1 DEF Control, Locked, SwitchTypes, K!Lock
    <2>2. CASE K!Wants[x] = "ticks"
      BY <1>1, <1>2, <1>3, <2>2 DEF Control, Locked, SwitchTypes, K!Lock
    <2> QED
      BY <1>1, <2>1, <2>2 DEF K!Lock
  <1>5. FlagsOf(c)'
    <2>1. x \notin WithTable \/ K!Wants[x] # "ptable"
      BY <1>1, <1>3 DEF Control, Locked
    <2>2. x \notin WithTicks \/ K!Wants[x] # "ticks"
      BY <1>1, <1>3 DEF Control, Locked
    <2>3. SwitchBusy(c) /\ SwitchBusy(c)' /\ c \notin spinning'
      BY <1>1, <1>2 DEF SwitchBusy, K!Lock
    <2>4. x \notin {"forkret", "scan", "round"}
      BY <1>1 DEF Spins
    <2>5. ncli'[c] = (IF K!At(c)' \in WithTable THEN 1 ELSE 0) + (IF K!At(c)' \in WithTicks THEN 1 ELSE 0)
                 + (IF c \in spinning' THEN 1 ELSE 0)
      BY <1>1, <1>2, <2>1, <2>2, <2>3 DEF Control, Flags, FlagsOf, K!Lock
    <2> QED
      BY <1>1, <1>2, <2>3, <2>4, <2>5 DEF Control, Flags, FlagsOf
  <1>6. \A d \in Cpu : d # c => FlagsOf(d)'
    BY <1>1, <1>2, OthersStay
  <1> QED
    BY <1>1, <1>4, <1>5, <1>6, ParkedStay DEF Flags, Control, SwitchTypes

\* release: interrupts come back with the last lock.
LEMMA ReleaseStep ==
  ASSUME K!ConstantsAssumption, Control, NEW c \in Cpu, NEW k \in K!Lock, NEW place,
         c \notin spinning, spinning' = spinning, saved' = saved, proc' = proc,
         IF k = "ptable" THEN K!At(c) \in WithTable ELSE K!At(c) \in WithTicks,
         owner' = [owner EXCEPT ![k] = None], K!popcli(c), K!GoTo(c, place), MayGo(c, place),
         place \in WithTable <=> K!At(c) \in WithTable /\ k # "ptable",
         place \in WithTicks <=> K!At(c) \in WithTicks /\ k # "ticks",
         ~Trapped(c) => K!At(c) \notin {"forkret", "scan", "round"} \/ place \in {"loop", "trapret"}
  PROVE  /\ Locked' /\ Flags' /\ owner' \in [K!Lock -> Cpu \union {None}]
         /\ iflag' \subseteq Cpu /\ intena' \subseteq Cpu /\ ncli' \in [Cpu -> Int]
  <1>1. /\ ncli' = [ncli EXCEPT ![c] = @ - 1]
        /\ iflag' = IF ncli[c] = 1 /\ c \in intena THEN iflag \union {c} ELSE iflag
        /\ intena' = IF ncli[c] = 1 THEN intena \ {c} ELSE intena
        /\ ncli \in [Cpu -> Int] /\ k \in {"ptable", "ticks"}
    BY DEF K!popcli, Control, SwitchTypes, K!Lock
  <1>2. /\ K!At(c)' = place /\ Trapped(c)' = Trapped(c)
        /\ \A d \in Cpu : d # c => K!At(d)' = K!At(d) /\ Trapped(d)' = Trapped(d)
    BY Moves DEF Control
  <1>3. \A d \in Cpu : d # None
    BY Constants
  <1>4. Locked'
    <2>1. \A d \in Cpu : owner[k] = d => d = c
      BY <1>1 DEF Control, Locked
    <2>2. CASE k = "ptable"
      BY <1>2, <1>3, <2>1, <2>2 DEF Control, Locked, SwitchTypes, K!Lock
    <2>3. CASE k = "ticks"
      BY <1>2, <1>3, <2>1, <2>3 DEF Control, Locked, SwitchTypes, K!Lock
    <2> QED
      BY <1>1, <2>2, <2>3
  <1>5. FlagsOf(c)'
    <2>1. FlagsOf(c) /\ SwitchBusy(c) /\ c \notin spinning' /\ c \notin iflag
      BY <1>1 DEF Control, Flags, FlagsOf, SwitchBusy
    <2>2. ncli'[c] = (IF K!At(c)' \in WithTable THEN 1 ELSE 0) + (IF K!At(c)' \in WithTicks THEN 1 ELSE 0)
                 + (IF c \in spinning' THEN 1 ELSE 0)
      BY <1>1, <1>2, <2>1 DEF FlagsOf
    <2>3. ncli'[c] = ncli[c] - 1 /\ ncli[c] \in Int
      BY <1>1
    <2>4. SwitchBusy(c)' <=> K!At(c)' \in WithTable \/ K!At(c)' \in WithTicks
      BY <2>1 DEF SwitchBusy
    <2>5. ncli[c] = 1 <=> ~SwitchBusy(c)'
      BY <2>1, <2>2, <2>3, <2>4
    <2>6. /\ c \in iflag' <=> ~SwitchBusy(c)' /\ c \in intena
          /\ c \in intena' <=> SwitchBusy(c)' /\ c \in intena
      BY <1>1, <2>1, <2>5
    <2> QED
      BY <1>2, <2>1, <2>2, <2>4, <2>6 DEF FlagsOf, WithTable, WithTicks
  <1>6. \A d \in Cpu : d # c => FlagsOf(d)'
    BY <1>1, <1>2, OthersStay
  <1> QED
    BY <1>1, <1>4, <1>5, <1>6, ParkedStay DEF Flags, Control, SwitchTypes

-----------------------------------------------------------------------------
(* Interrupts come and end.                                                   *)

\* The timer interrupts who holds no lock.
LEMMA TimerControl ==
  ASSUME K!ConstantsAssumption, Control, NEW c \in Cpu, K!timer(c)
  PROVE  /\ Control'
         /\ \A d \in Cpu : d # c => K!At(d)' = K!At(d) /\ Trapped(d)' = Trapped(d)
         /\ K!At(c)' \in {"tick", "trapEnd"} /\ K!At(c) \in Open
         /\ \A p \in Proc : ~Runs(p) => Here(p)' = Here(p)
         /\ \A p \in Proc : trap'[p] \in {trap[p], "tick", "trapEnd"}
  <1> DEFINE place == IF c = BootCpu THEN "tick" ELSE "trapEnd"
  <1>1. /\ c \in iflag /\ ~Trapped(c) /\ iflag' = iflag \ {c}
        /\ trap' = [trap EXCEPT ![K!Thread(c)] = place]
        /\ UNCHANGED <<owner, spinning, ncli, intena, proc, pc, saved, procstate, parent, chan,
                       killed, stack, np, early>>
    BY DEF K!timer, Trapped, K!locks, K!procVars
  <1>2. /\ K!At(c)' = place /\ Trapped(c)'
        /\ \A d \in Cpu : d # c => K!At(d)' = K!At(d) /\ Trapped(d)' = Trapped(d)
    BY <1>1, Who DEF K!At, K!Thread, Trapped, Control, SwitchTypes
  <1>3. ~SwitchBusy(c) /\ K!At(c) = pc[K!Thread(c)] /\ K!At(c) \in CallPlaces \union LoopPlaces
    BY <1>1, Who, Where DEF Control, Flags, FlagsOf
  <1>4. pc[K!Thread(c)] \in Open
    BY <1>3 DEF SwitchBusy, CallPlaces, LoopPlaces, WithTable, WithTicks, Open
  <1>5. SwitchTypes'
    <2>1. trap' \in [Proc \union Cpu -> TrapPlaces]
      BY <1>1 DEF Control, SwitchTypes, TrapPlaces
    <2> QED
      BY <1>1, <2>1 DEF Control, SwitchTypes
  <1>6. \A p \in Proc : ~Runs(p) => p # K!Thread(c)
    BY Who, Constants DEF Control
  <1>7. \A p \in Proc : Runs(p)' = Runs(p) /\ (~Runs(p) => Here(p)' = Here(p) /\ trap'[p] = trap[p])
    BY <1>1, <1>6 DEF Runs, Here, Control, SwitchTypes
  <1>8. Threads'
    <2>1. \A d \in Cpu : /\ pc'[d] \in LoopPlaces /\ trap'[d] \in LoopTraps
                         /\ proc'[d] # None => pc'[d] = "scan" /\ trap'[d] = "none"
      BY <1>1, Who, Constants DEF Control, Threads, SwitchTypes, LoopTraps
    <2>2. \A t \in Proc \union Cpu : trap'[t] # "none" => pc'[t] \in Open
      BY <1>1, <1>4 DEF Control, Threads, SwitchTypes
    <2> QED
      BY <1>1, <1>7, <2>1, <2>2 DEF Threads, Control
  <1>9. Locked'
    BY <1>1, <1>2, <1>3 DEF Control, Locked, SwitchBusy, WithTable, WithTicks
  <1>10. FlagsOf(c)'
    BY <1>1, <1>2, <1>3 DEF Control, Flags, FlagsOf, SwitchBusy, WithTable, WithTicks
  <1>11. \A d \in Cpu : d # c => FlagsOf(d)'
    BY <1>1, <1>2, OthersStay
  <1>12. ParkedFlags'
    BY <1>1, <1>7 DEF Control, Flags, ParkedFlags
  <1>13. \A p \in Proc : trap'[p] \in {trap[p], "tick", "trapEnd"}
    BY <1>1 DEF Control, SwitchTypes
  <1> QED
    BY <1>1, <1>2, <1>3, <1>4, <1>5, <1>7, <1>8, <1>9, <1>10, <1>11, <1>12, <1>13 DEF Control, Flags

Returns(c) == K!At(c) = "iret" /\ ~(K!InUser(c) /\ proc[c] \in killed)

\* The return from a handler, to where it came from.
LEMMA IretControl ==
  ASSUME K!ConstantsAssumption, Control, NEW c \in Cpu, K!iret(c), Returns(c)
  PROVE  /\ Control'
         /\ \A d \in Cpu : d # c => K!At(d)' = K!At(d) /\ Trapped(d)' = Trapped(d)
         /\ K!At(c)' \in Open
         /\ \A p \in Proc : ~Runs(p) => Here(p)' = Here(p)
         /\ \A p \in Proc : trap'[p] \in {trap[p], "none"}
  <1>1. /\ K!At(c) = "iret" /\ trap' = [trap EXCEPT ![K!Thread(c)] = "none"]
        /\ iflag' = iflag \union {c}
        /\ UNCHANGED <<owner, spinning, ncli, intena, proc, pc, saved, procstate, parent, chan,
                       killed, stack, np, early>>
    BY DEF K!iret, Returns, K!locks, K!procVars
  <1>2. Trapped(c) /\ pc[K!Thread(c)] \in Open /\ c \notin spinning /\ ~SwitchBusy(c)
    BY <1>1, WhereCall, Who DEF Control, Flags, FlagsOf, SwitchBusy, Spins, WithTable, WithTicks
  <1>3. /\ K!At(c)' = pc[K!Thread(c)] /\ ~Trapped(c)'
        /\ \A d \in Cpu : d # c => K!At(d)' = K!At(d) /\ Trapped(d)' = Trapped(d)
    BY <1>1, Who DEF K!At, K!Thread, Trapped, Control, SwitchTypes
  <1>4. SwitchTypes'
    <2>1. trap' \in [Proc \union Cpu -> TrapPlaces]
      BY <1>1 DEF Control, SwitchTypes, TrapPlaces
    <2> QED
      BY <1>1, <2>1 DEF Control, SwitchTypes
  <1>5. \A p \in Proc : ~Runs(p) => p # K!Thread(c)
    BY Who, Constants DEF Control
  <1>6. \A p \in Proc : Runs(p)' = Runs(p) /\ (~Runs(p) => Here(p)' = Here(p) /\ trap'[p] = trap[p])
    BY <1>1, <1>5 DEF Runs, Here, Control, SwitchTypes
  <1>7. Threads'
    <2>1. \A d \in Cpu : /\ pc'[d] \in LoopPlaces /\ trap'[d] \in LoopTraps
                         /\ proc'[d] # None => pc'[d] = "scan" /\ trap'[d] = "none"
      BY <1>1, Who, Constants DEF Control, Threads, SwitchTypes, LoopTraps
    <2>2. \A t \in Proc \union Cpu : trap'[t] # "none" => pc'[t] \in Open
      BY <1>1 DEF Control, Threads, SwitchTypes
    <2> QED
      BY <1>1, <1>6, <2>1, <2>2 DEF Threads, Control
  <1>8. Locked'
    BY <1>1, <1>2, <1>3 DEF Control, Locked, SwitchBusy, WithTable, WithTicks, Open
  <1>9. FlagsOf(c)'
    BY <1>1, <1>2, <1>3 DEF Control, Flags, FlagsOf, SwitchBusy, WithTable, WithTicks, Open
  <1>10. \A d \in Cpu : d # c => FlagsOf(d)'
    BY <1>1, <1>3, OthersStay
  <1>11. ParkedFlags'
    BY <1>1, <1>6 DEF Control, Flags, ParkedFlags
  <1>12. \A p \in Proc : trap'[p] \in {trap[p], "none"}
    BY <1>1 DEF Control, SwitchTypes
  <1> QED
    BY <1>1, <1>2, <1>3, <1>4, <1>6, <1>7, <1>8, <1>9, <1>10, <1>11, <1>12 DEF Control, Flags

\* sti in the loop of the scheduler, and the way back to user mode for the
\* first time: interrupts go on where no lock is held.
LEMMA StiStep ==
  ASSUME K!ConstantsAssumption, Control, NEW c \in Cpu, NEW place, K!GoTo(c, place),
         MayGo(c, place), ~Trapped(c), K!At(c) \in Open \ Spins, place \in Open,
         iflag' = iflag \union {c}, UNCHANGED <<K!locks, ncli, intena, proc, saved>>
  PROVE  Locked' /\ Flags' /\ iflag' \subseteq Cpu
  <1>1. UNCHANGED <<owner, spinning, ncli, intena, proc, saved>>
    BY DEF K!locks
  <1>2. /\ K!At(c)' = place /\ Trapped(c)' = Trapped(c)
        /\ \A d \in Cpu : d # c => K!At(d)' = K!At(d) /\ Trapped(d)' = Trapped(d)
    BY <1>1, Moves DEF Control
  <1>3. c \notin spinning /\ ~SwitchBusy(c)
    BY DEF Control, Flags, FlagsOf, SwitchBusy, Open, WithTable, WithTicks
  <1>4. Locked'
    BY <1>1, <1>2 DEF Control, Locked, Open, WithTable, WithTicks
  <1>5. FlagsOf(c)'
    BY <1>1, <1>2, <1>3 DEF Control, Flags, FlagsOf, SwitchBusy, Open, WithTable, WithTicks
  <1>6. \A d \in Cpu : d # c => FlagsOf(d)'
    BY <1>1, <1>2, OthersStay
  <1> QED
    BY <1>1, <1>4, <1>5, <1>6, ParkedStay DEF Flags, Control, SwitchTypes

-----------------------------------------------------------------------------
(* Switches                                                                   *)

\* sched(): the flag goes with the process, the lock stays with the processor.
LEMMA SchedControl ==
  ASSUME K!ConstantsAssumption, Control, NEW c \in Cpu, K!sched(c)
  PROVE  /\ Control'
         /\ K!At(c)' = "scan" /\ proc[c] # None /\ proc'[c] = None
         /\ \A d \in Cpu : d # c => K!At(d)' = K!At(d) /\ proc'[d] = proc[d]
         /\ \A p \in Proc : Runs(p)' <=> Runs(p) /\ p # proc[c]
  <1>1. /\ proc[c] # None /\ K!At(c) \in Switching
        /\ saved' = IF c \in intena THEN saved \union {proc[c]} ELSE saved
        /\ proc' = [proc EXCEPT ![c] = None]
        /\ UNCHANGED <<owner, spinning, iflag, ncli, intena, pc, trap, procstate, parent, chan,
                       killed, stack, np, early>>
    BY ResumesAt DEF K!sched, K!locks, K!procVars
  <1>2. /\ pc[c] = "scan" /\ trap[c] = "none" /\ proc[c] \in Proc /\ K!At(c) = Here(proc[c])
        /\ Trapped(c) <=> trap[proc[c]] # "none"
        /\ proc'[c] = None /\ \A d \in Cpu : d # c => proc'[d] = proc[d]
    BY <1>1, Who DEF Control, Threads, SwitchTypes, Trapped
  <1>3. /\ K!At(c)' = "scan" /\ ~Trapped(c)'
        /\ \A d \in Cpu : d # c => K!At(d)' = K!At(d) /\ Trapped(d)' = Trapped(d)
    BY <1>1, <1>2 DEF K!At, K!Thread, Trapped
  <1>4. \A p \in Proc : Runs(p)' <=> Runs(p) /\ p # proc[c]
    BY <1>1, <1>2, Constants DEF Runs, Control, Threads
  <1>5. SwitchTypes'
    BY <1>1, <1>2 DEF Control, SwitchTypes
  <1>6. Threads'
    <2>1. \A d, e \in Cpu : proc'[d] = proc'[e] /\ proc'[d] # None => d = e
      BY <1>2 DEF Control, Threads
    <2>2. \A d \in Cpu : proc'[d] # None => pc'[d] = "scan" /\ trap'[d] = "none"
      BY <1>1, <1>2 DEF Control, Threads
    <2>3. \A p \in Proc : ~Runs(p)' => Here(p)' \in Switching \union {"forkret"}
      BY <1>1, <1>2, <1>4 DEF Control, Threads, Here
    <2> QED
      BY <1>1, <2>1, <2>2, <2>3 DEF Control, Threads
  <1>7. Locked'
    BY <1>1, <1>3 DEF Control, Locked, Switching, WithTable, WithTicks
  <1>8. FlagsOf(c)'
    BY <1>1, <1>3 DEF Control, Flags, FlagsOf, SwitchBusy, Switching, WithTable, WithTicks, Spins
  <1>9. \A d \in Cpu : d # c => FlagsOf(d)'
    BY <1>1, <1>3, OthersStay
  <1>10. ParkedFlags'
    <2>1. c \in intena <=> trap[proc[c]] = "none"
      BY <1>1, <1>2 DEF Control, Flags, FlagsOf, SwitchBusy, Switching, WithTable
    <2>2. proc[c] \notin saved
      BY <1>1, <1>2 DEF Control, Flags, ParkedFlags, Runs
    <2> QED
      BY <1>1, <1>2, <1>4, <2>1, <2>2 DEF Control, Flags, ParkedFlags, Here
  <1> QED
    BY <1>1, <1>2, <1>3, <1>4, <1>5, <1>6, <1>7, <1>8, <1>9, <1>10 DEF Control, Flags

\* Where a process goes on when the scheduler takes it.
After(place) ==
    IF place = "sleepSwtch" THEN "slept" ELSE IF place = "waitSwtch" THEN "waitScan"
    ELSE IF place = "yieldSwtch" THEN "yielded" ELSE "forkret"

\* The scheduler takes a process, which brings its flag with it.
LEMMA SwtchControl ==
  ASSUME K!ConstantsAssumption, Control, NEW c \in Cpu, NEW p \in Proc, K!swtch(c, p),
         ~Runs(p), Here(p) # "exitSwtch"
  PROVE  /\ Control'
         /\ K!At(c)' = After(Here(p)) /\ proc[c] = None /\ proc'[c] = p
         /\ \A d \in Cpu : d # c => K!At(d)' = K!At(d) /\ proc'[d] = proc[d]
         /\ \A q \in Proc : Runs(q)' <=> Runs(q) \/ q = p
         /\ \A q \in Proc : q # p => pc'[q] = pc[q] /\ trap'[q] = trap[q] /\ Here(q)' = Here(q)
         /\ trap[p] = "none" => pc'[p] = After(Here(p)) /\ trap'[p] = "none"
         /\ trap[p] # "none" => pc'[p] = pc[p] /\ trap'[p] = After(Here(p))
  <1>1. /\ proc[c] = None /\ K!At(c) = "scan" /\ procstate[p] = "RUNNABLE"
        /\ proc' = [proc EXCEPT ![c] = p] /\ procstate' = [procstate EXCEPT ![p] = "RUNNING"]
        /\ saved' = saved \ {p}
        /\ UNCHANGED <<owner, spinning, iflag, ncli, parent, killed, stack, np, early>>
    BY DEF K!swtch, K!locks
  <1>2. Here(p) \in {"sleepSwtch", "waitSwtch", "yieldSwtch", "forkret"}
    BY DEF Control, Threads, Switching
  <1>3. /\ Here(p) = "forkret" => UNCHANGED <<pc, trap, intena, chan>>
        /\ Here(p) # "forkret" =>
              /\ IF trap[p] # "none"
                 THEN trap' = [trap EXCEPT ![p] = After(Here(p))] /\ UNCHANGED pc
                 ELSE pc' = [pc EXCEPT ![p] = After(Here(p))] /\ UNCHANGED trap
              /\ intena' = IF p \in saved THEN intena \union {c} ELSE intena \ {c}
              /\ chan' = [chan EXCEPT ![p] = None]
    <2>1. CASE Here(p) = "forkret"
      BY <2>1, ResumesAt DEF K!swtch, Here, Switching
    <2>2. CASE Here(p) # "forkret"
      <3>1. Here(p) \in DOMAIN K!Resumes /\ K!Resumes[Here(p)] = After(Here(p))
        BY <1>2, <2>2, ResumesAt DEF After, Switching
      <3> QED
        BY <2>2, <3>1 DEF K!swtch, Here
    <2> QED
      BY <2>1, <2>2
  <1>4. /\ proc'[c] = p /\ \A d \in Cpu : d # c => proc'[d] = proc[d]
        /\ p # None /\ p # c /\ pc[c] = "scan" /\ trap[c] = "none"
    BY <1>1, Who, WhereCall, Constants DEF Control, SwitchTypes, LoopPlaces, Trapped
  <1>5. trap[p] # "none" => Here(p) \in TrapPlaces /\ Here(p) # "forkret" /\ pc[p] \in Open
    BY DEF Here, Control, SwitchTypes, Threads, TrapPlaces
  <1>6. /\ \A q \in Proc \union Cpu : q # p => pc'[q] = pc[q] /\ trap'[q] = trap[q] /\ Here(q)' = Here(q)
        /\ trap[p] = "none" => pc'[p] = After(Here(p)) /\ trap'[p] = "none"
        /\ trap[p] # "none" => pc'[p] = pc[p] /\ trap'[p] = After(Here(p))
    BY <1>3, <1>5 DEF Control, SwitchTypes, Here, After
  <1>7. /\ K!At(c)' = After(Here(p)) /\ (Trapped(c)' <=> trap[p] # "none")
        /\ \A d \in Cpu : d # c => K!At(d)' = K!At(d) /\ Trapped(d)' = Trapped(d)
    <2>1. /\ K!Thread(c)' = p
          /\ \A d \in Cpu : d # c => K!Thread(d)' = K!Thread(d) /\ K!Thread(d) # p
      BY <1>4, Who, Constants DEF K!Thread, Control, Runs
    <2> QED
      BY <1>6, <2>1, Who DEF K!At, Trapped, After, Control
  <1>8. \A q \in Proc : Runs(q)' <=> Runs(q) \/ q = p
    BY <1>1, <1>4, Constants DEF Runs
  <1>9. trap[p] # "none" <=> Here(p) = "yieldSwtch"
    BY <1>2, <1>5 DEF TrapPlaces, Here, Control, Threads, CallPlaces
  <1>10. SwitchTypes'
    <2>1. pc' \in [Proc \union Cpu -> CallPlaces \union LoopPlaces] /\ trap' \in [Proc \union Cpu -> TrapPlaces]
      <3>1. trap[p] = "none" => After(Here(p)) \in CallPlaces
        BY <1>9 DEF After, CallPlaces
      <3>2. trap[p] # "none" => After(Here(p)) \in TrapPlaces
        BY <1>9 DEF After, TrapPlaces
      <3>3. pc \in [Proc \union Cpu -> CallPlaces \union LoopPlaces] /\ trap \in [Proc \union Cpu -> TrapPlaces]
        BY DEF Control, SwitchTypes
      <3> QED
        BY <1>3, <3>1, <3>2, <3>3
    <2>2. intena' \subseteq Cpu /\ chan' \in [Proc -> Proc \union {None, "ticks"}]
      BY <1>3 DEF Control, SwitchTypes
    <2> QED
      BY <1>1, <2>1, <2>2 DEF Control, SwitchTypes
  <1>11. Threads'
    <2>1. \A d, e \in Cpu : proc'[d] = proc'[e] /\ proc'[d] # None => d = e
      BY <1>4 DEF Control, Threads, Runs
    <2>2. \A d \in Cpu : /\ pc'[d] \in LoopPlaces /\ trap'[d] \in LoopTraps
                         /\ proc'[d] # None => pc'[d] = "scan" /\ trap'[d] = "none"
      BY <1>4, <1>6, Constants DEF Control, Threads
    <2>3. \A q \in Proc : pc'[q] \in CallPlaces
      BY <1>6, <1>9 DEF Control, Threads, After, CallPlaces
    <2>4. \A t \in Proc \union Cpu : trap'[t] # "none" => pc'[t] \in Open
      <3>1. trap'[p] # "none" => pc'[p] \in Open
        BY <1>5, <1>6
      <3>2. \A t \in Proc \union Cpu : t # p => pc'[t] = pc[t] /\ trap'[t] = trap[t]
        BY <1>6
      <3> QED
        BY <3>1, <3>2 DEF Control, Threads
    <2>5. \A q \in Proc : ~Runs(q)' => Here(q)' \in Switching \union {"forkret"}
      BY <1>6, <1>8 DEF Control, Threads
    <2> QED
      BY <2>1, <2>2, <2>3, <2>4, <2>5 DEF Threads
  <1>12. Locked'
    BY <1>1, <1>7 DEF Control, Locked, After, WithTable, WithTicks
  <1>13. FlagsOf(c)'
    <2>1. c \notin spinning /\ ncli[c] = 1 /\ c \notin iflag
      BY <1>1 DEF Control, Flags, FlagsOf, SwitchBusy, WithTable, WithTicks, Spins
    <2>2. Here(p) # "forkret" => (c \in intena' <=> trap[p] = "none")
      BY <1>3 DEF Control, Flags, ParkedFlags
    <2> QED
      BY <1>1, <1>2, <1>5, <1>7, <2>1, <2>2 DEF FlagsOf, SwitchBusy, After, WithTable, WithTicks
  <1>14. \A d \in Cpu : d # c => FlagsOf(d)'
    BY <1>1, <1>3, <1>7, OthersStay
  <1>15. ParkedFlags'
    BY <1>1, <1>6, <1>8 DEF Control, Flags, ParkedFlags
  <1> QED
    BY <1>1, <1>4, <1>6, <1>7, <1>8, <1>10, <1>11, <1>12, <1>13, <1>14, <1>15 DEF Control, Flags

-----------------------------------------------------------------------------
(* Steps that change the place of a thread and nothing of the table.          *)

\* The table is as it was: so is what the invariant says of it.
LEMMA Still ==
  ASSUME K!ConstantsAssumption, SwitchInv, NEW c \in Cpu, proc' = proc,
         UNCHANGED <<procstate, parent, chan, stack, killed, np>>,
         \A d \in Cpu : d # c => K!At(d)' = K!At(d),
         \A p \in Proc : ~Runs(p) => Here(p)' = Here(p),
         \A p \in Proc : p # proc[c] => pc'[p] = pc[p] /\ trap'[p] = trap[p],
         proc[c] # None =>
             /\ StateAt(K!At(c)') = StateAt(K!At(c))
             /\ pc'[proc[c]] \in SwitchForking <=> pc[proc[c]] \in SwitchForking
             /\ pc'[proc[c]] = "fork" => pc[proc[c]] = "fork"
             /\ proc[c] = InitProc => /\ pc'[proc[c]] \notin Leaving
                                      /\ trap'[proc[c]] \notin Leaving
             /\ np[proc[c]] # None => trap'[proc[c]] \notin Leaving
  PROVE  /\ States' /\ Embryos' /\ Family'
         /\ (/\ early' = early /\ K!At(c) # "wakeup"
             /\ proc[c] # None /\ pc'[proc[c]] \in {"sleep", "letGo"} => pc[proc[c]] \in {"sleep", "letGo"})
            => Sleepers'
  <1>1. \A p \in Proc : Runs(p)' = Runs(p)
    BY DEF Runs
  <1>2. States'
    <2>1. \A d \in Cpu : proc'[d] # None => procstate'[proc'[d]] = StateAt(K!At(d)') /\ proc'[d] \in stack'
      BY DEF SwitchInv, States
    <2> QED
      BY <1>1, <2>1 DEF SwitchInv, States
  <1>3. \A p \in Proc : (pc'[p] \in SwitchForking <=> pc[p] \in SwitchForking) /\ (pc'[p] = "fork" => pc[p] = "fork")
    BY Constants
  <1>4. Embryos'
    <2>1. \A p \in Proc : np[p] # None => np[p] \in Proc /\ ~Runs(np[p])
      BY DEF SwitchInv, Embryos, States, StateAt, Runs, Control, SwitchTypes
    <2>2. \A p \in Proc : pc[p] = "fork" => np[p] # None /\ np[p] \in stack /\ Here(np[p]) = "forkret"
      BY DEF SwitchInv, Embryos, SwitchForking
    <2>3. \A p \in Proc : pc'[p] = "fork" => (np[p] \in stack /\ Here(np[p]) = "forkret")'
      <3> SUFFICES ASSUME NEW p \in Proc, pc'[p] = "fork"
                   PROVE  (np[p] \in stack /\ Here(np[p]) = "forkret")'
        OBVIOUS
      <3>1. pc[p] = "fork" /\ np[p] \in Proc /\ ~Runs(np[p])
        BY <1>3, <2>1, <2>2
      <3>2. np[p] # proc[c] /\ np'[p] = np[p] /\ stack' = stack
        BY <3>1, Constants DEF Runs
      <3> QED
        BY <2>2, <3>1, <3>2 DEF Here
    <2>4. \A p \in Proc : np[p] # None => trap'[p] \notin Leaving
      BY Constants DEF SwitchInv, Embryos
    <2> QED
      BY <1>3, <2>3, <2>4 DEF SwitchInv, Embryos
  <1>5. Family'
    BY Constants DEF SwitchInv, Family
  <1>6. ASSUME early' = early, K!At(c) # "wakeup",
               proc[c] # None /\ pc'[proc[c]] \in {"sleep", "letGo"} => pc[proc[c]] \in {"sleep", "letGo"}
        PROVE  Sleepers'
    <2>1. \A p \in Proc : pc'[p] \in {"sleep", "letGo"} => p \in early'
      BY <1>6, Constants DEF SwitchInv, Sleepers
    <2>2. K!NoLostWakeup'
      BY <1>6 DEF SwitchInv, Sleepers, K!NoLostWakeup, K!Dead, K!Child
    <2> QED
      BY <2>1, <2>2 DEF SwitchInv, Sleepers
  <1> QED
    BY <1>2, <1>4, <1>5, <1>6

\* The types of what a step of one thread leaves alone.
LEMMA StillTypes ==
  ASSUME SwitchTypes, UNCHANGED <<proc, saved, procstate, parent, chan, killed, stack, np, early>>,
         owner' \in [K!Lock -> Cpu \union {None}], spinning' \subseteq Cpu,
         iflag' \subseteq Cpu, intena' \subseteq Cpu, ncli' \in [Cpu -> Int],
         pc' \in [Proc \union Cpu -> CallPlaces \union LoopPlaces],
         trap' \in [Proc \union Cpu -> TrapPlaces]
  PROVE  SwitchTypes'
  BY DEF SwitchTypes

\* acquire leaves the table alone.
LEMMA AcquireInv ==
  ASSUME K!ConstantsAssumption, SwitchInv, NEW c \in Cpu, K!acquire(c)
  PROVE  SwitchInv'
  <1>1. Control'
    BY AcquireStep DEF SwitchInv
  <1>2. UNCHANGED <<proc, pc, trap, procstate, parent, chan, stack, killed, np, early>>
    BY DEF K!acquire, K!threads, K!procVars
  <1>3. (\A d \in Cpu : K!At(d)' = K!At(d)) /\ (\A p \in Proc : Here(p)' = Here(p))
    BY <1>2 DEF K!At, K!Thread, Here
  <1>4. (\A p \in Proc : Runs(p)' = Runs(p))
    BY <1>2 DEF Runs
  <1>5. States' /\ Embryos' /\ Family'
    BY <1>2, <1>3, <1>4 DEF SwitchInv, States, Embryos, Family, Here
  <1>6. Sleepers'
    BY <1>2, <1>3 DEF SwitchInv, Sleepers, K!NoLostWakeup, K!Dead, K!Child
  <1> QED
    BY <1>1, <1>5, <1>6 DEF SwitchInv

\* release leaves the table alone.
LEMMA ReleaseInv ==
  ASSUME K!ConstantsAssumption, SwitchInv, NEW c \in Cpu, K!release(c)
  PROVE  SwitchInv'
  <1> DEFINE x == K!At(c)
             place == K!Drops[x].next
             k == K!Drops[x].lock
  <1>1. /\ x \in DOMAIN K!Drops /\ owner' = [owner EXCEPT ![k] = None] /\ K!popcli(c)
        /\ K!GoTo(c, place)
        /\ UNCHANGED <<spinning, proc, saved, procstate, parent, chan, killed, stack, np, early>>
    BY DEF K!release, K!procVars
  <1>2. x \in {"slept", "sleepDone", "found", "done", "yielded", "woken", "ticked", "round", "forkret"}
    BY <1>1, DropsAt
  <1>3. k \in K!Lock /\ k = IF x \in {"sleepDone", "ticked"} THEN "ticks" ELSE "ptable"
    BY <1>1, DropsAt DEF K!Lock
  <1>4. /\ x = "slept" => place = "sleepAgain"
        /\ x = "sleepDone" => place = "sysret"
        /\ x = "found" => place = "copyuvm"
        /\ x = "done" => place = "sysret"
        /\ x = "yielded" => place = "iret"
        /\ x = "woken" => place = "ticked"
        /\ x = "ticked" => place = "trapEnd"
        /\ x = "round" => place = "loop"
        /\ x = "forkret" => place = "trapret"
    BY <1>1, DropsAt
  <1> HIDE DEF x, place, k
  <1>5. K!At(c) = x
    BY DEF x
  <1>6. SwitchTypes /\ Threads
    BY DEF SwitchInv, Control
  <1>7. MayGo(c, place)
    BY <1>2, <1>4, <1>5, <1>6, WhereCall
       DEF MayGo, CallPlaces, LoopPlaces, TrapPlaces, LoopTraps
  <1>8. c \notin spinning
    BY <1>2, <1>5 DEF SwitchInv, Control, Flags, FlagsOf, Spins
  <1>9. /\ IF k = "ptable" THEN K!At(c) \in WithTable ELSE K!At(c) \in WithTicks
        /\ place \in WithTable <=> K!At(c) \in WithTable /\ k # "ptable"
        /\ place \in WithTicks <=> K!At(c) \in WithTicks /\ k # "ticks"
        /\ K!At(c) \notin {"forkret", "scan", "round"} \/ place \in {"loop", "trapret"}
    BY <1>2, <1>3, <1>4, <1>5 DEF WithTable, WithTicks
  <1>10. /\ Locked' /\ Flags' /\ owner' \in [K!Lock -> Cpu \union {None}]
         /\ iflag' \subseteq Cpu /\ intena' \subseteq Cpu /\ ncli' \in [Cpu -> Int]
    BY <1>1, <1>3, <1>7, <1>8, <1>9, ReleaseStep DEF SwitchInv
  <1>11. /\ K!At(c)' = place
         /\ \A d \in Cpu : d # c => K!At(d)' = K!At(d)
         /\ \A p \in Proc : p # proc[c] => pc'[p] = pc[p] /\ trap'[p] = trap[p] /\ Here(p)' = Here(p)
         /\ proc[c] # None => pc'[proc[c]] = IF Trapped(c) THEN pc[proc[c]] ELSE place
         /\ proc[c] # None => trap'[proc[c]] = IF Trapped(c) THEN place ELSE "none"
         /\ pc' \in [Proc \union Cpu -> CallPlaces \union LoopPlaces]
         /\ trap' \in [Proc \union Cpu -> TrapPlaces]
         /\ Threads'
    BY <1>1, <1>6, <1>7, Moves
  <1>12. Control'
    BY <1>1, <1>6, <1>10, <1>11, StillTypes DEF Control, SwitchTypes
  <1>13. \A p \in Proc : ~Runs(p) => Here(p)' = Here(p)
    BY <1>6, <1>11, Who, Constants
  <1>14. proc[c] # None =>
             /\ StateAt(K!At(c)') = StateAt(K!At(c))
             /\ pc'[proc[c]] \in SwitchForking <=> pc[proc[c]] \in SwitchForking
             /\ pc'[proc[c]] = "fork" => pc[proc[c]] = "fork"
             /\ pc'[proc[c]] \in {"sleep", "letGo"} => pc[proc[c]] \in {"sleep", "letGo"}
             /\ proc[c] = InitProc => /\ pc'[proc[c]] \notin Leaving
                                      /\ trap'[proc[c]] \notin Leaving
             /\ np[proc[c]] # None => trap'[proc[c]] \notin Leaving
    <2>1. proc[c] # None /\ ~Trapped(c) => pc[proc[c]] = x
      BY <1>5, <1>6, Who
    <2>2. StateAt(place) = StateAt(x) /\ place \notin {"fork", "sleep", "letGo", "exit", "exitSwtch"}
      BY <1>2, <1>4 DEF StateAt
    <2>3. place \in SwitchForking <=> x \in SwitchForking
      BY <1>2, <1>4 DEF SwitchForking
    <2> QED
      BY <1>5, <1>11, <2>1, <2>2, <2>3 DEF SwitchInv, Family
  <1>15. K!At(c) # "wakeup"
    BY <1>2, <1>5
  <1>16. States' /\ Embryos' /\ Family' /\ Sleepers'
    BY <1>1, <1>11, <1>13, <1>14, <1>15, Still
  <1> QED
    BY <1>12, <1>16 DEF SwitchInv

\* init never exits, and nobody does from a handler while he forks.
MayExit(c) == proc[c] # InitProc /\ (proc[c] # None /\ Trapped(c) => np[proc[c]] = None)

\* The same, from the place the thread goes to.
LEMMA StillMove ==
  ASSUME K!ConstantsAssumption, SwitchInv, NEW c \in Cpu, NEW place, K!GoTo(c, place), MayGo(c, place),
         proc' = proc, UNCHANGED <<procstate, parent, chan, stack, killed, np>>,
         StateAt(place) = StateAt(K!At(c)),
         ~Trapped(c) => place \notin SwitchForking /\ K!At(c) \notin SwitchForking,
         place \in Leaving => MayExit(c)
  PROVE  /\ States' /\ Embryos' /\ Family'
         /\ (/\ early' = early /\ K!At(c) # "wakeup"
             /\ ~Trapped(c) /\ place \in {"sleep", "letGo"} => K!At(c) \in {"sleep", "letGo"})
            => Sleepers'
  <1>1. SwitchTypes /\ Threads
    BY DEF SwitchInv, Control
  <1>2. /\ K!At(c)' = place
        /\ \A d \in Cpu : d # c => K!At(d)' = K!At(d)
        /\ \A p \in Proc : p # proc[c] => pc'[p] = pc[p] /\ trap'[p] = trap[p] /\ Here(p)' = Here(p)
        /\ proc[c] # None => pc'[proc[c]] = IF Trapped(c) THEN pc[proc[c]] ELSE place
        /\ proc[c] # None => trap'[proc[c]] = IF Trapped(c) THEN place ELSE "none"
    BY <1>1, Moves
  <1>3. \A p \in Proc : ~Runs(p) => Here(p)' = Here(p)
    BY <1>1, <1>2, Who, Constants
  <1>4. proc[c] # None /\ ~Trapped(c) => K!At(c) = pc[proc[c]]
    BY <1>1, Who
  <1>5. proc[c] # None =>
             /\ StateAt(K!At(c)') = StateAt(K!At(c))
             /\ pc'[proc[c]] \in SwitchForking <=> pc[proc[c]] \in SwitchForking
             /\ pc'[proc[c]] = "fork" => pc[proc[c]] = "fork"
             /\ proc[c] = InitProc => /\ pc'[proc[c]] \notin Leaving
                                      /\ trap'[proc[c]] \notin Leaving
             /\ np[proc[c]] # None => trap'[proc[c]] \notin Leaving
    BY <1>2, <1>4, MayExit(c) \/ place \notin Leaving DEF SwitchInv, Family, SwitchForking, MayExit
  <1>6. (~Trapped(c) /\ place \in {"sleep", "letGo"} => K!At(c) \in {"sleep", "letGo"})
        => (proc[c] # None /\ pc'[proc[c]] \in {"sleep", "letGo"} => pc[proc[c]] \in {"sleep", "letGo"})
    BY <1>2, <1>4
  <1> QED
    BY <1>2, <1>3, <1>5, <1>6, Still

\* A step that takes no lock, gives none and changes no table.
LEMMA PlainInv ==
  ASSUME K!ConstantsAssumption, SwitchInv, NEW c \in Cpu, NEW place, K!GoTo(c, place), MayGo(c, place),
         UNCHANGED <<K!locks, K!cpuVars, saved, K!procVars>>, K!At(c) \notin Spins,
         place \in WithTable <=> K!At(c) \in WithTable,
         place \in WithTicks <=> K!At(c) \in WithTicks,
         ~Trapped(c) => K!At(c) \notin {"trapret", "loop", "forkret", "scan"} \/ place = "round",
         StateAt(place) = StateAt(K!At(c)),
         ~Trapped(c) => /\ place \notin SwitchForking /\ K!At(c) \notin SwitchForking
                        /\ place \in {"sleep", "letGo"} => K!At(c) \in {"sleep", "letGo"},
         place \in Leaving => MayExit(c)
  PROVE  SwitchInv'
  <1>1. c \notin spinning /\ K!At(c) # "wakeup"
    BY DEF SwitchInv, Control, Flags, FlagsOf, Spins
  <1>2. UNCHANGED <<owner, spinning, iflag, ncli, intena, proc, saved, procstate, parent, chan,
                    killed, stack, np, early>>
    BY DEF K!locks, K!cpuVars, K!procVars
  <1>3. Locked' /\ Flags'
    BY <1>1, PlainStep DEF SwitchInv
  <1>4. /\ pc' \in [Proc \union Cpu -> CallPlaces \union LoopPlaces]
        /\ trap' \in [Proc \union Cpu -> TrapPlaces]
        /\ Threads'
    BY <1>2, Moves DEF SwitchInv, Control
  <1>5. Control'
    BY <1>2, <1>3, <1>4, StillTypes DEF SwitchInv, Control, SwitchTypes
  <1>6. States' /\ Embryos' /\ Family' /\ Sleepers'
    BY <1>1, <1>2, StillMove
  <1> QED
    BY <1>5, <1>6 DEF SwitchInv

\* The end of the scheduler's round.
LEMMA RoundEndsInv ==
  ASSUME K!ConstantsAssumption, SwitchInv, NEW c \in Cpu, K!RoundEnds(c)
  PROVE  SwitchInv'
  <1>1. K!At(c) = "scan" /\ K!GoTo(c, "round") /\ UNCHANGED <<K!locks, K!cpuVars, saved, K!procVars>>
    BY DEF K!RoundEnds
  <1>2. proc[c] = None /\ ~Trapped(c)
    BY <1>1, WhereCall DEF SwitchInv, Control, LoopPlaces
  <1>3. MayGo(c, "round")
    BY <1>2 DEF MayGo, LoopPlaces
  <1> QED
    BY <1>1, <1>2, <1>3, PlainInv DEF Spins, WithTable, WithTicks, StateAt, SwitchForking

\* A process enters the kernel; init never for exit.
LEMMA SyscallInv ==
  ASSUME K!ConstantsAssumption, SwitchInv, NEW c \in Cpu, K!syscall(c)
  PROVE  SwitchInv'
  <1>1. PICK call \in {"sys_sleep", "wait", "exit", "allocproc", "kill"} :
            /\ proc[c] = InitProc => call # "exit"
            /\ K!GoTo(c, call)
    BY DEF K!syscall
  <1>2. K!At(c) = "user" /\ UNCHANGED <<K!locks, K!cpuVars, saved, K!procVars>>
    BY DEF K!syscall
  <1>3. proc[c] # None /\ ~Trapped(c)
    BY <1>2, WhereCall DEF SwitchInv, Control, CallPlaces
  <1>4. MayGo(c, call)
    BY <1>3 DEF MayGo, CallPlaces
  <1>5. /\ K!At(c) \notin Spins /\ StateAt(call) = StateAt(K!At(c))
        /\ call \in WithTable <=> K!At(c) \in WithTable
        /\ call \in WithTicks <=> K!At(c) \in WithTicks
        /\ call \notin SwitchForking /\ K!At(c) \notin SwitchForking
    BY <1>2 DEF Spins, WithTable, WithTicks, StateAt, SwitchForking
  <1>6. call \in Leaving => MayExit(c)
    BY <1>1, <1>3 DEF MayExit
  <1> QED
    BY <1>1, <1>2, <1>3, <1>4, <1>5, <1>6, PlainInv

\* It comes back, or exits when it was killed meanwhile.
LEMMA SysretInv ==
  ASSUME K!ConstantsAssumption, SwitchInv, NEW c \in Cpu, K!sysret(c)
  PROVE  SwitchInv'
  <1> DEFINE place == IF proc[c] \in killed THEN "exit" ELSE "user"
  <1>1. K!GoTo(c, place) /\ K!At(c) = "sysret" /\ UNCHANGED <<K!locks, K!cpuVars, saved, K!procVars>>
    BY DEF K!sysret
  <1>2. place \in {"exit", "user"} /\ (place = "exit" => proc[c] # InitProc)
    BY DEF SwitchInv, Family
  <1> HIDE DEF place
  <1>3. proc[c] # None /\ ~Trapped(c)
    BY <1>1, WhereCall DEF SwitchInv, Control, CallPlaces
  <1>4. MayGo(c, place)
    BY <1>2, <1>3 DEF MayGo, CallPlaces
  <1>5. /\ K!At(c) \notin Spins /\ StateAt(place) = StateAt(K!At(c))
        /\ place \in WithTable <=> K!At(c) \in WithTable
        /\ place \in WithTicks <=> K!At(c) \in WithTicks
        /\ place \notin SwitchForking /\ K!At(c) \notin SwitchForking
    BY <1>1, <1>2 DEF Spins, WithTable, WithTicks, StateAt, SwitchForking
  <1>6. place \in Leaving => MayExit(c)
    BY <1>2, <1>3 DEF MayExit
  <1> QED
    BY <1>1, <1>2, <1>3, <1>4, <1>5, <1>6, PlainInv

\* What a handler leads to.
LEMMA HandlerInv ==
  ASSUME K!ConstantsAssumption, SwitchInv, NEW c \in Cpu, K!At(c) \in {"trapEnd", "iret"},
         NEW place \in {"iret", "exit", "yield"}, K!GoTo(c, place),
         UNCHANGED <<K!locks, K!cpuVars, saved, K!procVars>>,
         place # "iret" => proc[c] # None,
         place = "exit" => K!InUser(c) /\ proc[c] \in killed
  PROVE  SwitchInv'
  <1>1. Trapped(c)
    BY WhereCall DEF SwitchInv, Control
  <1>2. MayGo(c, place)
    BY <1>1 DEF MayGo, TrapPlaces, LoopTraps
  <1>3. /\ K!At(c) \notin Spins /\ StateAt(place) = StateAt(K!At(c))
        /\ place \in WithTable <=> K!At(c) \in WithTable
        /\ place \in WithTicks <=> K!At(c) \in WithTicks
    BY DEF Spins, WithTable, WithTicks, StateAt
  <1>4. place \in Leaving => MayExit(c)
    <2>1. K!InUser(c) => proc[c] \in Proc /\ pc[proc[c]] \notin SwitchForking
      BY Who DEF K!InUser, SwitchForking, SwitchInv, Control
    <2> QED
      BY <2>1 DEF MayExit, SwitchInv, Embryos, Family
  <1> QED
    BY <1>1, <1>2, <1>3, <1>4, PlainInv

\* The end of trap(), before and after yield.
LEMMA TrapEndInv ==
  ASSUME K!ConstantsAssumption, SwitchInv, NEW c \in Cpu, K!trapEnd(c)
  PROVE  SwitchInv'
  <1> DEFINE place == IF K!InUser(c) /\ proc[c] \in killed THEN "exit"
                      ELSE IF proc[c] # None /\ procstate[proc[c]] = "RUNNING" THEN "yield" ELSE "iret"
  <1>1. K!At(c) = "trapEnd" /\ K!GoTo(c, place) /\ UNCHANGED <<K!locks, K!cpuVars, saved, K!procVars>>
    BY DEF K!trapEnd
  <1>2. /\ place \in {"iret", "exit", "yield"} /\ (place # "iret" => proc[c] # None)
        /\ place = "exit" => K!InUser(c) /\ proc[c] \in killed
    BY DEF K!InUser
  <1> HIDE DEF place
  <1> QED
    BY <1>1, <1>2, HandlerInv

\* The return from an interrupt, or the exit of a killed process.
LEMMA IretInv ==
  ASSUME K!ConstantsAssumption, SwitchInv, NEW c \in Cpu, K!iret(c)
  PROVE  SwitchInv'
  <1>1. K!At(c) = "iret"
    BY DEF K!iret
  <1>2. CASE K!InUser(c) /\ proc[c] \in killed
    <2>1. K!GoTo(c, "exit") /\ UNCHANGED <<K!locks, K!cpuVars, saved, K!procVars>> /\ proc[c] # None
      BY <1>2 DEF K!iret, K!cpuVars, K!InUser
    <2> QED
      BY <1>1, <1>2, <2>1, HandlerInv
  <1>3. CASE ~(K!InUser(c) /\ proc[c] \in killed)
    <2>1. Returns(c)
      BY <1>1, <1>3 DEF Returns
    <2>2. /\ Control'
          /\ \A d \in Cpu : d # c => K!At(d)' = K!At(d)
          /\ K!At(c)' \in Open
          /\ \A p \in Proc : ~Runs(p) => Here(p)' = Here(p)
          /\ \A p \in Proc : trap'[p] \in {trap[p], "none"}
      BY <2>1, IretControl DEF SwitchInv
    <2>3. /\ UNCHANGED <<proc, pc, procstate, parent, chan, stack, killed, np, early>>
          /\ trap' = [trap EXCEPT ![K!Thread(c)] = "none"]
      BY <1>3 DEF K!iret, K!procVars
    <2>4. \A p \in Proc : p # proc[c] => pc'[p] = pc[p] /\ trap'[p] = trap[p]
      BY <2>3, Constants DEF K!Thread, SwitchInv, Control, SwitchTypes
    <2>5. StateAt(K!At(c)') = StateAt(K!At(c))
      BY <1>1, <2>2 DEF StateAt, Open
    <2>6. proc[c] # None => proc[c] \in Proc
      BY DEF SwitchInv, Control, SwitchTypes
    <2>7. States' /\ Embryos' /\ Family' /\ Sleepers'
      BY <1>1, <2>2, <2>3, <2>4, <2>5, <2>6, Still DEF SwitchInv, Embryos, Family
    <2> QED
      BY <2>2, <2>7 DEF SwitchInv
  <1> QED
    BY <1>2, <1>3

\* The timer's interrupt.
LEMMA TimerInv ==
  ASSUME K!ConstantsAssumption, SwitchInv, NEW c \in Cpu, K!timer(c)
  PROVE  SwitchInv'
  <1>1. /\ Control'
        /\ \A d \in Cpu : d # c => K!At(d)' = K!At(d)
        /\ K!At(c)' \in {"tick", "trapEnd"} /\ K!At(c) \in Open
        /\ \A p \in Proc : ~Runs(p) => Here(p)' = Here(p)
        /\ \A p \in Proc : trap'[p] \in {trap[p], "tick", "trapEnd"}
    BY TimerControl DEF SwitchInv
  <1>2. /\ UNCHANGED <<proc, pc, procstate, parent, chan, stack, killed, np, early>>
        /\ \E place : trap' = [trap EXCEPT ![K!Thread(c)] = place]
    BY DEF K!timer, K!procVars
  <1>3. \A p \in Proc : p # proc[c] => pc'[p] = pc[p] /\ trap'[p] = trap[p]
    BY <1>2, Constants DEF K!Thread, SwitchInv, Control, SwitchTypes
  <1>4. StateAt(K!At(c)') = StateAt(K!At(c)) /\ K!At(c) # "wakeup"
    BY <1>1 DEF StateAt, Open
  <1>5. proc[c] # None => proc[c] \in Proc
    BY DEF SwitchInv, Control, SwitchTypes
  <1>6. States' /\ Embryos' /\ Family' /\ Sleepers'
    BY <1>1, <1>2, <1>3, <1>4, <1>5, Still DEF SwitchInv, Embryos, Family
  <1> QED
    BY <1>1, <1>6 DEF SwitchInv

\* Interrupts come on in the scheduler's loop and on the way to user mode.
LEMMA StiInv ==
  ASSUME K!ConstantsAssumption, SwitchInv, NEW c \in Cpu,
         K!sti(c) \/ K!trapret(c)
  PROVE  SwitchInv'
  <1> DEFINE place == IF K!At(c) = "loop" THEN "scheduler" ELSE "user"
  <1>0. K!At(c) \in {"loop", "trapret"}
    BY DEF K!sti, K!trapret
  <1>1. /\ K!GoTo(c, place) /\ iflag' = iflag \union {c}
        /\ UNCHANGED <<K!locks, ncli, intena, proc, saved, K!procVars>>
    BY DEF K!sti, K!trapret
  <1>2. (K!At(c) = "loop" /\ place = "scheduler") \/ (K!At(c) = "trapret" /\ place = "user")
    BY <1>0
  <1> HIDE DEF place
  <1>3. /\ ~Trapped(c)
        /\ IF K!At(c) = "loop" THEN proc[c] = None ELSE proc[c] # None
    BY <1>2, WhereCall DEF SwitchInv, Control, CallPlaces, LoopPlaces
  <1>4. MayGo(c, place)
    BY <1>2, <1>3 DEF MayGo, CallPlaces, LoopPlaces
  <1>5. /\ K!At(c) \in Open \ Spins /\ place \in Open /\ StateAt(place) = StateAt(K!At(c))
        /\ place \notin SwitchForking /\ K!At(c) \notin SwitchForking
        /\ place \notin {"sleep", "letGo", "exit", "exitSwtch"} /\ K!At(c) # "wakeup"
    BY <1>2 DEF Open, Spins, StateAt, SwitchForking
  <1>6. Locked' /\ Flags' /\ iflag' \subseteq Cpu
    BY <1>1, <1>3, <1>4, <1>5, StiStep DEF SwitchInv
  <1>7. UNCHANGED <<owner, spinning, ncli, intena, proc, saved, procstate, parent, chan,
                    killed, stack, np, early>>
    BY <1>1 DEF K!locks, K!procVars
  <1>8. /\ pc' \in [Proc \union Cpu -> CallPlaces \union LoopPlaces]
        /\ trap' \in [Proc \union Cpu -> TrapPlaces]
        /\ Threads'
    BY <1>1, <1>4, Moves DEF SwitchInv, Control
  <1>9. Control'
    BY <1>6, <1>7, <1>8, StillTypes DEF SwitchInv, Control, SwitchTypes
  <1>10. States' /\ Embryos' /\ Family' /\ Sleepers'
    BY <1>1, <1>4, <1>5, StillMove DEF K!procVars
  <1> QED
    BY <1>9, <1>10 DEF SwitchInv

\* A critical section begins and the table stays as it is.
LEMMA EnterInv ==
  ASSUME K!ConstantsAssumption, SwitchInv, NEW c \in Cpu,
         K!scheduler(c) \/ K!sleep(c)
  PROVE  SwitchInv'
  <1> DEFINE place == IF K!At(c) = "scheduler" THEN "scan" ELSE "letGo"
  <1>0. K!At(c) \in {"scheduler", "sleep"}
    BY DEF K!scheduler, K!sleep, K!Enters
  <1>1. /\ K!Enters(c, K!At(c)) /\ K!GoTo(c, place)
        /\ UNCHANGED <<saved, K!procVars>>
    BY DEF K!scheduler, K!sleep, K!Enters
  <1>2. (K!At(c) = "scheduler" /\ place = "scan") \/ (K!At(c) = "sleep" /\ place = "letGo")
    BY <1>0
  <1> HIDE DEF place
  <1>3. /\ ~Trapped(c)
        /\ IF K!At(c) = "scheduler" THEN proc[c] = None ELSE proc[c] # None
    BY <1>2, WhereCall DEF SwitchInv, Control, CallPlaces, LoopPlaces
  <1>4. MayGo(c, place)
    BY <1>2, <1>3 DEF MayGo, CallPlaces, LoopPlaces
  <1>5. /\ StateAt(place) = StateAt(K!At(c)) /\ place \notin SwitchForking /\ K!At(c) \notin SwitchForking
        /\ place \in {"sleep", "letGo"} => K!At(c) \in {"sleep", "letGo"}
        /\ place \notin Leaving /\ K!At(c) # "wakeup"
    BY <1>2 DEF StateAt, SwitchForking
  <1>6. K!Wants[K!At(c)] = "ptable"
    BY <1>2, WantsAt DEF Spins
  <1>7. /\ place \in WithTable <=> K!At(c) \in WithTable \/ K!Wants[K!At(c)] = "ptable"
        /\ place \in WithTicks <=> K!At(c) \in WithTicks \/ K!Wants[K!At(c)] = "ticks"
    BY <1>2, <1>6 DEF WithTable, WithTicks
  <1>8. /\ Locked' /\ Flags'
        /\ owner' \in [K!Lock -> Cpu \union {None}] /\ spinning' \subseteq Cpu
        /\ UNCHANGED <<iflag, ncli, intena, proc>>
    BY <1>1, <1>4, <1>7, EnterStep DEF SwitchInv
  <1>9. UNCHANGED <<saved, procstate, parent, chan, killed, stack, np, early>>
    BY <1>1 DEF K!procVars
  <1>10. /\ pc' \in [Proc \union Cpu -> CallPlaces \union LoopPlaces]
         /\ trap' \in [Proc \union Cpu -> TrapPlaces]
         /\ Threads'
    BY <1>1, <1>4, <1>8, Moves DEF SwitchInv, Control
  <1>11. Control'
    BY <1>8, <1>9, <1>10, StillTypes DEF SwitchInv, Control, SwitchTypes
  <1>12. States' /\ Embryos' /\ Family' /\ Sleepers'
    BY <1>1, <1>4, <1>5, <1>8, StillMove DEF K!procVars
  <1> QED
    BY <1>11, <1>12 DEF SwitchInv

-----------------------------------------------------------------------------
(* The switch to and from a process.                                          *)

\* From a process to the scheduler.
LEMMA SchedInv ==
  ASSUME K!ConstantsAssumption, SwitchInv, NEW c \in Cpu, K!sched(c)
  PROVE  SwitchInv'
  <1>1. /\ Control'
        /\ K!At(c)' = "scan" /\ proc[c] # None /\ proc'[c] = None
        /\ \A d \in Cpu : d # c => K!At(d)' = K!At(d) /\ proc'[d] = proc[d]
        /\ \A p \in Proc : Runs(p)' <=> Runs(p) /\ p # proc[c]
    BY SchedControl DEF SwitchInv
  <1>2. /\ UNCHANGED <<pc, trap, procstate, parent, chan, stack, killed, np, early>>
        /\ K!At(c) \in Switching
    BY ResumesAt DEF K!sched, K!procVars
  <1>3. /\ proc[c] \in Proc /\ K!At(c) = Here(proc[c])
        /\ procstate[proc[c]] = StateAt(K!At(c)) /\ proc[c] \in stack
    BY <1>1, Who DEF SwitchInv, Control, States, SwitchTypes
  <1>4. States'
    <2>1. \A d \in Cpu : proc'[d] # None => procstate'[proc'[d]] = StateAt(K!At(d)') /\ proc'[d] \in stack'
      BY <1>1, <1>2 DEF SwitchInv, States
    <2>2. /\ procstate[proc[c]] # "RUNNING"
          /\ procstate[proc[c]] = "RUNNABLE" => Here(proc[c]) # "exitSwtch"
          /\ procstate[proc[c]] = "SLEEPING" => Here(proc[c]) \in {"sleepSwtch", "waitSwtch"}
      BY <1>2, <1>3 DEF StateAt, Switching
    <2>3. \A p \in Proc : ~Runs(p)' =>
           /\ procstate[p] # "RUNNING"
           /\ procstate[p] \in {"RUNNABLE", "SLEEPING"} => p \in stack
           /\ procstate[p] = "RUNNABLE" => Here(p) # "exitSwtch"
           /\ procstate[p] = "SLEEPING" => Here(p) \in {"sleepSwtch", "waitSwtch"}
      BY <1>1, <1>3, <2>2 DEF SwitchInv, States
    <2> QED
      BY <1>2, <2>1, <2>3 DEF States, Here
  <1>5. Embryos' /\ Family'
    BY <1>2 DEF SwitchInv, Embryos, Family, Here
  <1>6. Sleepers'
    <2>1. K!At(c) # "wakeup"
      BY <1>2 DEF Switching
    <2>2. K!NoLostWakeup'
      BY <1>1, <1>2, <2>1 DEF SwitchInv, Sleepers, K!NoLostWakeup, K!Dead, K!Child
    <2> QED
      BY <1>2, <2>2 DEF SwitchInv, Sleepers
  <1> QED
    BY <1>1, <1>4, <1>5, <1>6 DEF SwitchInv

\* Who holds ptable.lock, or finds it free, sees the others running.
LEMMA OthersRun ==
  ASSUME K!ConstantsAssumption, SwitchInv, NEW c \in Cpu,
         owner["ptable"] = None \/ K!At(c) \in WithTable
  PROVE  /\ \A d \in Cpu : d # c => K!At(d) \notin WithTable
         /\ \A d \in Cpu : d # c /\ proc[d] # None => procstate[proc[d]] = "RUNNING"
         /\ \A p \in Proc : Runs(p) /\ p # proc[c] => procstate[p] = "RUNNING"
  <1>1. \A d \in Cpu : d # c => K!At(d) \notin WithTable
    BY Constants DEF SwitchInv, Control, Locked
  <1>2. \A d \in Cpu : d # c /\ proc[d] # None => procstate[proc[d]] = "RUNNING"
    BY <1>1 DEF SwitchInv, States, StateAt, WithTable
  <1>3. \A p \in Proc : Runs(p) /\ p # proc[c] => procstate[p] = "RUNNING"
    BY <1>2, Constants DEF Runs
  <1> QED
    BY <1>1, <1>2, <1>3

\* From the scheduler to a process.
LEMMA SwtchInv ==
  ASSUME K!ConstantsAssumption, SwitchInv, NEW c \in Cpu, NEW p \in Proc, K!swtch(c, p)
  PROVE  SwitchInv'
  <1>1. proc[c] = None /\ K!At(c) = "scan" /\ procstate[p] = "RUNNABLE"
    BY DEF K!swtch
  <1>2. ~Runs(p) /\ Here(p) # "exitSwtch" /\ p \in stack
    <2>1. ~Runs(p)
      BY <1>1, OthersRun, Constants DEF WithTable
    <2> QED
      BY <1>1, <2>1 DEF SwitchInv, States
  <1>3. /\ Control'
        /\ K!At(c)' = After(Here(p)) /\ proc[c] = None /\ proc'[c] = p
        /\ \A d \in Cpu : d # c => K!At(d)' = K!At(d) /\ proc'[d] = proc[d]
        /\ \A q \in Proc : Runs(q)' <=> Runs(q) \/ q = p
        /\ \A q \in Proc : q # p => pc'[q] = pc[q] /\ trap'[q] = trap[q] /\ Here(q)' = Here(q)
        /\ trap[p] = "none" => pc'[p] = After(Here(p)) /\ trap'[p] = "none"
        /\ trap[p] # "none" => pc'[p] = pc[p] /\ trap'[p] = After(Here(p))
    BY <1>2, SwtchControl DEF SwitchInv
  <1>4. /\ UNCHANGED <<parent, killed, stack, np, early>>
        /\ procstate' = [procstate EXCEPT ![p] = "RUNNING"]
        /\ chan' = chan \/ chan' = [chan EXCEPT ![p] = None]
    BY DEF K!swtch
  <1>5. \A q \in Proc : procstate'[q] = IF q = p THEN "RUNNING" ELSE procstate[q]
    BY <1>4 DEF SwitchInv, Control, SwitchTypes
  <1>6. \A q \in Proc : q # p => chan'[q] = chan[q]
    BY <1>4 DEF SwitchInv, Control, SwitchTypes
  <1>7. States'
    <2>1. \A d \in Cpu : proc'[d] # None => procstate'[proc'[d]] = StateAt(K!At(d)') /\ proc'[d] \in stack'
      <3>1. StateAt(K!At(c)') = "RUNNING"
        BY <1>3 DEF StateAt, After
      <3>2. \A d \in Cpu : d # c /\ proc[d] # None => proc[d] # p /\ proc[d] \in Proc
        BY <1>2 DEF Runs, SwitchInv, Control, SwitchTypes
      <3> QED
        BY <1>2, <1>3, <1>4, <1>5, <3>1, <3>2 DEF SwitchInv, States
    <2> QED
      BY <1>3, <1>4, <1>5, <2>1 DEF SwitchInv, States
  <1>8. Embryos'
    <2>1. After(Here(p)) \notin SwitchForking /\ (trap[p] = "none" => pc[p] \notin SwitchForking)
      BY <1>2 DEF After, SwitchForking, SwitchInv, Control, Threads, Here, Switching
    <2>2. \A q \in Proc : (pc'[q] \in SwitchForking <=> pc[q] \in SwitchForking) /\ (pc'[q] = "fork" => pc[q] = "fork")
      BY <1>3, <2>1 DEF SwitchForking
    <2>3. \A q \in Proc : np[q] # None => np[q] # p /\ np[q] \in Proc
      BY <1>1 DEF SwitchInv, Embryos, Control, SwitchTypes
    <2>4. \A q \in Proc : pc[q] = "fork" => np[q] # None /\ Here(np[q]) = "forkret" /\ np[q] \in stack
      BY DEF SwitchInv, Embryos, SwitchForking
    <2>5. \A q \in Proc : pc'[q] = "fork" => (np[q] \in stack /\ Here(np[q]) = "forkret")'
      BY <1>3, <1>4, <2>2, <2>3, <2>4 DEF Here
    <2>6. \A q \in Proc : np[q] # None => procstate'[q] \notin Unborn /\ trap'[q] \notin Leaving
      BY <1>3, <1>5 DEF After, SwitchInv, Embryos
    <2> QED
      BY <1>4, <1>5, <2>2, <2>3, <2>5, <2>6 DEF SwitchInv, Embryos
  <1>9. Family'
    <2>1. After(Here(p)) \notin Leaving
      BY DEF After
    <2> QED
      BY <1>3, <1>4, <1>5, <2>1, Constants DEF SwitchInv, Family
  <1>10. Sleepers'
    <2>1. \A q \in Proc : pc'[q] \in {"sleep", "letGo"} => pc[q] \in {"sleep", "letGo"}
      BY <1>3 DEF After
    <2>2. \A q, r \in Proc : parent[r] = q /\ procstate'[r] = "ZOMBIE" => parent[r] = q /\ procstate[r] = "ZOMBIE"
      BY <1>5
    <2>3. K!NoLostWakeup'
      BY <1>1, <1>3, <1>4, <1>5, <1>6 DEF SwitchInv, Sleepers, K!NoLostWakeup, K!Dead, K!Child
    <2> QED
      BY <1>4, <1>5, <1>6, <2>1, <2>3 DEF SwitchInv, Sleepers
  <1> QED
    BY <1>3, <1>7, <1>8, <1>9, <1>10 DEF SwitchInv

-----------------------------------------------------------------------------
(* Critical sections that change the table.                                   *)

SwitchTableTypes ==
    /\ procstate \in [Proc -> {"UNUSED", "EMBRYO", "SLEEPING", "RUNNABLE", "RUNNING", "ZOMBIE"}]
    /\ parent \in [Proc -> Proc \union {None}]
    /\ chan \in [Proc -> Proc \union {None, "ticks"}]
    /\ np \in [Proc -> Proc \union {None}]
    /\ killed \subseteq Proc /\ stack \subseteq Proc /\ early \subseteq Proc

\* The types of the table, from the invariant.
LEMMA TableTyped ==
  ASSUME SwitchInv PROVE SwitchTableTypes
  BY DEF SwitchInv, Control, SwitchTypes, SwitchTableTypes

\* Locks and flags when a critical section begins, whatever it does to the table.
LEMMA EnterControl ==
  ASSUME K!ConstantsAssumption, SwitchInv, NEW c \in Cpu, NEW x, K!Enters(c, x), NEW place,
         K!GoTo(c, place), MayGo(c, place), saved' = saved,
         place \in WithTable <=> x \in WithTable \/ K!Wants[x] = "ptable",
         place \in WithTicks <=> x \in WithTicks \/ K!Wants[x] = "ticks",
         SwitchTableTypes'
  PROVE  Control' /\ proc' = proc /\ owner[K!Wants[x]] = None
  <1>1. /\ Locked' /\ Flags' /\ owner[K!Wants[x]] = None
        /\ owner' \in [K!Lock -> Cpu \union {None}] /\ spinning' \subseteq Cpu
        /\ UNCHANGED <<iflag, ncli, intena, proc>>
    BY EnterStep DEF SwitchInv
  <1>2. /\ pc' \in [Proc \union Cpu -> CallPlaces \union LoopPlaces]
        /\ trap' \in [Proc \union Cpu -> TrapPlaces]
        /\ Threads'
    BY <1>1, Moves DEF SwitchInv, Control
  <1>3. SwitchTypes'
    BY <1>1, <1>2 DEF SwitchInv, Control, SwitchTypes, SwitchTableTypes
  <1> QED
    BY <1>1, <1>2, <1>3 DEF Control

\* Where the thread of c goes, everybody else stays.
LEMMA MovesInv ==
  ASSUME K!ConstantsAssumption, SwitchInv, NEW c \in Cpu, NEW place, K!GoTo(c, place),
         MayGo(c, place), proc' = proc
  PROVE  /\ K!At(c)' = place
         /\ \A d \in Cpu : d # c => K!At(d)' = K!At(d)
         /\ \A p \in Proc : Runs(p)' = Runs(p)
         /\ \A p \in Proc : p # proc[c] => pc'[p] = pc[p] /\ trap'[p] = trap[p] /\ Here(p)' = Here(p)
         /\ \A p \in Proc : ~Runs(p) => p # proc[c]
         /\ proc[c] # None => /\ proc[c] \in Proc /\ Runs(proc[c])
                              /\ pc'[proc[c]] = IF Trapped(c) THEN pc[proc[c]] ELSE place
                              /\ trap'[proc[c]] = IF Trapped(c) THEN place ELSE "none"
                              /\ K!At(c) = IF Trapped(c) THEN trap[proc[c]] ELSE pc[proc[c]]
  BY Moves, Who, Constants DEF SwitchInv, Control

\* The states of processes, when whoever is on another processor goes on running.
LEMMA StatesStep ==
  ASSUME K!ConstantsAssumption, SwitchInv, NEW c \in Cpu, NEW place, K!GoTo(c, place),
         MayGo(c, place), proc' = proc,
         owner["ptable"] = None \/ K!At(c) \in WithTable,
         proc[c] # None => procstate'[proc[c]] = StateAt(place) /\ proc[c] \in stack',
         \A q \in Proc : procstate[q] = "RUNNING" /\ q # proc[c] => procstate'[q] = "RUNNING" /\ (q \in stack => q \in stack'),
         \A q \in Proc : procstate[q] # "RUNNING" /\ q # proc[c] /\ ~Runs(q) =>
             /\ procstate'[q] # "RUNNING"
             /\ procstate'[q] \in {"RUNNABLE", "SLEEPING"} => q \in stack'
             /\ procstate'[q] = "RUNNABLE" => Here(q) # "exitSwtch"
             /\ procstate'[q] = "SLEEPING" => Here(q) \in {"sleepSwtch", "waitSwtch"}
  PROVE  States'
  <1>1. /\ K!At(c)' = place
        /\ \A d \in Cpu : d # c => K!At(d)' = K!At(d)
        /\ \A p \in Proc : Runs(p)' = Runs(p)
        /\ \A p \in Proc : p # proc[c] => Here(p)' = Here(p)
        /\ \A p \in Proc : ~Runs(p) => p # proc[c]
    BY MovesInv
  <1>2. ASSUME NEW d \in Cpu, proc[d] # None
        PROVE  procstate'[proc[d]] = StateAt(K!At(d)') /\ proc[d] \in stack'
    <2>1. CASE d = c
      BY <1>1, <1>2, <2>1
    <2>2. CASE d # c
      <3>1. /\ procstate[proc[d]] = "RUNNING" /\ proc[d] \in Proc /\ proc[d] # proc[c]
            /\ proc[d] \in stack /\ procstate[proc[d]] = StateAt(K!At(d))
        BY <1>2, <2>2, OthersRun DEF SwitchInv, States, Control, SwitchTypes, Threads
      <3> QED
        BY <1>1, <2>2, <3>1
    <2> QED
      BY <2>1, <2>2
  <1>3. ASSUME NEW q \in Proc, ~Runs(q)
        PROVE  /\ procstate'[q] # "RUNNING"
               /\ procstate'[q] \in {"RUNNABLE", "SLEEPING"} => q \in stack'
               /\ procstate'[q] = "RUNNABLE" => Here(q)' # "exitSwtch"
               /\ procstate'[q] = "SLEEPING" => Here(q)' \in {"sleepSwtch", "waitSwtch"}
    <2>1. procstate[q] # "RUNNING" /\ q # proc[c] /\ Here(q)' = Here(q)
      BY <1>1, <1>3 DEF SwitchInv, States
    <2> QED
      BY <1>3, <2>1
  <1> QED
    BY <1>1, <1>2, <1>3 DEF States

\* Forks under way, when nobody becomes or ceases to be an embryo.
LEMMA EmbryosStep ==
  ASSUME K!ConstantsAssumption, SwitchInv, NEW c \in Cpu, NEW place, K!GoTo(c, place),
         MayGo(c, place), proc' = proc, np' = np,
         ~Trapped(c) => place \notin SwitchForking /\ K!At(c) \notin SwitchForking,
         place \in Leaving => MayExit(c),
         \A q \in Proc : procstate[q] = "EMBRYO" => procstate'[q] = "EMBRYO" /\ (q \in stack => q \in stack'),
         \A q \in Proc : np[q] # None => procstate'[q] \notin Unborn
  PROVE  Embryos'
  <1>1. /\ \A p \in Proc : Runs(p)' = Runs(p)
        /\ \A p \in Proc : p # proc[c] => pc'[p] = pc[p] /\ trap'[p] = trap[p] /\ Here(p)' = Here(p)
        /\ \A p \in Proc : ~Runs(p) => p # proc[c]
        /\ proc[c] # None => /\ proc[c] \in Proc
                             /\ pc'[proc[c]] = IF Trapped(c) THEN pc[proc[c]] ELSE place
                             /\ trap'[proc[c]] = IF Trapped(c) THEN place ELSE "none"
                             /\ K!At(c) = IF Trapped(c) THEN trap[proc[c]] ELSE pc[proc[c]]
    BY MovesInv
  <1>2. \A p \in Proc : (pc'[p] \in SwitchForking <=> pc[p] \in SwitchForking) /\ (pc'[p] = "fork" => pc[p] = "fork")
    BY <1>1, Constants DEF SwitchForking
  <1>3. \A p \in Proc : np[p] # None => np[p] \in Proc /\ ~Runs(np[p])
    BY DEF SwitchInv, Embryos, States, StateAt, Runs, Control, SwitchTypes
  <1>4. \A p \in Proc : pc[p] = "fork" => np[p] # None /\ np[p] \in stack' /\ Here(np[p]) = "forkret"
    BY <1>3 DEF SwitchInv, Embryos, SwitchForking
  <1>5. \A p \in Proc : pc'[p] = "fork" => (np[p] \in stack /\ Here(np[p]) = "forkret")'
    BY <1>1, <1>2, <1>3, <1>4 DEF Here
  <1>6. \A p \in Proc : np[p] # None => trap'[p] \notin Leaving
    BY <1>1, MayExit(c) \/ place \notin Leaving, Constants DEF MayExit, SwitchInv, Embryos
  <1> QED
    BY <1>2, <1>3, <1>5, <1>6 DEF SwitchInv, Embryos

\* The caller changes its own state, and sleepers may be woken.
Wakes(c) ==
    \A q \in Proc : q # proc[c] =>
        procstate'[q] = procstate[q] \/ (procstate[q] = "SLEEPING" /\ procstate'[q] = "RUNNABLE")

\* States and forks when sleepers are woken.
LEMMA WakeStep ==
  ASSUME K!ConstantsAssumption, SwitchInv, NEW c \in Cpu, NEW place, K!GoTo(c, place),
         MayGo(c, place), proc' = proc, np' = np, stack' = stack,
         owner["ptable"] = None \/ K!At(c) \in WithTable,
         proc[c] # None => procstate'[proc[c]] = StateAt(place),
         ~Trapped(c) => place \notin SwitchForking /\ K!At(c) \notin SwitchForking,
         place \notin Leaving, Wakes(c)
  PROVE  States' /\ Embryos'
  <1>1. /\ \A p \in Proc : ~Runs(p) => p # proc[c]
        /\ proc[c] # None => proc[c] \in Proc /\ Runs(proc[c])
    BY MovesInv
  <1>2. States'
    <2>1. proc[c] # None => proc[c] \in stack
      BY DEF SwitchInv, States
    <2>2. \A q \in Proc : procstate[q] = "RUNNING" /\ q # proc[c] => procstate'[q] = "RUNNING"
      BY DEF Wakes
    <2>3. \A q \in Proc : procstate[q] # "RUNNING" /\ q # proc[c] /\ ~Runs(q) =>
             /\ procstate'[q] # "RUNNING"
             /\ procstate'[q] \in {"RUNNABLE", "SLEEPING"} => q \in stack
             /\ procstate'[q] = "RUNNABLE" => Here(q) # "exitSwtch"
             /\ procstate'[q] = "SLEEPING" => Here(q) \in {"sleepSwtch", "waitSwtch"}
      BY DEF Wakes, SwitchInv, States
    <2> QED
      BY <2>1, <2>2, <2>3, StatesStep
  <1>3. \A q \in Proc : procstate[q] = "EMBRYO" => procstate'[q] = "EMBRYO"
    <2>1. proc[c] # None => procstate[proc[c]] # "EMBRYO"
      BY DEF SwitchInv, States, StateAt
    <2> QED
      BY <2>1, Constants DEF Wakes
  <1>4. \A q \in Proc : np[q] # None => procstate'[q] \notin Unborn
    BY Constants DEF Wakes, StateAt, SwitchInv, Embryos
  <1>5. Embryos'
    BY <1>3, <1>4, EmbryosStep
  <1> QED
    BY <1>2, <1>5

\* Nobody is between the test of sys_sleep and its sleep while tickslock is free.
LEMMA NobodyTests ==
  ASSUME K!ConstantsAssumption, SwitchInv, owner["ticks"] = None, NEW p \in Proc
  PROVE  pc[p] \notin {"sleep", "letGo"}
  <1> SUFFICES ASSUME pc[p] \in {"sleep", "letGo"} PROVE FALSE
    OBVIOUS
  <1>1. trap[p] = "none"
    BY DEF SwitchInv, Control, Threads, Open
  <1>2. Runs(p)
    BY <1>1 DEF SwitchInv, Control, Threads, Here, Switching
  <1>3. PICK d \in Cpu : proc[d] = p
    BY <1>2 DEF Runs
  <1>4. K!At(d) \in WithTicks
    BY <1>1, <1>3, Who, Constants DEF SwitchInv, Control, Trapped, WithTicks
  <1> QED
    BY <1>4, Constants DEF SwitchInv, Control, Locked

\* The clock ticks: a wakeup of its sleepers is under way.
LEMMA TickInv ==
  ASSUME K!ConstantsAssumption, SwitchInv, NEW c \in Cpu, K!tick(c)
  PROVE  SwitchInv'
  <1>1. /\ K!Enters(c, "tick") /\ K!GoTo(c, "wakeup") /\ saved' = saved /\ K!At(c) = "tick"
        /\ early' \subseteq early
        /\ UNCHANGED <<procstate, parent, chan, killed, stack, np>>
    BY DEF K!tick, K!Enters
  <1>2. Trapped(c) /\ K!Wants["tick"] = "ticks"
    BY <1>1, WhereCall, WantsAt DEF SwitchInv, Control, Spins
  <1>3. MayGo(c, "wakeup")
    BY <1>2 DEF MayGo, LoopTraps, TrapPlaces
  <1>4. SwitchTableTypes'
    BY <1>1, TableTyped DEF SwitchTableTypes
  <1>5. Control' /\ proc' = proc /\ owner["ticks"] = None
    BY <1>1, <1>2, <1>3, <1>4, EnterControl DEF WithTable, WithTicks
  <1>6. States' /\ Embryos' /\ Family'
    BY <1>1, <1>2, <1>3, <1>5, StillMove DEF StateAt
  <1>7. K!At(c)' = "wakeup" /\ pc' = pc
    BY <1>1, <1>2, <1>3, <1>5, MovesInv DEF K!GoTo, Trapped
  <1>8. Sleepers'
    BY <1>1, <1>5, <1>7, NobodyTests DEF SwitchInv, Sleepers, K!NoLostWakeup, K!Dead, K!Child
  <1> QED
    BY <1>5, <1>6, <1>8 DEF SwitchInv

\* sys_sleep tests, under tickslock, whether to sleep.
LEMMA SysSleepInv ==
  ASSUME K!ConstantsAssumption, SwitchInv, NEW c \in Cpu, K!sys_sleep(c)
  PROVE  SwitchInv'
  <1>1. PICK who \in SUBSET Proc, x \in {"sys_sleep", "sleepAgain"} :
            /\ K!Enters(c, x) /\ K!SleepTest(c, who)
            /\ \A q \in Proc : q # proc[c] => (q \in who <=> q \in early)
    <2>1. CASE K!Enters(c, "sys_sleep") /\ K!SleepTest(c, early \union {proc[c]})
      <3>1. proc[c] \in Proc
        BY <2>1, WhereCall DEF K!Enters, SwitchInv, Control, CallPlaces, SwitchTypes
      <3>2. early \union {proc[c]} \in SUBSET Proc
        BY <3>1 DEF SwitchInv, Control, SwitchTypes
      <3> QED
        BY <2>1, <3>2
    <2>2. CASE K!Enters(c, "sleepAgain") /\ K!SleepTest(c, early)
      <3>1. early \in SUBSET Proc
        BY DEF SwitchInv, Control, SwitchTypes
      <3> QED
        BY <2>2, <3>1
    <2> QED
      BY <2>1, <2>2 DEF K!sys_sleep
  <1>2. PICK place \in {"sleep", "sleepDone"} :
            /\ K!GoTo(c, place)
            /\ early' \subseteq Proc
            /\ place = "sleep" => proc[c] \in early'
            /\ \A q \in Proc : q # proc[c] => (q \in early' <=> q \in early)
    BY <1>1 DEF K!SleepTest
  <1>3. /\ saved' = saved /\ K!At(c) = x
        /\ UNCHANGED <<procstate, parent, chan, killed, stack, np>>
    BY <1>1 DEF K!sys_sleep, K!Enters
  <1>4. ~Trapped(c) /\ K!Wants[x] = "ticks" /\ proc[c] # None
    BY <1>3, WhereCall, WantsAt DEF SwitchInv, Control, Spins, CallPlaces
  <1>5. MayGo(c, place)
    BY <1>4 DEF MayGo, CallPlaces
  <1>6. SwitchTableTypes'
    BY <1>2, <1>3, TableTyped DEF SwitchTableTypes
  <1>7. Control' /\ proc' = proc
    BY <1>1, <1>2, <1>3, <1>4, <1>5, <1>6, EnterControl DEF WithTable, WithTicks
  <1>8. States' /\ Embryos' /\ Family'
    BY <1>2, <1>3, <1>4, <1>5, <1>7, StillMove DEF StateAt, SwitchForking
  <1>9. /\ K!At(c)' = place /\ pc'[proc[c]] = place
        /\ \A d \in Cpu : d # c => K!At(d)' = K!At(d)
        /\ \A p \in Proc : p # proc[c] => pc'[p] = pc[p]
        /\ proc[c] \in Proc
    BY <1>2, <1>4, <1>5, <1>7, MovesInv
  <1>10. procstate[proc[c]] # "SLEEPING"
    BY <1>3, <1>4 DEF SwitchInv, States, StateAt
  <1>11. Sleepers'
    <2>1. \A p \in Proc : pc'[p] \in {"sleep", "letGo"} => p \in early'
      BY <1>2, <1>9 DEF SwitchInv, Sleepers
    <2>2. K!NoLostWakeup'
      BY <1>2, <1>3, <1>9, <1>10 DEF SwitchInv, Sleepers, K!NoLostWakeup, K!Dead, K!Child
    <2> QED
      BY <1>3, <2>1, <2>2 DEF SwitchInv, Sleepers
  <1> QED
    BY <1>7, <1>8, <1>11 DEF SwitchInv

\* The family when nobody is born, dies or is killed.
LEMMA FamilyStep ==
  ASSUME K!ConstantsAssumption, SwitchInv, NEW c \in Cpu, NEW place, K!GoTo(c, place),
         MayGo(c, place), proc' = proc, parent' = parent, InitProc \notin killed',
         place \notin Leaving,
         procstate'[InitProc] \notin {"UNUSED", "EMBRYO", "ZOMBIE"}
  PROVE  Family'
  BY MovesInv, Constants DEF SwitchInv, Family

\* Sleepers, when some are woken and nobody dies or is killed.
LEMMA SleepersStep ==
  ASSUME K!ConstantsAssumption, SwitchInv, NEW c \in Cpu, NEW place, K!GoTo(c, place),
         MayGo(c, place), proc' = proc, early' = early, parent' = parent, chan' = chan,
         killed' \subseteq killed \union {q \in Proc : procstate'[q] # "SLEEPING"},
         place \notin {"sleep", "letGo"},
         \A q \in Proc : procstate'[q] = "SLEEPING" => procstate[q] = "SLEEPING",
         \A q \in Proc : procstate'[q] = "ZOMBIE" => procstate[q] = "ZOMBIE",
         K!At(c) = "wakeup" => \A q \in Proc : procstate'[q] = "SLEEPING" => chan[q] # "ticks"
  PROVE  Sleepers'
  <1>1. /\ K!At(c)' = place
        /\ \A d \in Cpu : d # c => K!At(d)' = K!At(d)
        /\ \A p \in Proc : p # proc[c] => pc'[p] = pc[p]
        /\ proc[c] # None => pc'[proc[c]] = IF Trapped(c) THEN pc[proc[c]] ELSE place
    BY MovesInv
  <1>2. \A p \in Proc : pc'[p] \in {"sleep", "letGo"} => p \in early
    BY <1>1, Constants DEF SwitchInv, Sleepers
  <1>3. ASSUME NEW p \in Proc, procstate'[p] = "SLEEPING"
        PROVE  /\ chan[p] = "ticks" /\ p \notin early => \E d \in Cpu : K!At(d)' = "wakeup"
               /\ chan[p] = p => K!Dead(p)' = {} /\ p \notin killed'
    <2>1. procstate[p] = "SLEEPING"
      BY <1>3
    <2>2. chan[p] = "ticks" /\ p \notin early => \E d \in Cpu : K!At(d)' = "wakeup"
      BY <1>1, <1>3, <2>1 DEF SwitchInv, Sleepers, K!NoLostWakeup
    <2>3. chan[p] = p => K!Dead(p) = {} /\ p \notin killed
      BY <2>1 DEF SwitchInv, Sleepers, K!NoLostWakeup
    <2> QED
      BY <1>3, <2>2, <2>3 DEF K!Dead, K!Child
  <1>4. K!NoLostWakeup'
    BY <1>3 DEF K!NoLostWakeup
  <1> QED
    BY <1>2, <1>4 DEF SwitchInv, Sleepers

\* wakeup(&ticks) finds all who sleep on it.
LEMMA WakeupInv ==
  ASSUME K!ConstantsAssumption, SwitchInv, NEW c \in Cpu, K!wakeup(c)
  PROVE  SwitchInv'
  <1>1. /\ K!Enters(c, "wakeup") /\ K!GoTo(c, "woken") /\ saved' = saved /\ K!At(c) = "wakeup"
        /\ procstate' = K!Woken("ticks", procstate)
        /\ UNCHANGED <<parent, chan, killed, stack, np, early>>
    BY DEF K!wakeup, K!Enters
  <1>2. Trapped(c) /\ K!Wants["wakeup"] = "ptable"
    BY <1>1, WhereCall, WantsAt DEF SwitchInv, Control, Spins
  <1>3. MayGo(c, "woken")
    BY <1>2 DEF MayGo, LoopTraps, TrapPlaces
  <1>4. \A q \in Proc : procstate'[q] = IF procstate[q] = "SLEEPING" /\ chan[q] = "ticks" THEN "RUNNABLE" ELSE procstate[q]
    BY <1>1 DEF K!Woken
  <1>5. SwitchTableTypes'
    <2>1. procstate' \in [Proc -> {"UNUSED", "EMBRYO", "SLEEPING", "RUNNABLE", "RUNNING", "ZOMBIE"}]
      BY <1>1, TableTyped DEF K!Woken, SwitchTableTypes
    <2> QED
      BY <1>1, <2>1, TableTyped DEF SwitchTableTypes
  <1>6. Control' /\ proc' = proc /\ owner["ptable"] = None
    BY <1>1, <1>2, <1>3, <1>5, EnterControl DEF WithTable, WithTicks
  <1>7. proc[c] # None => proc[c] \in Proc /\ procstate'[proc[c]] = StateAt("woken")
    BY <1>1, <1>3, <1>4, <1>6, MovesInv DEF SwitchInv, States, StateAt
  <1>8. States' /\ Embryos'
    BY <1>1, <1>2, <1>3, <1>4, <1>6, <1>7, WakeStep DEF Wakes
  <1>9. Family'
    BY <1>1, <1>3, <1>4, <1>6, FamilyStep, Constants DEF SwitchInv, Family
  <1>10. Sleepers'
    BY <1>1, <1>3, <1>4, <1>6, SleepersStep
  <1> QED
    BY <1>6, <1>8, <1>9, <1>10 DEF SwitchInv

\* yield().
LEMMA YieldInv ==
  ASSUME K!ConstantsAssumption, SwitchInv, NEW c \in Cpu, K!yield(c)
  PROVE  SwitchInv'
  <1>1. /\ K!Enters(c, "yield") /\ K!GoTo(c, "yieldSwtch") /\ saved' = saved /\ K!At(c) = "yield"
        /\ procstate' = [procstate EXCEPT ![proc[c]] = "RUNNABLE"]
        /\ UNCHANGED <<parent, chan, killed, stack, np, early>>
    BY DEF K!yield, K!Enters
  <1>2. Trapped(c) /\ K!Wants["yield"] = "ptable" /\ proc[c] # None
    BY <1>1, WhereCall, WantsAt DEF SwitchInv, Control, Spins
  <1>3. MayGo(c, "yieldSwtch")
    BY <1>2 DEF MayGo, TrapPlaces
  <1>4. \A q \in Proc : procstate'[q] = IF q = proc[c] THEN "RUNNABLE" ELSE procstate[q]
    BY <1>1, TableTyped DEF SwitchTableTypes
  <1>5. SwitchTableTypes'
    <2>1. procstate' \in [Proc -> {"UNUSED", "EMBRYO", "SLEEPING", "RUNNABLE", "RUNNING", "ZOMBIE"}]
      BY <1>1, TableTyped DEF SwitchTableTypes
    <2> QED
      BY <1>1, <2>1, TableTyped DEF SwitchTableTypes
  <1>6. Control' /\ proc' = proc /\ owner["ptable"] = None
    BY <1>1, <1>2, <1>3, <1>5, EnterControl DEF WithTable, WithTicks
  <1>7. proc[c] \in Proc /\ procstate'[proc[c]] = StateAt("yieldSwtch")
    BY <1>1, <1>2, <1>3, <1>4, <1>6, MovesInv DEF StateAt
  <1>8. States' /\ Embryos'
    BY <1>1, <1>2, <1>3, <1>4, <1>6, <1>7, WakeStep DEF Wakes
  <1>9. Family'
    BY <1>1, <1>3, <1>4, <1>6, FamilyStep, Constants DEF SwitchInv, Family
  <1>10. Sleepers'
    BY <1>1, <1>3, <1>4, <1>6, SleepersStep
  <1> QED
    BY <1>6, <1>8, <1>9, <1>10 DEF SwitchInv

\* kill() wakes whom it names, so nobody sleeps in wait killed.
LEMMA KillInv ==
  ASSUME K!ConstantsAssumption, SwitchInv, NEW c \in Cpu, K!kill(c)
  PROVE  SwitchInv'
  <1>1. /\ K!Enters(c, "kill") /\ K!GoTo(c, "done") /\ saved' = saved /\ K!At(c) = "kill"
        /\ UNCHANGED <<parent, chan, stack, np, early>>
    BY DEF K!kill, K!Enters
  <1>2. ~Trapped(c) /\ K!Wants["kill"] = "ptable" /\ proc[c] # None
    BY <1>1, WhereCall, WantsAt DEF SwitchInv, Control, Spins, CallPlaces
  <1>3. MayGo(c, "done")
    BY <1>2 DEF MayGo, CallPlaces
  <1>4. PICK gone \in SUBSET Victim :
            /\ killed' = killed \union gone
            /\ procstate' \in [Proc -> {"UNUSED", "EMBRYO", "SLEEPING", "RUNNABLE", "RUNNING", "ZOMBIE"}]
            /\ \A p \in Proc : procstate'[p] = IF p \in gone /\ procstate[p] = "SLEEPING" THEN "RUNNABLE" ELSE procstate[p]
    <2>1. CASE killed' = killed /\ procstate' = procstate
      <3>1. {} \in SUBSET Victim /\ killed' = killed \union {}
        BY <2>1
      <3> QED
        BY <2>1, <3>1, TableTyped DEF SwitchTableTypes
    <2>2. CASE \E q \in Victim :
                  /\ killed' = killed \union {q}
                  /\ procstate' = IF procstate[q] = "SLEEPING" THEN [procstate EXCEPT ![q] = "RUNNABLE"] ELSE procstate
      <3>1. PICK q \in Victim :
                /\ killed' = killed \union {q}
                /\ procstate' = IF procstate[q] = "SLEEPING" THEN [procstate EXCEPT ![q] = "RUNNABLE"] ELSE procstate
        BY <2>2
      <3>2. {q} \in SUBSET Victim /\ q \in Proc
        BY Constants
      <3> QED
        BY <3>1, <3>2, TableTyped DEF SwitchTableTypes
    <2> QED
      BY <2>1, <2>2 DEF K!kill
  <1>5. /\ \A q \in Proc : procstate'[q] = IF q \in gone /\ procstate[q] = "SLEEPING" THEN "RUNNABLE" ELSE procstate[q]
        /\ killed' \subseteq Proc /\ InitProc \notin killed'
    BY <1>4, Constants, TableTyped DEF SwitchTableTypes, SwitchInv, Family
  <1>6. SwitchTableTypes'
    BY <1>1, <1>4, <1>5, TableTyped DEF SwitchTableTypes
  <1>7. Control' /\ proc' = proc /\ owner["ptable"] = None
    BY <1>1, <1>2, <1>3, <1>6, EnterControl DEF WithTable, WithTicks
  <1>8. proc[c] \in Proc /\ procstate'[proc[c]] = StateAt("done")
    BY <1>1, <1>2, <1>3, <1>5, <1>7, MovesInv DEF SwitchInv, States, StateAt
  <1>9. States' /\ Embryos'
    BY <1>1, <1>2, <1>3, <1>5, <1>7, <1>8, WakeStep DEF Wakes, SwitchForking
  <1>10. Family'
    BY <1>1, <1>3, <1>5, <1>7, FamilyStep, Constants DEF SwitchInv, Family
  <1>11. killed' \subseteq killed \union {q \in Proc : procstate'[q] # "SLEEPING"}
    BY <1>4, <1>5, Constants
  <1>12. Sleepers'
    BY <1>1, <1>3, <1>5, <1>7, <1>11, SleepersStep
  <1> QED
    BY <1>7, <1>9, <1>10, <1>12 DEF SwitchInv

\* sleep(): the caller is asleep from the moment it lets tickslock go.
LEMMA LetGoInv ==
  ASSUME K!ConstantsAssumption, SwitchInv, NEW c \in Cpu, K!letGo(c)
  PROVE  SwitchInv'
  <1>1. /\ K!At(c) = "letGo" /\ owner' = [owner EXCEPT !["ticks"] = None] /\ K!popcli(c)
        /\ chan' = [chan EXCEPT ![proc[c]] = "ticks"]
        /\ procstate' = [procstate EXCEPT ![proc[c]] = "SLEEPING"]
        /\ K!GoTo(c, "sleepSwtch")
        /\ UNCHANGED <<spinning, proc, saved, parent, killed, stack, np, early>>
    BY DEF K!letGo
  <1>2. ~Trapped(c) /\ proc[c] # None /\ c \notin spinning
    BY <1>1, WhereCall DEF SwitchInv, Control, Flags, FlagsOf, Spins, CallPlaces
  <1>3. MayGo(c, "sleepSwtch")
    BY <1>2 DEF MayGo, CallPlaces
  <1>4. /\ proc[c] \in Proc /\ Runs(proc[c]) /\ pc[proc[c]] = "letGo" /\ trap[proc[c]] = "none"
        /\ pc'[proc[c]] = "sleepSwtch"
        /\ \A d \in Cpu : d # c => K!At(d)' = K!At(d)
        /\ \A p \in Proc : p # proc[c] => pc'[p] = pc[p]
    BY <1>1, <1>2, <1>3, MovesInv DEF SwitchInv, Control, Threads, Open, Trapped
  <1>5. /\ \A q \in Proc : procstate'[q] = IF q = proc[c] THEN "SLEEPING" ELSE procstate[q]
        /\ \A q \in Proc : chan'[q] = IF q = proc[c] THEN "ticks" ELSE chan[q]
    BY <1>1, <1>4, TableTyped DEF SwitchTableTypes
  <1>6. /\ procstate' \in [Proc -> {"UNUSED", "EMBRYO", "SLEEPING", "RUNNABLE", "RUNNING", "ZOMBIE"}]
        /\ chan' \in [Proc -> Proc \union {None, "ticks"}]
    BY <1>1, <1>4, TableTyped DEF SwitchTableTypes
  <1>7. /\ Locked' /\ Flags' /\ owner' \in [K!Lock -> Cpu \union {None}]
        /\ iflag' \subseteq Cpu /\ intena' \subseteq Cpu /\ ncli' \in [Cpu -> Int]
    BY <1>1, <1>2, <1>3, ReleaseStep DEF SwitchInv, K!Lock, WithTable, WithTicks
  <1>8. /\ pc' \in [Proc \union Cpu -> CallPlaces \union LoopPlaces]
        /\ trap' \in [Proc \union Cpu -> TrapPlaces]
        /\ Threads'
    BY <1>1, <1>3, Moves DEF SwitchInv, Control
  <1>9. Control'
    BY <1>1, <1>6, <1>7, <1>8 DEF SwitchInv, Control, SwitchTypes
  <1>10. States' /\ Embryos'
    BY <1>1, <1>2, <1>3, <1>4, <1>5, WakeStep DEF Wakes, SwitchForking, StateAt, WithTable
  <1>11. Family'
    BY <1>1, <1>3, <1>5, FamilyStep, Constants DEF SwitchInv, Family
  <1>12. Sleepers'
    <2>1. proc[c] \in early
      BY <1>4 DEF SwitchInv, Sleepers
    <2>2. \A p \in Proc : pc'[p] \in {"sleep", "letGo"} => p \in early
      BY <1>4 DEF SwitchInv, Sleepers
    <2>3. \A p \in Proc : K!Dead(p)' = K!Dead(p)
      <3>1. procstate[proc[c]] # "ZOMBIE"
        BY <1>1, <1>2 DEF SwitchInv, States, StateAt
      <3>2. \A q \in Proc : procstate'[q] = "ZOMBIE" <=> procstate[q] = "ZOMBIE"
        BY <1>5, <3>1
      <3> QED
        BY <1>1, <3>2 DEF K!Dead, K!Child
    <2>4. K!NoLostWakeup'
      BY <1>1, <1>4, <1>5, <2>1, <2>3, Constants DEF SwitchInv, Sleepers, K!NoLostWakeup
    <2> QED
      BY <1>1, <1>5, <2>2, <2>4 DEF SwitchInv, Sleepers
  <1> QED
    BY <1>9, <1>10, <1>11, <1>12 DEF SwitchInv

-----------------------------------------------------------------------------
(* Birth and death of a process.                                              *)

\* The child becomes runnable, with a stack and at forkret.
LEMMA ForkInv ==
  ASSUME K!ConstantsAssumption, SwitchInv, NEW c \in Cpu, K!fork(c)
  PROVE  SwitchInv'
  <1> DEFINE me == proc[c]
             q == np[me]
  <1>1. /\ K!Enters(c, "fork") /\ K!GoTo(c, "done") /\ saved' = saved /\ K!At(c) = "fork"
        /\ procstate' = [procstate EXCEPT ![q] = "RUNNABLE"] /\ np' = [np EXCEPT ![me] = None]
        /\ UNCHANGED <<parent, chan, killed, stack, early>>
    BY DEF K!fork, K!Enters
  <1>2. ~Trapped(c) /\ K!Wants["fork"] = "ptable" /\ me # None
    BY <1>1, WhereCall, WantsAt DEF SwitchInv, Control, Spins, CallPlaces
  <1>3. MayGo(c, "done")
    BY <1>2 DEF MayGo, CallPlaces
  <1>4. me \in Proc /\ Runs(me) /\ pc[me] = "fork" /\ trap[me] = "none"
    BY <1>1, <1>2, Who DEF SwitchInv, Control, Trapped
  <1>5. /\ q \in Proc /\ procstate[q] = "EMBRYO" /\ q \in stack /\ Here(q) = "forkret"
        /\ ~Runs(q) /\ q # me
    BY <1>4 DEF SwitchInv, Embryos, SwitchForking, Control, SwitchTypes, States, StateAt, Runs
  <1> HIDE DEF q
  <1>6. /\ \A p \in Proc : procstate'[p] = IF p = q THEN "RUNNABLE" ELSE procstate[p]
        /\ \A p \in Proc : np'[p] = IF p = me THEN None ELSE np[p]
    BY <1>1, <1>4, <1>5, TableTyped DEF SwitchTableTypes
  <1>7. SwitchTableTypes'
    <2>1. /\ procstate' \in [Proc -> {"UNUSED", "EMBRYO", "SLEEPING", "RUNNABLE", "RUNNING", "ZOMBIE"}]
          /\ np' \in [Proc -> Proc \union {None}]
      BY <1>1, <1>4, <1>5, TableTyped DEF SwitchTableTypes
    <2> QED
      BY <1>1, <2>1, TableTyped DEF SwitchTableTypes
  <1>8. Control' /\ proc' = proc /\ owner["ptable"] = None
    BY <1>1, <1>2, <1>3, <1>7, EnterControl DEF WithTable, WithTicks
  <1>9. /\ \A p \in Proc : p # me => pc'[p] = pc[p] /\ trap'[p] = trap[p] /\ Here(p)' = Here(p)
        /\ pc'[me] = "done" /\ trap'[me] = "none"
    BY <1>1, <1>2, <1>3, <1>8, MovesInv
  <1>10. States'
    <2>1. procstate'[me] = StateAt("done") /\ me \in stack'
      BY <1>1, <1>2, <1>5, <1>6, <1>4 DEF SwitchInv, States, StateAt
    <2>2. \A p \in Proc : procstate[p] = "RUNNING" /\ p # me => procstate'[p] = "RUNNING"
      BY <1>5, <1>6
    <2>3. \A p \in Proc : procstate[p] # "RUNNING" /\ p # me /\ ~Runs(p) =>
             /\ procstate'[p] # "RUNNING"
             /\ procstate'[p] \in {"RUNNABLE", "SLEEPING"} => p \in stack'
             /\ procstate'[p] = "RUNNABLE" => Here(p) # "exitSwtch"
             /\ procstate'[p] = "SLEEPING" => Here(p) \in {"sleepSwtch", "waitSwtch"}
      BY <1>1, <1>5, <1>6 DEF SwitchInv, States
    <2> QED
      BY <1>1, <1>3, <1>8, <2>1, <2>2, <2>3, StatesStep
  <1>11. Embryos'
    <2>1. \A p \in Proc : np'[p] # None <=> pc'[p] \in SwitchForking
      BY <1>4, <1>6, <1>9 DEF SwitchInv, Embryos, SwitchForking
    <2>2. \A p \in Proc : np'[p] # None => np'[p] # q /\ np'[p] \in Proc
      BY <1>4, <1>5, <1>6 DEF q, SwitchInv, Embryos, Control, SwitchTypes
    <2>3. \A p \in Proc : np'[p] # None =>
              procstate'[np'[p]] = "EMBRYO" /\ procstate'[p] \notin Unborn /\ trap'[p] \notin Leaving
      BY <1>5, <1>6, <1>9, <2>2 DEF SwitchInv, Embryos
    <2>4. \A p, r \in Proc : np'[p] = np'[r] /\ np'[p] # None => p = r
      BY <1>6 DEF SwitchInv, Embryos
    <2>5. \A p \in Proc : np'[p] # None => np'[p] # me
      BY <1>1, <1>2, <1>6 DEF SwitchInv, Embryos, States, StateAt
    <2>6. \A p \in Proc : pc'[p] = "fork" => (np[p] \in stack /\ Here(np[p]) = "forkret")'
      BY <1>1, <1>6, <1>9, <2>1, <2>2, <2>5 DEF SwitchInv, Embryos, SwitchForking
    <2> QED
      BY <2>1, <2>3, <2>4, <2>6 DEF Embryos, Here
  <1>12. Family'
    BY <1>1, <1>3, <1>6, <1>8, FamilyStep, Constants DEF SwitchInv, Family
  <1>13. Sleepers'
    BY <1>1, <1>3, <1>6, <1>8, SleepersStep
  <1> QED
    BY <1>8, <1>10, <1>11, <1>12, <1>13 DEF SwitchInv

\* A free slot becomes an embryo, which no other fork has.
LEMMA AllocprocInv ==
  ASSUME K!ConstantsAssumption, SwitchInv, NEW c \in Cpu, K!allocproc(c)
  PROVE  SwitchInv'
  <1> DEFINE me == proc[c]
  <1>1. /\ K!Enters(c, "allocproc") /\ saved' = saved /\ K!At(c) = "allocproc"
        /\ UNCHANGED <<parent, chan, killed, stack, early>>
    BY DEF K!allocproc, K!Enters
  <1>2. ~Trapped(c) /\ K!Wants["allocproc"] = "ptable" /\ me # None
    BY <1>1, WhereCall, WantsAt DEF SwitchInv, Control, Spins, CallPlaces
  <1>3. MayGo(c, "found") /\ MayGo(c, "done")
    BY <1>2 DEF MayGo, CallPlaces
  <1>4. me \in Proc /\ Runs(me) /\ pc[me] = "allocproc" /\ trap[me] = "none" /\ procstate[me] = "RUNNING"
    BY <1>1, <1>2, Who DEF SwitchInv, Control, Trapped, States, StateAt
  <1>5. CASE UNCHANGED <<procstate, np>> /\ K!GoTo(c, "done")
    <2>1. Control' /\ proc' = proc
      BY <1>1, <1>2, <1>3, <1>5, TableTyped, EnterControl DEF WithTable, WithTicks, SwitchTableTypes
    <2>2. States' /\ Embryos' /\ Family' /\ Sleepers'
      BY <1>1, <1>3, <1>5, <2>1, StillMove DEF StateAt, SwitchForking
    <2> QED
      BY <2>1, <2>2 DEF SwitchInv
  <1>6. ASSUME NEW q \in Proc, procstate[q] = "UNUSED", procstate' = [procstate EXCEPT ![q] = "EMBRYO"],
               np' = [np EXCEPT ![me] = q], K!GoTo(c, "found")
        PROVE  SwitchInv'
    <2>1. /\ \A p \in Proc : procstate'[p] = IF p = q THEN "EMBRYO" ELSE procstate[p]
          /\ \A p \in Proc : np'[p] = IF p = me THEN q ELSE np[p]
          /\ q # me /\ q # InitProc
      BY <1>4, <1>6, TableTyped DEF SwitchTableTypes, SwitchInv, Family
    <2>2. SwitchTableTypes'
      <3>1. /\ procstate' \in [Proc -> {"UNUSED", "EMBRYO", "SLEEPING", "RUNNABLE", "RUNNING", "ZOMBIE"}]
            /\ np' \in [Proc -> Proc \union {None}]
        BY <1>4, <1>6, TableTyped DEF SwitchTableTypes
      <3> QED
        BY <1>1, <3>1, TableTyped DEF SwitchTableTypes
    <2>3. Control' /\ proc' = proc /\ owner["ptable"] = None
      BY <1>1, <1>2, <1>3, <1>6, <2>2, EnterControl DEF WithTable, WithTicks
    <2>4. /\ \A p \in Proc : p # me => pc'[p] = pc[p] /\ trap'[p] = trap[p] /\ Here(p)' = Here(p)
          /\ pc'[me] = "found" /\ trap'[me] = "none"
      BY <1>2, <1>3, <1>6, <2>3, MovesInv
    <2>5. States'
      <3>1. procstate'[me] = StateAt("found") /\ me \in stack'
        BY <1>1, <1>2, <1>4, <2>1 DEF SwitchInv, States, StateAt
      <3>2. \A p \in Proc : procstate[p] = "RUNNING" /\ p # me => procstate'[p] = "RUNNING"
        BY <1>6, <2>1
      <3>3. \A p \in Proc : procstate[p] # "RUNNING" /\ p # me /\ ~Runs(p) =>
               /\ procstate'[p] # "RUNNING"
               /\ procstate'[p] \in {"RUNNABLE", "SLEEPING"} => p \in stack'
               /\ procstate'[p] = "RUNNABLE" => Here(p) # "exitSwtch"
               /\ procstate'[p] = "SLEEPING" => Here(p) \in {"sleepSwtch", "waitSwtch"}
        BY <1>1, <2>1 DEF SwitchInv, States
      <3> QED
        BY <1>1, <1>3, <1>6, <2>3, <3>1, <3>2, <3>3, StatesStep
    <2>6. Embryos'
      <3>1. \A p \in Proc : np'[p] # None <=> pc'[p] \in SwitchForking
        BY <1>4, <2>1, <2>4, Constants DEF SwitchInv, Embryos, SwitchForking
      <3>2. \A p \in Proc : np[p] # None => np[p] # q /\ np[p] \in Proc /\ p # q /\ np[p] # me
        BY <1>4, <1>6 DEF SwitchInv, Embryos, Control, SwitchTypes
      <3>3. \A p \in Proc : np'[p] # None =>
                procstate'[np'[p]] = "EMBRYO" /\ procstate'[p] \notin Unborn /\ trap'[p] \notin Leaving
        BY <1>4, <2>1, <2>4, <3>2 DEF SwitchInv, Embryos
      <3>4. \A p, r \in Proc : np'[p] = np'[r] /\ np'[p] # None => p = r
        BY <2>1, <3>2 DEF SwitchInv, Embryos
      <3>5. \A p \in Proc : pc'[p] = "fork" => (np[p] \in stack /\ Here(np[p]) = "forkret")'
        BY <1>1, <2>1, <2>4, <3>1, <3>2 DEF SwitchInv, Embryos, SwitchForking
      <3> QED
        BY <3>1, <3>3, <3>4, <3>5 DEF Embryos, Here
    <2>7. Family'
      BY <1>1, <1>3, <1>6, <2>1, <2>3, FamilyStep, Constants DEF SwitchInv, Family
    <2>8. Sleepers'
      BY <1>1, <1>3, <1>6, <2>1, <2>3, SleepersStep
    <2> QED
      BY <2>3, <2>5, <2>6, <2>7, <2>8 DEF SwitchInv
  <1> QED
    BY <1>5, <1>6 DEF K!allocproc

\* The stack and the memory of the child: no lock is held.
LEMMA CopyuvmFails ==
  ASSUME K!ConstantsAssumption, SwitchInv, NEW c \in Cpu, K!At(c) = "copyuvm", NEW q, q = np[proc[c]],
         procstate' = [procstate EXCEPT ![q] = "UNUSED"], np' = [np EXCEPT ![proc[c]] = None],
         K!GoTo(c, "sysret"), UNCHANGED <<K!locks, K!cpuVars, saved, parent, chan, killed, stack, early>>
  PROVE  SwitchInv'
  <1> DEFINE me == proc[c]
  <1>1. /\ UNCHANGED <<owner, spinning, iflag, ncli, intena, proc, saved, parent, chan, killed,
                       stack, early>>
        /\ ~Trapped(c) /\ me # None /\ c \notin spinning
    BY WhereCall DEF SwitchInv, Control, Flags, FlagsOf, Spins, CallPlaces, K!locks, K!cpuVars
  <1>2. MayGo(c, "sysret")
    BY <1>1 DEF MayGo, CallPlaces
  <1>3. /\ me \in Proc /\ Runs(me) /\ pc[me] = "copyuvm" /\ trap[me] = "none"
        /\ procstate[me] = "RUNNING"
    BY <1>1, Who DEF SwitchInv, Control, Trapped, States, StateAt
  <1>4. q \in Proc /\ procstate[q] = "EMBRYO" /\ ~Runs(q) /\ q # me /\ q # InitProc
    BY <1>3 DEF SwitchInv, Embryos, SwitchForking, Control, SwitchTypes, States, StateAt, Runs, Family
  <1>5. /\ \A p \in Proc : procstate'[p] = IF p = q THEN "UNUSED" ELSE procstate[p]
        /\ \A p \in Proc : np'[p] = IF p = me THEN None ELSE np[p]
        /\ procstate' \in [Proc -> {"UNUSED", "EMBRYO", "SLEEPING", "RUNNABLE", "RUNNING", "ZOMBIE"}]
        /\ np' \in [Proc -> Proc \union {None}]
    BY <1>3, <1>4, TableTyped DEF SwitchTableTypes
  <1>6. Locked' /\ Flags'
    BY <1>1, <1>2, PlainStep DEF SwitchInv, WithTable, WithTicks
  <1>7. /\ pc' \in [Proc \union Cpu -> CallPlaces \union LoopPlaces]
        /\ trap' \in [Proc \union Cpu -> TrapPlaces]
        /\ Threads'
    BY <1>1, <1>2, Moves DEF SwitchInv, Control
  <1>8. Control'
    BY <1>1, <1>5, <1>6, <1>7 DEF SwitchInv, Control, SwitchTypes
  <1>9. /\ \A p \in Proc : p # me => pc'[p] = pc[p] /\ trap'[p] = trap[p] /\ Here(p)' = Here(p)
        /\ pc'[me] = "sysret" /\ trap'[me] = "none" /\ K!At(c)' = "sysret"
        /\ \A d \in Cpu : d # c => K!At(d)' = K!At(d)
        /\ \A p \in Proc : Runs(p)' = Runs(p)
    BY <1>1, <1>2, MovesInv
  <1>10. States'
    <2>1. ASSUME NEW d \in Cpu, proc[d] # None
          PROVE  procstate'[proc[d]] = StateAt(K!At(d)') /\ proc[d] \in stack
      <3>1. proc[d] \in Proc /\ proc[d] # q
        BY <1>4, <2>1 DEF Runs, SwitchInv, Control, SwitchTypes
      <3>2. StateAt(K!At(d)') = StateAt(K!At(d))
        BY <1>9 DEF StateAt
      <3> QED
        BY <1>5, <2>1, <3>1, <3>2 DEF SwitchInv, States
    <2>2. ASSUME NEW p \in Proc, ~Runs(p)
          PROVE  p # me /\ procstate'[p] \in {procstate[p], "UNUSED"}
      BY <1>3, <1>5, <2>2
    <2> QED
      BY <1>1, <1>9, <2>1, <2>2 DEF SwitchInv, States
  <1>11. Embryos'
    <2>1. \A p \in Proc : np'[p] # None <=> pc'[p] \in SwitchForking
      BY <1>3, <1>5, <1>9 DEF SwitchInv, Embryos, SwitchForking
    <2>2. \A p \in Proc : np'[p] # None => np'[p] # q /\ np'[p] \in Proc
      BY <1>3, <1>4, <1>5 DEF SwitchInv, Embryos, Control, SwitchTypes
    <2>3. \A p \in Proc : np'[p] # None =>
              procstate'[np'[p]] = "EMBRYO" /\ procstate'[p] \notin Unborn /\ trap'[p] \notin Leaving
      BY <1>4, <1>5, <1>9, <2>2 DEF SwitchInv, Embryos
    <2>4. \A p, r \in Proc : np'[p] = np'[r] /\ np'[p] # None => p = r
      BY <1>5 DEF SwitchInv, Embryos
    <2>5. \A p \in Proc : np'[p] # None => np'[p] # me
      BY <1>3, <1>5 DEF SwitchInv, Embryos
    <2>6. \A p \in Proc : pc'[p] = "fork" => (np[p] \in stack /\ Here(np[p]) = "forkret")'
      BY <1>1, <1>5, <1>9, <2>1, <2>2, <2>5 DEF SwitchInv, Embryos, SwitchForking
    <2> QED
      BY <2>1, <2>3, <2>4, <2>6 DEF Embryos, Here
  <1>12. Family'
    BY <1>1, <1>2, <1>4, <1>5, FamilyStep, Constants DEF SwitchInv, Family
  <1>13. Sleepers'
    BY <1>1, <1>2, <1>4, <1>5, SleepersStep
  <1> QED
    BY <1>8, <1>10, <1>11, <1>12, <1>13 DEF SwitchInv

\* The child gets its stack and its parent.
LEMMA CopyuvmWorks ==
  ASSUME K!ConstantsAssumption, SwitchInv, NEW c \in Cpu, K!At(c) = "copyuvm", NEW q, q = np[proc[c]],
         stack' = stack \union {q}, parent' = [parent EXCEPT ![q] = proc[c]],
         pc' = [pc EXCEPT ![q] = "forkret", ![proc[c]] = "fork"],
         trap' = [trap EXCEPT ![q] = "none"],
         UNCHANGED <<K!locks, K!cpuVars, saved, procstate, np, chan, killed, early>>
  PROVE  SwitchInv'
  <1> DEFINE me == proc[c]
  <1>1. /\ UNCHANGED <<owner, spinning, iflag, ncli, intena, proc, saved, procstate, np, chan, killed,
                       early>>
        /\ ~Trapped(c) /\ me # None /\ c \notin spinning
    BY WhereCall DEF SwitchInv, Control, Flags, FlagsOf, Spins, CallPlaces, K!locks, K!cpuVars
  <1>2. /\ me \in Proc /\ Runs(me) /\ pc[me] = "copyuvm" /\ trap[me] = "none"
        /\ procstate[me] = "RUNNING" /\ K!Thread(c) = me
    BY <1>1, Who DEF SwitchInv, Control, Trapped, States, StateAt
  <1>3. /\ q \in Proc /\ procstate[q] = "EMBRYO" /\ ~Runs(q) /\ q # me /\ q # InitProc
        /\ q \notin Cpu /\ me \notin Cpu
    BY <1>2, Constants DEF SwitchInv, Embryos, SwitchForking, Control, SwitchTypes, States, StateAt, Runs, Family
  <1>4. /\ \A t \in Proc \union Cpu : t \notin {q, me} => pc'[t] = pc[t]
        /\ \A t \in Proc \union Cpu : t # q => trap'[t] = trap[t]
        /\ pc'[me] = "fork" /\ pc'[q] = "forkret" /\ trap'[q] = "none"
        /\ pc' \in [Proc \union Cpu -> CallPlaces \union LoopPlaces]
        /\ trap' \in [Proc \union Cpu -> TrapPlaces]
    BY <1>2, <1>3 DEF SwitchInv, Control, SwitchTypes, CallPlaces, TrapPlaces
  <1>5. \A p \in Proc : parent'[p] = IF p = q THEN me ELSE parent[p]
    BY <1>3, TableTyped DEF SwitchTableTypes
  <1>6. /\ \A p \in Proc : Runs(p)' = Runs(p)
        /\ \A p \in Proc : p \notin {q, me} => Here(p)' = Here(p)
        /\ Here(q)' = "forkret"
    BY <1>1, <1>3, <1>4 DEF Runs, Here
  <1>7. \A d \in Cpu : /\ d # c => K!At(d)' = K!At(d)
                       /\ Trapped(d)' = Trapped(d)
    <2>1. ASSUME NEW d \in Cpu
          PROVE  /\ K!Thread(d)' = K!Thread(d) /\ K!Thread(d) \in Proc \union Cpu /\ K!Thread(d) # q
                 /\ d # c => K!Thread(d) # me
      BY <1>1, <1>2, <1>3, Who, Constants DEF K!Thread, Runs, SwitchInv, Control
    <2> QED
      BY <1>4, <2>1 DEF K!At, Trapped
  <1>8. K!At(c)' = "fork"
    BY <1>1, <1>2, <1>3, <1>4 DEF K!At, K!Thread
  <1>9. SwitchTypes'
    <2>1. stack' \subseteq Proc /\ parent' \in [Proc -> Proc \union {None}]
      BY <1>2, <1>3 DEF SwitchInv, Control, SwitchTypes
    <2> QED
      BY <1>1, <1>4, <2>1 DEF SwitchInv, Control, SwitchTypes
  <1>10. Threads'
    <2>1. \A p \in Proc : pc'[p] \in CallPlaces
      BY <1>4 DEF SwitchInv, Control, Threads, CallPlaces
    <2>2. \A d \in Cpu : pc'[d] = pc[d] /\ trap'[d] = trap[d]
      BY <1>3, <1>4
    <2>3. \A t \in Proc \union Cpu : trap'[t] # "none" => pc'[t] \in Open
      BY <1>2, <1>4 DEF SwitchInv, Control, Threads
    <2>4. \A p \in Proc : ~Runs(p) => Here(p)' \in Switching \union {"forkret"}
      BY <1>2, <1>6 DEF SwitchInv, Control, Threads
    <2> QED
      BY <1>1, <1>6, <2>1, <2>2, <2>3, <2>4 DEF SwitchInv, Control, Threads
  <1>11. Locked'
    BY <1>1, <1>7, <1>8 DEF SwitchInv, Control, Locked, WithTable, WithTicks
  <1>12. Flags'
    <2>1. FlagsOf(c)'
      BY <1>1, <1>7, <1>8 DEF SwitchInv, Control, Flags, FlagsOf, SwitchBusy, WithTable, WithTicks
    <2>2. \A d \in Cpu : d # c => FlagsOf(d)'
      BY <1>1, <1>7, OthersStay DEF SwitchInv
    <2>3. ParkedFlags'
      BY <1>1, <1>2, <1>4, <1>6 DEF SwitchInv, Control, Flags, ParkedFlags
    <2> QED
      BY <2>1, <2>2, <2>3 DEF Flags
  <1>13. States'
    <2>1. \A d \in Cpu : StateAt(K!At(d)') = StateAt(K!At(d))
      BY <1>7, <1>8 DEF StateAt
    <2>2. \A d \in Cpu : proc[d] # None => procstate[proc[d]] = StateAt(K!At(d)') /\ proc[d] \in stack'
      BY <2>1 DEF SwitchInv, States
    <2>3. \A p \in Proc : ~Runs(p) => p # me /\ (p # q => Here(p)' = Here(p))
      BY <1>2, <1>6
    <2> QED
      BY <1>1, <1>3, <1>6, <2>2, <2>3 DEF SwitchInv, States
  <1>14. Embryos'
    <2>1. pc[q] \notin SwitchForking
      BY <1>3 DEF SwitchInv, Embryos
    <2>2. \A p \in Proc : np'[p] # None <=> pc'[p] \in SwitchForking
      BY <1>1, <1>2, <1>4, <2>1 DEF SwitchInv, Embryos, SwitchForking
    <2>3. \A p \in Proc : np[p] # None =>
              procstate[np[p]] = "EMBRYO" /\ procstate[p] \notin Unborn /\ trap'[p] \notin Leaving
      BY <1>4 DEF SwitchInv, Embryos
    <2>4. \A p \in Proc : np[p] # None => np[p] # me /\ np[p] \in Proc
      BY <1>2 DEF SwitchInv, Embryos, Control, SwitchTypes
    <2>5. \A p \in Proc : pc'[p] = "fork" => (np[p] \in stack /\ Here(np[p]) = "forkret")'
      <3> SUFFICES ASSUME NEW p \in Proc, pc'[p] = "fork"
                   PROVE  (np[p] \in stack /\ Here(np[p]) = "forkret")'
        OBVIOUS
      <3>1. np[p] # None
        BY <1>1, <2>2 DEF SwitchForking
      <3>2. CASE p = me
        BY <1>1, <1>4, <3>2 DEF Here
      <3>3. CASE p # me
        <4>1. pc[p] = "fork" /\ np[p] # q
          BY <1>4, <1>2, <3>1, <3>3 DEF SwitchInv, Embryos
        <4> QED
          BY <1>1, <1>4, <2>4, <3>1, <4>1 DEF SwitchInv, Embryos, Here
      <3> QED
        BY <3>2, <3>3
    <2>6. np' = np /\ procstate' = procstate
      BY <1>1
    <2>7. \A p \in Proc : np'[p] # None => /\ procstate'[np'[p]] = "EMBRYO"
                                          /\ procstate'[p] \notin Unborn /\ trap'[p] \notin Leaving
      BY <2>3, <2>6
    <2>8. \A p, r \in Proc : np'[p] = np'[r] /\ np'[p] # None => p = r
      BY <2>6 DEF SwitchInv, Embryos
    <2> QED
      BY <2>2, <2>5, <2>7, <2>8 DEF Embryos
  <1>15. Family'
    BY <1>1, <1>2, <1>3, <1>4, <1>5, Constants DEF SwitchInv, Family
  <1>16. Sleepers'
    <2>1. \A p \in Proc : pc'[p] \in {"sleep", "letGo"} => p \in early
      BY <1>4 DEF SwitchInv, Sleepers
    <2>2. \A p \in Proc : K!Dead(p) = {} => K!Dead(p)' = {}
      BY <1>1, <1>3, <1>5 DEF K!Dead, K!Child
    <2>3. K!NoLostWakeup'
      BY <1>1, <1>7, <2>2 DEF SwitchInv, Sleepers, K!NoLostWakeup
    <2> QED
      BY <1>1, <2>1, <2>3 DEF SwitchInv, Sleepers
  <1> QED
    BY <1>9, <1>10, <1>11, <1>12, <1>13, <1>14, <1>15, <1>16 DEF SwitchInv, Control

\* Both ends of copyuvm.
LEMMA CopyuvmInv ==
  ASSUME K!ConstantsAssumption, SwitchInv, NEW c \in Cpu, K!copyuvm(c)
  PROVE  SwitchInv'
  BY CopyuvmFails, CopyuvmWorks DEF K!copyuvm

\* wait() comes to its loop with ptable.lock, from acquire or from sleep.
LEMMA WaitControl ==
  ASSUME K!ConstantsAssumption, SwitchInv, NEW c \in Cpu,
         K!Enters(c, "wait") \/ (K!At(c) = "waitScan" /\ UNCHANGED <<K!locks, K!cpuVars>>),
         NEW place \in {"done", "waitSwtch"}, K!GoTo(c, place), saved' = saved, SwitchTableTypes'
  PROVE  /\ Control' /\ proc' = proc /\ MayGo(c, place)
         /\ ~Trapped(c) /\ proc[c] # None /\ K!At(c) \in {"wait", "waitScan"}
         /\ owner["ptable"] = None \/ K!At(c) \in WithTable
         /\ proc[c] \in Proc /\ Runs(proc[c]) /\ procstate[proc[c]] = "RUNNING" /\ proc[c] \in stack
         /\ place \notin SwitchForking \union Leaving /\ K!At(c) \notin SwitchForking
  <1>1. K!At(c) \in {"wait", "waitScan"} /\ proc' = proc
    BY DEF K!Enters, K!cpuVars
  <1>2. ~Trapped(c) /\ proc[c] # None
    BY <1>1, WhereCall DEF SwitchInv, Control, CallPlaces
  <1>3. MayGo(c, place)
    BY <1>2 DEF MayGo, CallPlaces
  <1>4. proc[c] \in Proc /\ Runs(proc[c]) /\ procstate[proc[c]] = "RUNNING" /\ proc[c] \in stack
    BY <1>1, <1>2, Who DEF SwitchInv, Control, States, StateAt
  <1>5. CASE K!Enters(c, "wait")
    <2>1. K!Wants["wait"] = "ptable"
      BY WantsAt DEF Spins
    <2>2. Control' /\ owner["ptable"] = None
      BY <1>3, <1>5, <2>1, EnterControl DEF WithTable, WithTicks
    <2> QED
      BY <1>1, <1>2, <1>3, <1>4, <2>2 DEF SwitchForking
  <1>6. CASE K!At(c) = "waitScan" /\ UNCHANGED <<K!locks, K!cpuVars>>
    <2>1. c \notin spinning
      BY <1>6 DEF SwitchInv, Control, Flags, FlagsOf, Spins
    <2>2. Locked' /\ Flags'
      BY <1>2, <1>3, <1>6, <2>1, PlainStep DEF SwitchInv, WithTable, WithTicks
    <2>3. /\ pc' \in [Proc \union Cpu -> CallPlaces \union LoopPlaces]
          /\ trap' \in [Proc \union Cpu -> TrapPlaces]
          /\ Threads'
      BY <1>1, <1>3, Moves DEF SwitchInv, Control
    <2>4. SwitchTypes'
      BY <1>6, <2>3 DEF SwitchInv, Control, SwitchTypes, SwitchTableTypes, K!locks, K!cpuVars
    <2> QED
      BY <1>1, <1>2, <1>3, <1>4, <1>6, <2>2, <2>3, <2>4 DEF Control, WithTable, SwitchForking
  <1> QED
    BY <1>5, <1>6

\* A dead child is reaped; it has left its processor.
LEMMA ReapInv ==
  ASSUME K!ConstantsAssumption, SwitchInv, NEW c \in Cpu,
         K!Enters(c, "wait") \/ (K!At(c) = "waitScan" /\ UNCHANGED <<K!locks, K!cpuVars>>),
         NEW q \in K!Dead(proc[c]),
         stack' = stack \ {q}, parent' = [parent EXCEPT ![q] = None],
         killed' = killed \ {q}, procstate' = [procstate EXCEPT ![q] = "UNUSED"],
         K!GoTo(c, "done"), UNCHANGED <<chan, saved, np, early>>
  PROVE  SwitchInv'
  <1> DEFINE me == proc[c]
  <1>1. q \in Proc /\ procstate[q] = "ZOMBIE" /\ q # InitProc
    BY DEF K!Dead, K!Child, SwitchInv, Family
  <1>2. /\ \A p \in Proc : procstate'[p] = IF p = q THEN "UNUSED" ELSE procstate[p]
        /\ \A p \in Proc : parent'[p] = IF p = q THEN None ELSE parent[p]
        /\ SwitchTableTypes'
    <2>1. /\ procstate' \in [Proc -> {"UNUSED", "EMBRYO", "SLEEPING", "RUNNABLE", "RUNNING", "ZOMBIE"}]
          /\ parent' \in [Proc -> Proc \union {None}]
      BY <1>1, TableTyped DEF SwitchTableTypes
    <2> QED
      BY <1>1, <2>1, TableTyped DEF SwitchTableTypes
  <1>3. /\ Control' /\ proc' = proc /\ MayGo(c, "done")
        /\ ~Trapped(c) /\ me # None /\ K!At(c) \in {"wait", "waitScan"}
        /\ owner["ptable"] = None \/ K!At(c) \in WithTable
        /\ me \in Proc /\ Runs(me) /\ procstate[me] = "RUNNING" /\ me \in stack
        /\ K!At(c) \notin SwitchForking
    BY <1>2, WaitControl
  <1>4. ~Runs(q) /\ q # me
    BY <1>1, <1>3, OthersRun
  <1>5. /\ K!At(c)' = "done" /\ pc'[me] = "done" /\ trap'[me] = "none"
        /\ \A d \in Cpu : d # c => K!At(d)' = K!At(d)
        /\ \A p \in Proc : p # me => pc'[p] = pc[p] /\ trap'[p] = trap[p]
    BY <1>3, MovesInv
  <1>6. States'
    <2>1. procstate'[me] = StateAt("done") /\ me \in stack'
      BY <1>2, <1>3, <1>4 DEF StateAt
    <2>2. \A p \in Proc : procstate[p] = "RUNNING" /\ p # me => procstate'[p] = "RUNNING" /\ (p \in stack => p \in stack')
      BY <1>1, <1>2
    <2>3. \A p \in Proc : procstate[p] # "RUNNING" /\ p # me /\ ~Runs(p) =>
             /\ procstate'[p] # "RUNNING"
             /\ procstate'[p] \in {"RUNNABLE", "SLEEPING"} => p \in stack'
             /\ procstate'[p] = "RUNNABLE" => Here(p) # "exitSwtch"
             /\ procstate'[p] = "SLEEPING" => Here(p) \in {"sleepSwtch", "waitSwtch"}
      BY <1>2 DEF SwitchInv, States
    <2> QED
      BY <1>3, <2>1, <2>2, <2>3, StatesStep
  <1>7. Embryos'
    <2>1. \A p \in Proc : procstate[p] = "EMBRYO" => procstate'[p] = "EMBRYO" /\ (p \in stack => p \in stack')
      BY <1>1, <1>2
    <2>2. \A p \in Proc : np[p] # None => procstate'[p] \notin Unborn
      BY <1>1, <1>2 DEF SwitchInv, Embryos
    <2> QED
      BY <1>3, <2>1, <2>2, EmbryosStep DEF SwitchForking
  <1>8. Family'
    BY <1>1, <1>2, <1>5, Constants DEF SwitchInv, Family
  <1>9. Sleepers'
    <2>1. \A p \in Proc : pc'[p] \in {"sleep", "letGo"} => p \in early
      BY <1>5 DEF SwitchInv, Sleepers
    <2>2. \A p \in Proc : K!Dead(p) = {} => K!Dead(p)' = {}
      BY <1>2 DEF K!Dead, K!Child
    <2>3. K!At(c) # "wakeup"
      BY <1>3
    <2>4. K!NoLostWakeup'
      BY <1>2, <1>5, <2>2, <2>3 DEF SwitchInv, Sleepers, K!NoLostWakeup
    <2> QED
      BY <1>2, <2>1, <2>4 DEF SwitchInv, Sleepers
  <1> QED
    BY <1>3, <1>6, <1>7, <1>8, <1>9 DEF SwitchInv

\* wait() reaps, gives up or sleeps, all under ptable.lock.
LEMMA WaitInv ==
  ASSUME K!ConstantsAssumption, SwitchInv, NEW c \in Cpu, K!wait(c)
  PROVE  SwitchInv'
  <1> DEFINE me == proc[c]
  <1>1. /\ K!Enters(c, "wait") \/ (K!At(c) = "waitScan" /\ UNCHANGED <<K!locks, K!cpuVars>>)
        /\ UNCHANGED <<saved, np, early>>
    BY DEF K!wait
  <1>2. ASSUME NEW q \in K!Dead(me),
               stack' = stack \ {q}, parent' = [parent EXCEPT ![q] = None],
               killed' = killed \ {q}, procstate' = [procstate EXCEPT ![q] = "UNUSED"],
               K!GoTo(c, "done"), chan' = chan
        PROVE  SwitchInv'
    BY <1>1, <1>2, ReapInv
  <1>3. CASE K!GoTo(c, "done") /\ UNCHANGED <<stack, parent, killed, procstate, chan>>
    <2>1. SwitchTableTypes'
      BY <1>1, <1>3, TableTyped DEF SwitchTableTypes
    <2>2. /\ Control' /\ proc' = proc /\ MayGo(c, "done")
          /\ K!At(c) \in {"wait", "waitScan"}
      BY <1>1, <1>3, <2>1, WaitControl
    <2>3. States' /\ Embryos' /\ Family' /\ Sleepers'
      BY <1>1, <1>3, <2>2, StillMove DEF StateAt, SwitchForking
    <2> QED
      BY <2>2, <2>3 DEF SwitchInv
  <1>4. CASE /\ K!Dead(me) = {} /\ me \notin killed
             /\ chan' = [chan EXCEPT ![me] = me] /\ procstate' = [procstate EXCEPT ![me] = "SLEEPING"]
             /\ K!GoTo(c, "waitSwtch") /\ UNCHANGED <<stack, parent, killed>>
    <2>1. me \in Proc
      BY <1>1, WhereCall DEF SwitchInv, Control, CallPlaces, SwitchTypes, K!Enters
    <2>2. /\ \A p \in Proc : procstate'[p] = IF p = me THEN "SLEEPING" ELSE procstate[p]
          /\ \A p \in Proc : chan'[p] = IF p = me THEN me ELSE chan[p]
          /\ SwitchTableTypes'
      <3>1. /\ procstate' \in [Proc -> {"UNUSED", "EMBRYO", "SLEEPING", "RUNNABLE", "RUNNING", "ZOMBIE"}]
            /\ chan' \in [Proc -> Proc \union {None, "ticks"}]
        BY <1>4, <2>1, TableTyped DEF SwitchTableTypes
      <3> QED
        BY <1>1, <1>4, <2>1, <3>1, TableTyped DEF SwitchTableTypes
    <2>3. /\ Control' /\ proc' = proc /\ MayGo(c, "waitSwtch")
          /\ ~Trapped(c) /\ me # None /\ K!At(c) \in {"wait", "waitScan"}
          /\ owner["ptable"] = None \/ K!At(c) \in WithTable
          /\ procstate[me] = "RUNNING"
          /\ "waitSwtch" \notin SwitchForking \union Leaving /\ K!At(c) \notin SwitchForking
      BY <1>1, <1>4, <2>2, WaitControl
    <2>4. States' /\ Embryos'
      BY <1>1, <1>4, <2>1, <2>2, <2>3, WakeStep DEF Wakes, StateAt
    <2>5. Family'
      BY <1>4, <2>2, <2>3, FamilyStep, Constants DEF SwitchInv, Family
    <2>6. /\ pc'[me] = "waitSwtch"
          /\ \A d \in Cpu : d # c => K!At(d)' = K!At(d)
          /\ \A p \in Proc : p # me => pc'[p] = pc[p]
      BY <1>4, <2>3, MovesInv
    <2>7. Sleepers'
      <3>1. \A p \in Proc : pc'[p] \in {"sleep", "letGo"} => p \in early
        BY <2>6 DEF SwitchInv, Sleepers
      <3>2. \A p \in Proc : K!Dead(p) = {} => K!Dead(p)' = {}
        BY <1>4, <2>2 DEF K!Dead, K!Child
      <3>3. me # "ticks"
        BY <2>1, Constants
      <3>4. K!NoLostWakeup'
        BY <1>1, <1>4, <2>2, <2>3, <2>6, <3>2, <3>3 DEF SwitchInv, Sleepers, K!NoLostWakeup
      <3> QED
        BY <1>1, <2>2, <3>1, <3>4 DEF SwitchInv, Sleepers
    <2> QED
      BY <2>3, <2>4, <2>5, <2>7 DEF SwitchInv
  <1> QED
    BY <1>2, <1>3, <1>4 DEF K!wait

\* exit() wakes the parent, and init when it inherits a dead child.
LEMMA ExitWakes ==
  ASSUME SwitchInv, NEW c \in Cpu, proc[c] \in Proc, K!exit(c)
  PROVE  /\ procstate' \in [Proc -> {"UNUSED", "EMBRYO", "SLEEPING", "RUNNABLE", "RUNNING", "ZOMBIE"}]
         /\ procstate'[proc[c]] = "ZOMBIE"
         /\ \A q \in Proc : q # proc[c] =>
                /\ procstate'[q] = procstate[q] \/ (procstate[q] = "SLEEPING" /\ procstate'[q] = "RUNNABLE")
                /\ procstate'[q] = "SLEEPING" =>
                       chan[q] # parent[proc[c]] /\ (K!Dead(proc[c]) # {} => chan[q] # InitProc)
  <1> DEFINE me == proc[c]
             woken == K!Woken(parent[me], procstate)
             both == IF K!Dead(me) = {} THEN woken ELSE K!Woken(InitProc, woken)
             S == {"UNUSED", "EMBRYO", "SLEEPING", "RUNNABLE", "RUNNING", "ZOMBIE"}
  <1>1. procstate' = [both EXCEPT ![me] = "ZOMBIE"]
    BY DEF K!exit
  <1>2. procstate \in [Proc -> S]
    BY TableTyped DEF SwitchTableTypes
  <1>3. /\ woken \in [Proc -> S]
        /\ \A q \in Proc : woken[q] = IF procstate[q] = "SLEEPING" /\ chan[q] = parent[me]
                                      THEN "RUNNABLE" ELSE procstate[q]
    BY <1>2 DEF K!Woken
  <1> HIDE DEF woken
  <1>4. /\ both \in [Proc -> S]
        /\ \A q \in Proc : both[q] = IF K!Dead(me) # {} /\ woken[q] = "SLEEPING" /\ chan[q] = InitProc
                                     THEN "RUNNABLE" ELSE woken[q]
    BY <1>3 DEF K!Woken
  <1> HIDE DEF both
  <1>5. /\ procstate' \in [Proc -> S] /\ procstate'[me] = "ZOMBIE"
        /\ \A q \in Proc : q # me => procstate'[q] = both[q]
    BY <1>1, <1>4
  <1>6. ASSUME NEW q \in Proc, q # me
        PROVE  /\ procstate'[q] = procstate[q] \/ (procstate[q] = "SLEEPING" /\ procstate'[q] = "RUNNABLE")
               /\ procstate'[q] = "SLEEPING" =>
                       chan[q] # parent[me] /\ (K!Dead(me) # {} => chan[q] # InitProc)
    BY <1>3, <1>4, <1>5, <1>6
  <1> QED
    BY <1>5, <1>6

\* exit(): orphans go to init, and whoever must know is woken.
LEMMA ExitInv ==
  ASSUME K!ConstantsAssumption, SwitchInv, NEW c \in Cpu, K!exit(c)
  PROVE  SwitchInv'
  <1> DEFINE me == proc[c]
  <1>1. /\ K!Enters(c, "exit") /\ K!GoTo(c, "exitSwtch") /\ saved' = saved /\ K!At(c) = "exit"
        /\ parent' = [q \in Proc |-> IF parent[q] = me THEN InitProc ELSE parent[q]]
        /\ UNCHANGED <<chan, killed, stack, np, early>>
    BY DEF K!exit, K!Enters
  <1>2. K!Wants["exit"] = "ptable" /\ me # None
    BY <1>1, WhereCall, WantsAt DEF SwitchInv, Control, Spins, CallPlaces
  <1>3. MayGo(c, "exitSwtch")
    BY <1>2 DEF MayGo, CallPlaces, TrapPlaces
  <1>4. /\ me \in Proc /\ Runs(me) /\ me \in stack /\ procstate[me] = "RUNNING"
        /\ K!At(c) = IF Trapped(c) THEN trap[me] ELSE pc[me]
    BY <1>1, <1>2, Who DEF SwitchInv, Control, States, StateAt
  <1>5. me # InitProc /\ np[me] = None
    BY <1>1, <1>4 DEF SwitchInv, Family, Embryos, SwitchForking
  <1>6. /\ procstate' \in [Proc -> {"UNUSED", "EMBRYO", "SLEEPING", "RUNNABLE", "RUNNING", "ZOMBIE"}]
        /\ procstate'[me] = "ZOMBIE"
        /\ \A q \in Proc : q # me =>
                /\ procstate'[q] = procstate[q] \/ (procstate[q] = "SLEEPING" /\ procstate'[q] = "RUNNABLE")
                /\ procstate'[q] = "SLEEPING" =>
                       chan[q] # parent[me] /\ (K!Dead(me) # {} => chan[q] # InitProc)
    BY <1>4, ExitWakes
  <1>7. SwitchTableTypes'
    <2>1. parent' \in [Proc -> Proc \union {None}]
      BY <1>1, Constants, TableTyped DEF SwitchTableTypes
    <2> QED
      BY <1>1, <1>6, <2>1, TableTyped DEF SwitchTableTypes
  <1>8. Control' /\ proc' = proc /\ owner["ptable"] = None
    BY <1>1, <1>2, <1>3, <1>7, EnterControl DEF WithTable, WithTicks
  <1>9. /\ \A d \in Cpu : d # c => K!At(d)' = K!At(d)
        /\ \A p \in Proc : p # me => pc'[p] = pc[p] /\ trap'[p] = trap[p]
        /\ pc'[me] \in {pc[me], "exitSwtch"}
    BY <1>1, <1>2, <1>3, <1>8, MovesInv
  <1>10. States'
    <2>1. procstate'[me] = StateAt("exitSwtch") /\ me \in stack'
      BY <1>1, <1>4, <1>6 DEF StateAt
    <2>2. \A p \in Proc : procstate[p] = "RUNNING" /\ p # me => procstate'[p] = "RUNNING" /\ (p \in stack => p \in stack')
      BY <1>1, <1>6
    <2>3. \A p \in Proc : procstate[p] # "RUNNING" /\ p # me /\ ~Runs(p) =>
             /\ procstate'[p] # "RUNNING"
             /\ procstate'[p] \in {"RUNNABLE", "SLEEPING"} => p \in stack'
             /\ procstate'[p] = "RUNNABLE" => Here(p) # "exitSwtch"
             /\ procstate'[p] = "SLEEPING" => Here(p) \in {"sleepSwtch", "waitSwtch"}
      BY <1>1, <1>6 DEF SwitchInv, States
    <2> QED
      BY <1>1, <1>3, <1>8, <2>1, <2>2, <2>3, StatesStep
  <1>11. Embryos'
    <2>1. \A p \in Proc : procstate[p] = "EMBRYO" => procstate'[p] = "EMBRYO" /\ (p \in stack => p \in stack')
      BY <1>1, <1>4, <1>6
    <2>2. \A p \in Proc : np[p] # None => procstate'[p] \notin Unborn
      BY <1>5, <1>6 DEF SwitchInv, Embryos
    <2>3. MayExit(c)
      BY <1>5 DEF MayExit
    <2> QED
      BY <1>1, <1>3, <1>8, <2>1, <2>2, <2>3, EmbryosStep DEF SwitchForking
  <1>12. \A q \in Proc : parent'[q] = IF parent[q] = me THEN InitProc ELSE parent[q]
    BY <1>1
  <1>13. Family'
    <2>1. parent[InitProc] = None /\ me # None /\ InitProc \in Proc
      BY <1>4, Constants DEF SwitchInv, Family
    <2>2. \A q \in Proc : parent'[q] # q
      BY <1>12, <2>1 DEF SwitchInv, Family
    <2> QED
      BY <1>1, <1>5, <1>6, <1>9, <1>12, <2>1, <2>2 DEF SwitchInv, Family
  <1>14. Sleepers'
    <2>1. \A p \in Proc : pc'[p] \in {"sleep", "letGo"} => p \in early
      BY <1>9 DEF SwitchInv, Sleepers
    <2>2. \A p \in Proc : procstate'[p] = "SLEEPING" => procstate[p] = "SLEEPING" /\ p # me
      BY <1>6
    <2>3. ASSUME NEW p \in Proc, procstate'[p] = "SLEEPING", chan[p] = p
          PROVE  K!Dead(p)' = {} /\ p \notin killed
      <3>1. K!Dead(p) = {} /\ p \notin killed /\ p # parent[me] /\ (K!Dead(me) # {} => p # InitProc)
        BY <1>6, <2>2, <2>3 DEF SwitchInv, Sleepers, K!NoLostWakeup
      <3>2. ASSUME NEW r \in Proc, parent'[r] = p, procstate'[r] = "ZOMBIE" PROVE FALSE
        <4>1. CASE r = me
          BY <1>12, <3>1, <3>2, <4>1 DEF SwitchInv, Family
        <4>2. CASE r # me /\ parent[r] = me
          <5>1. r \in K!Dead(me) /\ p = InitProc
            BY <1>6, <1>12, <3>2, <4>2 DEF K!Dead, K!Child
          <5> QED
            BY <3>1, <5>1
        <4>3. CASE r # me /\ parent[r] # me
          <5>1. r \in K!Dead(p)
            BY <1>6, <1>12, <3>2, <4>3 DEF K!Dead, K!Child
          <5> QED
            BY <3>1, <5>1
        <4> QED
          BY <4>1, <4>2, <4>3
      <3> QED
        BY <3>1, <3>2 DEF K!Dead, K!Child
    <2>4. ASSUME NEW p \in Proc, procstate'[p] = "SLEEPING", chan[p] = "ticks", p \notin early
          PROVE  \E d \in Cpu : K!At(d)' = "wakeup"
      BY <1>1, <1>9, <2>2, <2>4 DEF SwitchInv, Sleepers, K!NoLostWakeup
    <2> QED
      BY <1>1, <2>1, <2>2, <2>3, <2>4 DEF SwitchInv, Sleepers, K!NoLostWakeup
  <1> QED
    BY <1>8, <1>10, <1>11, <1>13, <1>14 DEF SwitchInv

-----------------------------------------------------------------------------
(* The theorems                                                               *)

\* The state main() leaves has the invariant.
LEMMA SwitchInvInit ==
  ASSUME K!ConstantsAssumption, K!Init
  PROVE  SwitchInv
  <1>1. \A c \in Cpu : c # None /\ K!Thread(c) = c /\ K!At(c) = "loop" /\ ~Trapped(c)
    BY Constants DEF K!Init, K!Thread, K!At, Trapped
  <1>2. \A p \in Proc : ~Runs(p) /\ Here(p) = "forkret" /\ pc[p] = "forkret" /\ trap[p] = "none"
    BY Constants DEF K!Init, Runs, Here
  <1>3. SwitchTypes
    BY Constants DEF K!Init, SwitchTypes, K!Lock, CallPlaces, LoopPlaces, TrapPlaces
  <1>4. Threads
    BY <1>2, Constants DEF K!Init, Threads, CallPlaces, LoopPlaces, LoopTraps
  <1>5. Locked
    BY <1>1 DEF K!Init, Locked, WithTable, WithTicks, K!Lock
  <1>6. Flags
    BY <1>1, <1>2 DEF K!Init, Flags, FlagsOf, ParkedFlags, SwitchBusy, WithTable, WithTicks
  <1>7. States
    BY <1>2 DEF K!Init, States
  <1>8. Embryos /\ Family
    BY <1>2, Constants DEF K!Init, Embryos, Family, SwitchForking
  <1>9. Sleepers
    BY <1>2 DEF K!Init, Sleepers, K!NoLostWakeup
  <1> QED
    BY <1>3, <1>4, <1>5, <1>6, <1>7, <1>8, <1>9 DEF SwitchInv, Control

\* Every step keeps it.
LEMMA SwitchInvStep ==
  ASSUME K!ConstantsAssumption, SwitchInv, [K!Next]_(K!vars)
  PROVE  SwitchInv'
  <1>1. CASE UNCHANGED K!vars
    BY <1>1 DEF K!vars, K!locks, K!cpuVars, K!threads, K!procVars, SwitchInv, Control, SwitchTypes, Threads, Locked, Flags,
                FlagsOf, ParkedFlags, States, Embryos, Family, Sleepers, K!NoLostWakeup, SwitchBusy, Trapped,
                Runs, Here, K!At, K!Thread, K!Dead, K!Child
  <1>2. ASSUME NEW c \in Cpu,
               K!acquire(c) \/ K!release(c) \/ K!sti(c) \/ K!scheduler(c) \/ K!RoundEnds(c) \/ K!sched(c)
               \/ \E p \in Proc : K!swtch(c, p)
        PROVE  SwitchInv'
    BY <1>2, AcquireInv, ReleaseInv, StiInv, EnterInv, RoundEndsInv, SchedInv, SwtchInv
  <1>3. ASSUME NEW c \in Cpu,
               K!syscall(c) \/ K!sysret(c) \/ K!sys_sleep(c) \/ K!sleep(c) \/ K!letGo(c) \/ K!wait(c) \/ K!exit(c)
               \/ K!allocproc(c) \/ K!copyuvm(c) \/ K!fork(c) \/ K!trapret(c) \/ K!kill(c)
        PROVE  SwitchInv'
    BY <1>3, SyscallInv, SysretInv, SysSleepInv, EnterInv, LetGoInv, WaitInv, ExitInv, AllocprocInv,
       CopyuvmInv, ForkInv, StiInv, KillInv
  <1>4. ASSUME NEW c \in Cpu,
               K!timer(c) \/ K!tick(c) \/ K!wakeup(c) \/ K!trapEnd(c) \/ K!yield(c) \/ K!iret(c)
        PROVE  SwitchInv'
    BY <1>4, TimerInv, TickInv, WakeupInv, TrapEndInv, YieldInv, IretInv
  <1> QED
    BY <1>1, <1>2, <1>3, <1>4 DEF K!Next

\* The invariant rules every panic out.
LEMMA InvNoPanic ==
  ASSUME K!ConstantsAssumption, SwitchInv
  PROVE  K!NoPanic
  <1> SUFFICES ASSUME NEW c \in Cpu
               PROVE  /\ c \in spinning => ~K!Holds(c, K!Wants[K!At(c)])
                      /\ K!At(c) \in DOMAIN K!Drops =>
                             K!Holds(c, K!Drops[K!At(c)].lock) /\ c \notin iflag /\ ncli[c] > 0
                      /\ proc[c] # None => proc[c] \in stack /\ K!At(c) # "zombie"
                      /\ proc[c] # None /\ K!At(c) \in DOMAIN K!Resumes =>
                             /\ K!Holds(c, "ptable") /\ ncli[c] = 1 /\ c \notin iflag
                             /\ procstate[proc[c]] # "RUNNING"
                      /\ K!At(c) = "scan" => \A p \in Proc : procstate[p] = "RUNNABLE" => p \in stack
    BY DEF K!NoPanic
  <1>1. FlagsOf(c) /\ (owner["ptable"] = c <=> K!At(c) \in WithTable) /\ (owner["ticks"] = c <=> K!At(c) \in WithTicks)
    BY DEF SwitchInv, Control, Flags, Locked
  <1>2. c \in spinning => ~K!Holds(c, K!Wants[K!At(c)])
    <2> SUFFICES ASSUME c \in spinning PROVE owner[K!Wants[K!At(c)]] # c
      BY DEF K!Holds
    <2>1. K!At(c) \in Spins
      BY <1>1 DEF FlagsOf
    <2>2. CASE K!At(c) \in {"sys_sleep", "sleepAgain", "tick"}
      BY <1>1, <2>1, <2>2, WantsAt DEF WithTicks
    <2>3. CASE K!At(c) \notin {"sys_sleep", "sleepAgain", "tick"}
      <3>1. K!Wants[K!At(c)] = "ptable" /\ K!At(c) \notin WithTable
        BY <2>1, <2>3, WantsAt DEF Spins, WithTable
      <3> QED
        BY <1>1, <3>1
    <2> QED
      BY <2>2, <2>3
  <1>3. K!At(c) \in DOMAIN K!Drops => K!Holds(c, K!Drops[K!At(c)].lock) /\ c \notin iflag /\ ncli[c] > 0
    <2> SUFFICES ASSUME K!At(c) \in DOMAIN K!Drops
                 PROVE  K!Holds(c, K!Drops[K!At(c)].lock) /\ c \notin iflag /\ ncli[c] > 0
      OBVIOUS
    <2>1. CASE K!At(c) \in {"sleepDone", "ticked"}
      <3>1. K!Drops[K!At(c)].lock = "ticks" /\ K!At(c) \in WithTicks
        BY <2>1, DropsAt DEF WithTicks
      <3> QED
        BY <1>1, <3>1 DEF K!Holds, FlagsOf, SwitchBusy
    <2>2. CASE K!At(c) \notin {"sleepDone", "ticked"}
      <3>1. K!Drops[K!At(c)].lock = "ptable" /\ K!At(c) \in WithTable
        BY <2>2, DropsAt DEF WithTable
      <3> QED
        BY <1>1, <3>1 DEF K!Holds, FlagsOf, SwitchBusy
    <2> QED
      BY <2>1, <2>2
  <1>4. proc[c] # None => proc[c] \in stack /\ K!At(c) # "zombie"
    BY Where DEF SwitchInv, Control, States, CallPlaces, TrapPlaces
  <1>5. proc[c] # None /\ K!At(c) \in DOMAIN K!Resumes =>
            /\ K!Holds(c, "ptable") /\ ncli[c] = 1 /\ c \notin iflag
            /\ procstate[proc[c]] # "RUNNING"
    <2> SUFFICES ASSUME proc[c] # None, K!At(c) \in Switching
                 PROVE  /\ K!Holds(c, "ptable") /\ ncli[c] = 1 /\ c \notin iflag
                        /\ procstate[proc[c]] # "RUNNING"
      BY ResumesAt
    <2>1. K!At(c) \in WithTable /\ K!At(c) \notin WithTicks /\ c \notin spinning
      BY <1>1 DEF Switching, WithTable, WithTicks, FlagsOf, Spins
    <2>2. StateAt(K!At(c)) # "RUNNING"
      BY DEF Switching, StateAt
    <2> QED
      BY <1>1, <2>1, <2>2 DEF K!Holds, FlagsOf, SwitchBusy, SwitchInv, States
  <1>6. K!At(c) = "scan" => \A p \in Proc : procstate[p] = "RUNNABLE" => p \in stack
    <2> SUFFICES ASSUME K!At(c) = "scan", NEW p \in Proc, procstate[p] = "RUNNABLE" PROVE p \in stack
      OBVIOUS
    <2>1. ~Runs(p)
      BY OthersRun, WhereCall, Constants DEF WithTable, LoopPlaces, SwitchInv, Control
    <2> QED
      BY <2>1 DEF SwitchInv, States
  <1> QED
    BY <1>2, <1>3, <1>4, <1>5, <1>6

\* How many locks a processor holds.
LEMMA Depth ==
  ASSUME NEW c \in Cpu
  PROVE  Cardinality({k \in K!Lock : K!Holds(c, k)})
             = (IF K!Holds(c, "ptable") THEN 1 ELSE 0) + (IF K!Holds(c, "ticks") THEN 1 ELSE 0)
  <1> DEFINE S == {k \in K!Lock : K!Holds(c, k)}
  <1>1. CASE ~K!Holds(c, "ptable") /\ ~K!Holds(c, "ticks")
    <2>1. S = {}
      BY <1>1 DEF K!Lock
    <2> QED
      BY <1>1, <2>1, FS_EmptySet
  <1>2. CASE K!Holds(c, "ptable") /\ ~K!Holds(c, "ticks")
    <2>1. S = {"ptable"}
      BY <1>2 DEF K!Lock
    <2>2. Cardinality({"ptable"}) = 1
      BY FS_Singleton
    <2> QED
      BY <1>2, <2>1, <2>2
  <1>3. CASE ~K!Holds(c, "ptable") /\ K!Holds(c, "ticks")
    <2>1. S = {"ticks"}
      BY <1>3 DEF K!Lock
    <2>2. Cardinality({"ticks"}) = 1
      BY FS_Singleton
    <2> QED
      BY <1>3, <2>1, <2>2
  <1>4. CASE K!Holds(c, "ptable") /\ K!Holds(c, "ticks")
    <2>1. S = {"ptable"} \union {"ticks"} /\ "ticks" \notin {"ptable"}
      BY <1>4 DEF K!Lock
    <2>2. IsFiniteSet({"ptable"}) /\ Cardinality({"ptable"}) = 1
      BY FS_Singleton
    <2>3. Cardinality(S) = 1 + 1
      BY <2>1, <2>2, FS_AddElement
    <2> QED
      BY <1>4, <2>3
  <1> QED
    BY <1>1, <1>2, <1>3, <1>4

\* It gives what pushcli and popcli promise.
LEMMA InvInterrupts ==
  ASSUME K!ConstantsAssumption, SwitchInv
  PROVE  K!InterruptsAsBefore
  <1> DEFINE depth(c) == Cardinality({k \in K!Lock : K!Holds(c, k)}) + IF c \in spinning THEN 1 ELSE 0
  <1>0. \A c \in Cpu : K!Cardinality({k \in K!Lock : K!Holds(c, k)}) = Cardinality({k \in K!Lock : K!Holds(c, k)})
    BY Zenon DEF Cardinality, K!Cardinality
  <1> SUFFICES ASSUME NEW c \in Cpu
               PROVE  /\ ncli[c] = depth(c)
                      /\ depth(c) > 0 \/ Trapped(c) => c \notin iflag
                      /\ depth(c) = 0 /\ ~Trapped(c) /\ K!At(c) \notin {"trapret", "loop"} => c \in iflag
    BY <1>0 DEF K!InterruptsAsBefore, Trapped
  <1>1. FlagsOf(c) /\ (owner["ptable"] = c <=> K!At(c) \in WithTable) /\ (owner["ticks"] = c <=> K!At(c) \in WithTicks)
    BY DEF SwitchInv, Control, Flags, Locked
  <1>2. depth(c) = (IF K!At(c) \in WithTable THEN 1 ELSE 0) + (IF K!At(c) \in WithTicks THEN 1 ELSE 0)
                   + (IF c \in spinning THEN 1 ELSE 0)
    BY <1>1, Depth DEF K!Holds
  <1> HIDE DEF depth
  <1>3. ncli[c] = depth(c)
    BY <1>1, <1>2 DEF FlagsOf
  <1>4. depth(c) > 0 <=> SwitchBusy(c)
    BY <1>2 DEF SwitchBusy
  <1>5. depth(c) = 0 <=> ~SwitchBusy(c)
    BY <1>2 DEF SwitchBusy
  <1> QED
    BY <1>1, <1>3, <1>4, <1>5 DEF FlagsOf

(* The invariant of the whole kernel state holds always: with it, the place   *)
(* of every process and scheduler says which locks it holds, what its flag    *)
(* was, in what state its process is and who may wake it.                     *)
THEOREM SwitchInvAlways ==
  ASSUME K!ConstantsAssumption PROVE K!Spec => []SwitchInv
  <1>1. K!Init => SwitchInv
    BY SwitchInvInit
  <1>2. SwitchInv /\ [K!Next]_(K!vars) => SwitchInv'
    BY SwitchInvStep
  <1> QED
    BY <1>1, <1>2, PTL DEF K!Spec

(* No panic of spinlock.c, of sched (proc.c:344-351) or of switchuvm happens, *)
(* nobody runs on a stack that was given back, and no dead process comes back *)
(* - on any number of processors.                                             *)
THEOREM KernelDoesNotPanic ==
  ASSUME K!ConstantsAssumption PROVE K!Spec => []NoPanic
  <1>1. SwitchInv => NoPanic
    BY InvNoPanic DEF NoPanic
  <1> QED
    BY <1>1, SwitchInvAlways, PTL

(* pushcli and popcli match, whatever processor a process comes back on: off  *)
(* where a lock is held, on again where none is (spinlock.c:99-122, and the   *)
(* intena that sched saves, proc.c:361).                                      *)
THEOREM InterruptsRestored ==
  ASSUME K!ConstantsAssumption PROVE K!Spec => []InterruptsAsBefore
  <1>1. SwitchInv => InterruptsAsBefore
    BY InvInterrupts DEF InterruptsAsBefore
  <1> QED
    BY <1>1, SwitchInvAlways, PTL

(* sleep and wakeup lose nothing: a process that sleeps on ticks either has   *)
(* ticks to wait for or its wakeup is under way, and one that sleeps in wait  *)
(* has no dead child and is not killed.                                       *)
THEOREM NoWakeupLost ==
  ASSUME K!ConstantsAssumption PROVE K!Spec => []NoLostWakeup
  <1>1. SwitchInv => NoLostWakeup
    BY DEF SwitchInv, Sleepers, NoLostWakeup, K!NoLostWakeup
  <1> QED
    BY <1>1, SwitchInvAlways, PTL
================================================================================
