-------------------------- MODULE SharedPagesProof --------------------------
(* Theorems about SharedPages for any number of slots, pages and processors.  *)
EXTENDS SharedPages, FiniteSetTheorems, TLAPS

-----------------------------------------------------------------------------
(* Type correctness.                                                          *)

LEMMA Constants ==
  /\ initproc \in Proc /\ PageZero \notin Page /\ None \notin Proc /\ None \notin PageDirectory
  BY ConstantsAssumption DEF ConstantsAssumption, PageDirectory, Mapped

\* What the operators on directories return.
LEMMA DirectoryType ==
  ASSUME NEW d \in PageDirectory, NEW pages \in SUBSET Mapped, NEW write0 \in SUBSET {PageZero}
  PROVE  /\ ReadOnly(d, pages) \in PageDirectory
         /\ ReadWrite(d, pages) \in PageDirectory
         /\ KernelOnly(d, pages) \in PageDirectory
         /\ NewDirectory(write0) \in PageDirectory
         /\ [d EXCEPT !.user = @ \ pages] \in PageDirectory
  BY DEF PageDirectory, Mapped, ReadOnly, ReadWrite, KernelOnly, NewDirectory

LEMMA PagesType ==
  ASSUME TypeOK, NEW Q \in SUBSET Proc
  PROVE  PagesOf(Q) \in SUBSET Mapped
  BY DEF PagesOf, TypeOK

LEMMA TypeInit == Init => TypeOK
  <1> SUFFICES ASSUME NEW g \in Page,
                      state = [p \in Proc |-> IF p = initproc THEN "RUNNABLE" ELSE "UNUSED"],
                      parent = [p \in Proc |-> None],
                      pgdir = [p \in Proc |-> IF p = initproc
                                   THEN ReadWrite(NewDirectory({PageZero}), {g}) ELSE None],
                      sharep = [p \in Proc |-> IF p = initproc THEN g ELSE PageZero],
                      child = [p \in Proc |-> None],
                      call = [p \in Proc |-> "user"],
                      tlb = [p \in Proc |-> {}],
                      astray = FALSE
               PROVE  TypeOK
    BY DEF Init
  <1>1. NewDirectory({PageZero}) \in PageDirectory
    BY DEF NewDirectory, PageDirectory, Mapped
  <1>2. ReadWrite(NewDirectory({PageZero}), {g}) \in PageDirectory
    BY <1>1, DirectoryType DEF Mapped
  <1> QED
    BY <1>2 DEF TypeOK, Mapped

\* fork and exit rewrite directories only if all of them are there.
LEMMA UpdatesType ==
  ASSUME TypeOK, NEW p \in Proc, pgdir[p] # None, ~Astray(p)
  PROVE  /\ ForkUpdates(p) \in [Proc -> PageDirectory \union {None}]
         /\ ExitUpdates(p) \in [Proc -> PageDirectory \union {None}]
  <1>1. \A q \in Others(p) \union {p} : pgdir[q] \in PageDirectory
    BY DEF Astray, Others, TypeOK
  <1>2. PagesOf(Others(p)) \in SUBSET Mapped /\ {sharep[p]} \in SUBSET Mapped
    BY PagesType DEF Others, TypeOK
  <1>3. \A q \in Proc : /\ ForkUpdates(p)[q] \in PageDirectory \union {None}
                        /\ ExitUpdates(p)[q] \in PageDirectory \union {None}
    BY <1>1, <1>2, DirectoryType DEF ForkUpdates, ExitUpdates, Others, TypeOK
  <1> QED
    BY <1>3 DEF ForkUpdates, ExitUpdates

LEMMA TypeStep == TypeOK /\ Ownership /\ [Next]_vars => TypeOK'
  <1> SUFFICES ASSUME TypeOK, Ownership, [Next]_vars PROVE TypeOK'
    OBVIOUS
  <1> USE Constants
  <1>1. ASSUME NEW p \in Proc, scheduler(p) \/ sched(p) \/ MakesharepFails(p) \/ ForkFails(p)
        PROVE  TypeOK'
    BY <1>1 DEF scheduler, sched, MakesharepFails, ForkFails, Running, TypeOK
  <1>2. ASSUME NEW p \in Proc, NEW g \in Page, Touch(p, g) PROVE TypeOK'
    BY <1>2 DEF Touch, Running, TypeOK
  <1>3. ASSUME NEW p \in Proc, NEW g \in Page, makesharep(p, g) PROVE TypeOK'
    <2>1. child[p] \in Proc /\ pgdir[child[p]] \in PageDirectory
      BY <1>3 DEF makesharep, Running, Ownership, TypeOK
    <2>2. ReadWrite(pgdir[child[p]], {g}) \in PageDirectory
      BY <2>1, DirectoryType DEF Mapped
    <2> QED
      BY <1>3, <2>1, <2>2 DEF makesharep, Running, TypeOK, Mapped
  <1>4. ASSUME NEW p \in Proc, NEW q \in Proc, allocproc(p, q) \/ wait(p, q) PROVE TypeOK'
    BY <1>4 DEF allocproc, wait, Running, TypeOK, Mapped
  <1>5. ASSUME NEW p \in Proc, copyuvm(p) PROVE TypeOK'
    <2>1. NewDirectory(pgdir[p].write \intersect {PageZero}) \in PageDirectory
      BY DEF NewDirectory, PageDirectory, Mapped
    <2> QED
      BY <1>5, <2>1 DEF copyuvm, Running, TypeOK
  <1>6. ASSUME NEW p \in Proc, fork(p) PROVE TypeOK'
    <2>1. child[p] \in Proc /\ pgdir[child[p]] # None
      BY <1>6 DEF fork, Running, Ownership, TypeOK
    <2>2. pgdir' \in [Proc -> PageDirectory \union {None}]
      BY <1>6, <2>1, UpdatesType DEF fork, TypeOK
    <2>3. astray' \in BOOLEAN
      BY <1>6 DEF fork, Astray
    <2> QED
      BY <1>6, <2>1, <2>2, <2>3 DEF fork, Running, TypeOK
  <1>7. ASSUME NEW p \in Proc, exit(p) PROVE TypeOK'
    <2>1. pgdir[p] # None
      BY <1>7 DEF exit, Running, Ownership, Live
    <2>2. pgdir' \in [Proc -> PageDirectory \union {None}]
      BY <1>7, <2>1, UpdatesType DEF exit, TypeOK
    <2>3. astray' \in BOOLEAN
      BY <1>7 DEF exit, Astray
    <2> QED
      BY <1>7, <2>2, <2>3 DEF exit, Running, TypeOK, Mapped
  <1>8. ASSUME NEW p \in Proc, exec(p) PROVE TypeOK'
    <2>1. NewDirectory({PageZero}) \in PageDirectory
      BY DEF NewDirectory, PageDirectory, Mapped
    <2>2. {sharep[p]} \in SUBSET Mapped
      BY DEF TypeOK
    <2>3. ReadWrite(NewDirectory({PageZero}), {sharep[p]}) \in PageDirectory
      BY <2>1, <2>2, DirectoryType
    <2> QED
      BY <1>8, <2>3 DEF exec, Running, TypeOK
  <1>9. ASSUME NEW p \in Proc, update_exec_sp(p) PROVE TypeOK'
    <2>1. pgdir[p] \in PageDirectory
      BY <1>9 DEF update_exec_sp, Running, Ownership, Live, TypeOK
    <2>2. ReadWrite(pgdir[p], PagesOf(Others(p))) \in PageDirectory
      BY <2>1, DirectoryType, PagesType DEF Others
    <2> QED
      BY <1>9, <2>2 DEF update_exec_sp, Running, TypeOK
  <1>10. CASE UNCHANGED vars
    BY <1>10 DEF vars, TypeOK
  <1> QED
    BY <1>1, <1>2, <1>3, <1>4, <1>5, <1>6, <1>7, <1>8, <1>9, <1>10 DEF Next, Step
-----------------------------------------------------------------------------
(* Who owns which slot and which page.                                        *)

LEMMA OwnershipInit == Init => Ownership
  <1> SUFFICES ASSUME NEW g \in Page,
                      state = [p \in Proc |-> IF p = initproc THEN "RUNNABLE" ELSE "UNUSED"],
                      pgdir = [p \in Proc |-> IF p = initproc
                                   THEN ReadWrite(NewDirectory({PageZero}), {g}) ELSE None],
                      sharep = [p \in Proc |-> IF p = initproc THEN g ELSE PageZero],
                      child = [p \in Proc |-> None],
                      call = [p \in Proc |-> "user"]
               PROVE  Ownership
    BY DEF Init
  <1>1. ReadWrite(NewDirectory({PageZero}), {g}) # None
    BY Constants DEF ReadWrite, NewDirectory, PageDirectory, Mapped
  <1> QED
    BY <1>1, Constants DEF Ownership, Live, InUse

\* No update of a directory makes one, or unmakes one.
LEMMA UpdatesKeep ==
  ASSUME TypeOK, NEW p \in Proc, pgdir[p] # None, ~Astray(p), NEW q \in Proc
  PROVE  /\ ForkUpdates(p)[q] = None <=> pgdir[q] = None
         /\ ExitUpdates(p)[q] = None <=> pgdir[q] = None
  <1>1. \A r \in Others(p) \union {p} : pgdir[r] \in PageDirectory
    BY DEF Astray, Others, TypeOK
  <1>2. PagesOf(Others(p)) \in SUBSET Mapped /\ {sharep[p]} \in SUBSET Mapped
    BY PagesType DEF Others, TypeOK
  <1>3. \A r \in Others(p) \union {p} : /\ ForkUpdates(p)[r] \in PageDirectory
                                       /\ ExitUpdates(p)[r] \in PageDirectory
    BY <1>1, <1>2, DirectoryType DEF ForkUpdates, ExitUpdates, Others
  <1> QED
    BY <1>1, <1>3, Constants DEF ForkUpdates, ExitUpdates

LEMMA OwnershipStep == TypeOK /\ Ownership /\ [Next]_vars => Ownership'
  <1> SUFFICES ASSUME TypeOK, Ownership, [Next]_vars PROVE Ownership'
    OBVIOUS
  <1> USE Constants DEF Live, InUse
  <1>1. ASSUME NEW p \in Proc, scheduler(p) \/ sched(p) PROVE Ownership'
    BY <1>1 DEF scheduler, sched, TypeOK, Ownership
  <1>2. ASSUME NEW p \in Proc, NEW g \in Page, Touch(p, g) PROVE Ownership'
    BY <1>2 DEF Touch, TypeOK, Ownership
  <1>3. ASSUME NEW p \in Proc, NEW q \in Proc, allocproc(p, q) PROVE Ownership'
    BY <1>3 DEF allocproc, Running, TypeOK, Ownership
  <1>4. ASSUME NEW p \in Proc, ForkFails(p) PROVE Ownership'
    BY <1>4 DEF ForkFails, Running, TypeOK, Ownership
  <1>5. ASSUME NEW p \in Proc, copyuvm(p) PROVE Ownership'
    <2>1. NewDirectory(pgdir[p].write \intersect {PageZero}) # None
      BY DEF NewDirectory, PageDirectory, Mapped
    <2> QED
      BY <1>5, <2>1 DEF copyuvm, Running, TypeOK, Ownership
  <1>6. ASSUME NEW p \in Proc, NEW g \in Page, makesharep(p, g) PROVE Ownership'
    <2>1. child[p] \in Proc /\ pgdir[child[p]] \in PageDirectory
      BY <1>6 DEF makesharep, Running, Ownership, TypeOK
    <2>2. ReadWrite(pgdir[child[p]], {g}) # None
      BY <2>1, DirectoryType DEF Mapped
    <2>3. \A q \in Proc : sharep[q] # g
      BY <1>6 DEF makesharep, PagesOf
    <2>4. \A q \in Proc : pgdir'[q] = None <=> pgdir[q] = None
      BY <1>6, <2>1, <2>2 DEF makesharep, TypeOK
    <2>5. /\ sharep' = [sharep EXCEPT ![child[p]] = g] /\ call' = [call EXCEPT ![p] = "fork"]
          /\ state' = state /\ child' = child /\ call[p] = "makesharep" /\ child[p] # None
      BY <1>6 DEF makesharep, Running, TypeOK
    <2>6. state[child[p]] = "EMBRYO" /\ Live(p) /\ pgdir[child[p]] # None
      BY <2>1, <2>5 DEF Ownership
    <2>7. \A q \in Proc : child[q] # None =>
              /\ call'[q] = "copyuvm" <=> pgdir'[child[q]] = None
              /\ call'[q] = "fork" <=> sharep'[child[q]] # PageZero
      BY <2>1, <2>4, <2>5, <2>6 DEF Ownership, TypeOK
    <2>8. \A q, r \in Proc : sharep'[q] # PageZero /\ sharep'[q] = sharep'[r] => q = r
      BY <2>1, <2>3, <2>5 DEF Ownership, TypeOK
    <2>9. \A q \in Proc : sharep'[q] # PageZero => InUse(q)' /\ pgdir'[q] # None
      BY <2>1, <2>4, <2>5, <2>6 DEF Ownership, TypeOK
    <2> QED
      BY <2>1, <2>4, <2>5, <2>6, <2>7, <2>8, <2>9 DEF Ownership, TypeOK
  <1>7. ASSUME NEW p \in Proc, MakesharepFails(p) PROVE Ownership'
    BY <1>7 DEF MakesharepFails, Running, TypeOK, Ownership
  <1>8. ASSUME NEW p \in Proc, fork(p) PROVE Ownership'
    <2>1. child[p] \in Proc /\ pgdir[child[p]] # None
      BY <1>8 DEF fork, Running, Ownership, TypeOK
    <2>2. \A q \in Proc : pgdir'[q] = None <=> pgdir[q] = None
      BY <1>8, <2>1, UpdatesKeep DEF fork
    <2> QED
      BY <1>8, <2>1, <2>2 DEF fork, Running, TypeOK, Ownership
  <1>9. ASSUME NEW p \in Proc, exit(p) PROVE Ownership'
    <2>1. \A q \in Proc : pgdir'[q] = None <=> pgdir[q] = None
      BY <1>9, UpdatesKeep DEF exit, Running, Ownership
    <2> QED
      BY <1>9, <2>1 DEF exit, Running, TypeOK, Ownership
  <1>10. ASSUME NEW p \in Proc, NEW q \in Proc, wait(p, q) PROVE Ownership'
    BY <1>10 DEF wait, Running, TypeOK, Ownership
  <1>11. ASSUME NEW p \in Proc, exec(p) \/ update_exec_sp(p) PROVE Ownership'
    <2>1. pgdir'[p] \in PageDirectory
      <3>1. {sharep[p]} \in SUBSET Mapped /\ PagesOf(Others(p)) \in SUBSET Mapped
        BY PagesType DEF Others, TypeOK
      <3>2. pgdir[p] \in PageDirectory
        BY <1>11 DEF exec, update_exec_sp, Running, Ownership, TypeOK
      <3>3. NewDirectory({PageZero}) \in PageDirectory
        BY DEF NewDirectory, PageDirectory, Mapped
      <3>4. /\ ReadWrite(NewDirectory({PageZero}), {sharep[p]}) \in PageDirectory
            /\ ReadWrite(pgdir[p], PagesOf(Others(p))) \in PageDirectory
        BY <3>1, <3>2, <3>3, DirectoryType
      <3> QED
        BY <1>11, <3>4 DEF exec, update_exec_sp, TypeOK
    <2>2. \A q \in Proc \ {p} : pgdir'[q] = pgdir[q]
      BY <1>11 DEF exec, update_exec_sp, TypeOK
    <2> QED
      BY <1>11, <2>1, <2>2 DEF exec, update_exec_sp, Running, TypeOK, Ownership
  <1>12. CASE UNCHANGED vars
    BY <1>12 DEF vars, Ownership
  <1> QED
    BY <1>1, <1>2, <1>3, <1>4, <1>5, <1>6, <1>7, <1>8, <1>9, <1>10, <1>11, <1>12 DEF Next, Step

(* The variables stay in their ranges, and slots and pages have one owner.     *)
LEMMA OwnershipInvariant == Spec => [](TypeOK /\ Ownership)
  BY TypeInit, TypeStep, OwnershipInit, OwnershipStep, PTL DEF Spec

-----------------------------------------------------------------------------
(* Who may read and write which page.                                         *)

Permissions ==
    FreePagesClosed /\ FreePagesWritable /\ EveryoneReadsEveryone /\ OwnerWrites

LEMMA PermissionsInit == Init => Permissions
  <1> SUFFICES ASSUME NEW g \in Page,
                      state = [p \in Proc |-> IF p = initproc THEN "RUNNABLE" ELSE "UNUSED"],
                      pgdir = [p \in Proc |-> IF p = initproc
                                   THEN ReadWrite(NewDirectory({PageZero}), {g}) ELSE None],
                      sharep = [p \in Proc |-> IF p = initproc THEN g ELSE PageZero]
               PROVE  Permissions
    BY DEF Init
  <1> USE Constants
  <1>1. /\ pgdir[initproc].user = {PageZero, g} /\ Page \subseteq pgdir[initproc].write
        /\ g \in pgdir[initproc].write
    BY DEF ReadWrite, NewDirectory
  <1>2. g \in InUsePages
    BY DEF InUsePages, PagesOf
  <1>3. \A q \in Proc : InUse(q) \/ Live(q) \/ sharep[q] # PageZero => q = initproc /\ sharep[q] = g
    BY DEF InUse, Live
  <1> QED
    BY <1>1, <1>2, <1>3
    DEF Permissions, FreePagesClosed, FreePagesWritable, EveryoneReadsEveryone, OwnerWrites,
        HasDirectory, MayWrite

\* Steps that change no directory and no shared page.
LEMMA PermissionsQuiet ==
  ASSUME Permissions, sharep' = sharep, pgdir' = pgdir, astray' = astray,
         \A q \in Proc : InUse(q)' /\ pgdir[q] # None => InUse(q),
         \A q \in Proc : Live(q)' => Live(q),
         \A q \in Proc : call[q] = "exec" => call'[q] = "exec"
  PROVE  Permissions'
  <1>1. InUsePages' = InUsePages
    BY DEF InUsePages, PagesOf
  <1> QED
    BY <1>1 DEF Permissions, FreePagesClosed, FreePagesWritable, EveryoneReadsEveryone,
        OwnerWrites, HasDirectory, MayWrite

LEMMA PermissionsCopyuvm ==
  ASSUME TypeOK, Ownership, Permissions, ~astray, NEW p \in Proc, copyuvm(p)
  PROVE  Permissions'
  <1> DEFINE np == child[p]
  <1> USE Constants
  <1>1. /\ np \in Proc /\ state[np] = "EMBRYO" /\ sharep[np] = PageZero
        /\ sharep' = sharep /\ state' = state /\ astray' = astray
        /\ \A q \in Proc \ {np} : pgdir'[q] = pgdir[q]
        /\ pgdir'[np] = NewDirectory(pgdir[p].write \intersect {PageZero})
        /\ \A q \in Proc : call'[q] = "exec" <=> call[q] = "exec"
    BY DEF copyuvm, Running, Ownership, TypeOK
  <1> HIDE DEF np
  <1>2. pgdir'[np].user = {PageZero} /\ Page \subseteq pgdir'[np].write
    BY <1>1 DEF NewDirectory
  <1>3. InUsePages' = InUsePages
    BY <1>1 DEF InUsePages, PagesOf
  <1>4. \A q \in Proc : Live(q) \/ sharep[q] # PageZero => q # np
    BY <1>1 DEF Live
  <1> QED
    BY <1>1, <1>2, <1>3, <1>4 DEF Permissions, FreePagesClosed, FreePagesWritable,
        EveryoneReadsEveryone, OwnerWrites, HasDirectory, MayWrite, InUse, Live

LEMMA PermissionsMakesharep ==
  ASSUME TypeOK, Ownership, Permissions, ~astray, NEW p \in Proc, NEW g \in Page, makesharep(p, g)
  PROVE  Permissions'
  <1> DEFINE np == child[p]
  <1> USE Constants
  <1>1. /\ np \in Proc /\ state[np] = "EMBRYO" /\ sharep[np] = PageZero /\ pgdir[np] # None
        /\ state' = state /\ astray' = astray
        /\ \A q \in Proc \ {np} : pgdir'[q] = pgdir[q] /\ sharep'[q] = sharep[q]
        /\ sharep'[np] = g /\ pgdir'[np] = ReadWrite(pgdir[np], {g})
        /\ \A q \in Proc : call'[q] = "exec" <=> call[q] = "exec"
    BY DEF makesharep, Running, Ownership, TypeOK
  <1> HIDE DEF np
  <1>2. /\ pgdir'[np].user = pgdir[np].user \union {g}
        /\ pgdir'[np].write = pgdir[np].write \union {g}
    BY <1>1 DEF ReadWrite
  <1>3. InUsePages' = InUsePages \union {g}
    BY <1>1 DEF InUsePages, PagesOf
  <1>4. \A q \in Proc : Live(q) => q # np
    BY <1>1 DEF Live
  <1>5. FreePagesClosed' /\ FreePagesWritable'
    BY <1>1, <1>2, <1>3 DEF Permissions, FreePagesClosed, FreePagesWritable, HasDirectory, InUse
  <1>6. EveryoneReadsEveryone'
    BY <1>1, <1>4 DEF Permissions, EveryoneReadsEveryone, Live
  <1>7. OwnerWrites'
    BY <1>1, <1>2 DEF Permissions, OwnerWrites, MayWrite
  <1> QED
    BY <1>5, <1>6, <1>7 DEF Permissions

LEMMA PermissionsFork ==
  ASSUME TypeOK, Ownership, Permissions, ~astray, NEW p \in Proc, fork(p), ~Astray(child[p])
  PROVE  Permissions'
  <1> DEFINE np == child[p]
  <1> USE Constants
  <1>1. /\ np \in Proc /\ state[np] = "EMBRYO" /\ pgdir[np] # None /\ sharep[np] # PageZero
        /\ sharep' = sharep /\ state' = [state EXCEPT ![np] = "RUNNABLE"]
        /\ pgdir' = ForkUpdates(np)
        /\ \A q \in Proc : call'[q] = "exec" <=> call[q] = "exec"
        /\ \A q \in Proc : call[q] = "exec" => q # np
    BY DEF fork, Running, Ownership, Live, TypeOK
  <1>2. \A q \in Others(np) : pgdir[q] # None
    BY DEF Astray
  <1> HIDE DEF np
  <1>3. /\ pgdir'[np].user = pgdir[np].user \union PagesOf(Others(np))
        /\ pgdir'[np].write = pgdir[np].write \ PagesOf(Others(np))
    BY <1>1 DEF ForkUpdates, ReadOnly, Others
  <1>4. \A q \in Others(np) :
          /\ pgdir'[q].user = pgdir[q].user \union {sharep[np]}
          /\ pgdir'[q].write = pgdir[q].write \ {sharep[np]}
    BY <1>1 DEF ForkUpdates, ReadOnly, Others
  <1>5. InUsePages' = InUsePages
    BY <1>1 DEF InUsePages, PagesOf
  <1>6. \A q \in Proc : InUse(q)' => (q = np \/ q \in Others(np)) /\ InUse(q) /\ pgdir[q] # None
    BY <1>1, <1>2 DEF InUse, Others, TypeOK
  <1>7. \A q \in Proc : Live(q)' => q = np \/ (q \in Others(np) /\ Live(q))
    BY <1>1 DEF Live, InUse, Others, TypeOK
  <1>8. \A q \in Others(np) : sharep[q] \in PagesOf(Others(np)) /\ q \in Proc
    BY DEF PagesOf, Others
  <1>9. sharep[np] \in InUsePages /\ PagesOf(Others(np)) \subseteq InUsePages \union {PageZero}
    BY <1>1 DEF PagesOf, InUsePages, Others
  <1>10. FreePagesClosed'
    BY <1>1, <1>3, <1>4, <1>5, <1>6, <1>9 DEF Permissions, FreePagesClosed, HasDirectory
  <1>11. FreePagesWritable'
    BY <1>1, <1>3, <1>4, <1>5, <1>6, <1>9 DEF Permissions, FreePagesWritable, HasDirectory
  <1>12. EveryoneReadsEveryone'
    <2>1. sharep[np] \in pgdir[np].user
      BY <1>1 DEF Permissions, OwnerWrites, MayWrite
    <2> QED
      BY <2>1, <1>1, <1>3, <1>4, <1>7, <1>8 DEF Permissions, EveryoneReadsEveryone
  <1>13. OwnerWrites'
    <2>1. sharep[np] \notin PagesOf(Others(np))
      BY <1>1 DEF PagesOf, Others, Ownership
    <2>2. \A q \in Proc : sharep[q] # PageZero => q = np \/ (q \in Others(np) /\ sharep[q] # sharep[np])
      BY <1>1 DEF Others, Ownership
    <2> QED
      BY <2>1, <2>2, <1>1, <1>3, <1>4 DEF Permissions, OwnerWrites, MayWrite
  <1> QED
    BY <1>10, <1>11, <1>12, <1>13 DEF Permissions

LEMMA PermissionsExit ==
  ASSUME TypeOK, Ownership, Permissions, ~astray, NEW p \in Proc, exit(p), ~Astray(p)
  PROVE  Permissions'
  <1> USE Constants
  <1>1. /\ InUse(p) /\ sharep[p] # PageZero
        /\ sharep' = [sharep EXCEPT ![p] = PageZero] /\ state' = [state EXCEPT ![p] = "ZOMBIE"]
        /\ pgdir' = ExitUpdates(p) /\ call' = call
    BY DEF exit, Running, Ownership, Live, InUse, TypeOK
  <1>2. \A q \in Others(p) : pgdir[q] # None
    BY DEF Astray
  <1>3. \A q \in Others(p) :
          /\ pgdir'[q].user = pgdir[q].user \ {sharep[p]}
          /\ pgdir'[q].write = pgdir[q].write \union {sharep[p]}
    BY <1>1 DEF ExitUpdates, KernelOnly, Others
  <1>4. \A q \in Proc \ {p} : sharep'[q] = sharep[q] /\ sharep[q] # sharep[p]
    BY <1>1 DEF Ownership, TypeOK
  <1>5. InUsePages' = InUsePages \ {sharep[p]}
    BY <1>1, <1>4 DEF InUsePages, PagesOf, TypeOK
  <1>6. \A q \in Proc : InUse(q)' \/ Live(q)' => q \in Others(p) /\ q # p /\ InUse(q) /\ pgdir[q] # None
    BY <1>1, <1>2 DEF InUse, Live, Others, TypeOK
  <1>7. \A q \in Proc : Live(q)' => Live(q)
    BY <1>1 DEF Live, TypeOK
  <1>8. FreePagesClosed'
    BY <1>3, <1>5, <1>6 DEF Permissions, FreePagesClosed, HasDirectory
  <1>9. FreePagesWritable'
    BY <1>3, <1>5, <1>6 DEF Permissions, FreePagesWritable, HasDirectory
  <1>10. EveryoneReadsEveryone'
    BY <1>1, <1>3, <1>4, <1>6, <1>7 DEF Permissions, EveryoneReadsEveryone
  <1>11. OwnerWrites'
    <2>1. \A q \in Proc : sharep'[q] # PageZero => q \in Others(p) /\ q # p
      BY <1>1, <1>4 DEF Others, Ownership, TypeOK
    <2> QED
      BY <2>1, <1>3, <1>4 DEF Permissions, OwnerWrites, MayWrite
  <1> QED
    BY <1>8, <1>9, <1>10, <1>11 DEF Permissions

LEMMA PermissionsWait ==
  ASSUME TypeOK, Ownership, Permissions, ~astray, NEW p \in Proc, NEW q \in Proc, wait(p, q)
  PROVE  Permissions'
  <1>1. /\ state[q] = "ZOMBIE" /\ state' = [state EXCEPT ![q] = "UNUSED"]
        /\ sharep' = sharep /\ call' = call /\ astray' = astray
        /\ \A r \in Proc \ {q} : pgdir'[r] = pgdir[r]
    BY DEF wait, TypeOK
  <1>2. \A r \in Proc : /\ InUse(r)' => r # q /\ InUse(r)
                        /\ Live(r)' => r # q /\ Live(r)
                        /\ sharep[r] # PageZero => r # q
    BY <1>1 DEF InUse, Live, Ownership, TypeOK
  <1>3. InUsePages' = InUsePages
    BY <1>1 DEF InUsePages, PagesOf
  <1> QED
    BY <1>1, <1>2, <1>3 DEF Permissions, FreePagesClosed, FreePagesWritable,
        EveryoneReadsEveryone, OwnerWrites, HasDirectory, MayWrite

LEMMA PermissionsExec ==
  ASSUME TypeOK, Ownership, Permissions, ~astray, NEW p \in Proc, exec(p)
  PROVE  Permissions'
  <1> USE Constants
  <1>1. /\ sharep[p] # PageZero /\ sharep' = sharep /\ state' = state /\ astray' = astray
        /\ call' = [call EXCEPT ![p] = "exec"]
        /\ \A q \in Proc \ {p} : pgdir'[q] = pgdir[q]
        /\ pgdir'[p] = ReadWrite(NewDirectory({PageZero}), {sharep[p]})
    BY DEF exec, Running, Ownership, Live, TypeOK
  <1>2. /\ pgdir'[p].user = {PageZero, sharep[p]}
        /\ Page \subseteq pgdir'[p].write /\ sharep[p] \in pgdir'[p].write
    BY <1>1 DEF ReadWrite, NewDirectory
  <1>3. InUsePages' = InUsePages /\ sharep[p] \in InUsePages
    BY <1>1 DEF InUsePages, PagesOf
  <1>4. HasDirectory(p)
    BY <1>1 DEF Ownership, HasDirectory
  <1>5. \A q \in Proc : call'[q] # "exec" => q # p /\ call[q] # "exec"
    BY <1>1 DEF TypeOK
  <1>6. FreePagesClosed' /\ FreePagesWritable'
    BY <1>1, <1>2, <1>3 DEF Permissions, FreePagesClosed, FreePagesWritable, HasDirectory, InUse
  <1>7. EveryoneReadsEveryone'
    BY <1>1, <1>5 DEF Permissions, EveryoneReadsEveryone, Live
  <1>8. OwnerWrites'
    BY <1>1, <1>2 DEF Permissions, OwnerWrites, MayWrite
  <1> QED
    BY <1>6, <1>7, <1>8 DEF Permissions

LEMMA PermissionsUpdateExec ==
  ASSUME TypeOK, Ownership, Permissions, ~astray, NEW p \in Proc, update_exec_sp(p)
  PROVE  Permissions'
  <1> USE Constants
  <1>1. /\ sharep[p] # PageZero /\ sharep' = sharep /\ state' = state /\ astray' = astray
        /\ \A q \in Proc \ {p} : pgdir'[q] = pgdir[q] /\ call'[q] = call[q]
        /\ pgdir'[p] = ReadWrite(pgdir[p], PagesOf(Others(p)))
        /\ InUse(p) /\ pgdir[p] # None
    BY DEF update_exec_sp, Running, Ownership, Live, TypeOK
  <1>2. /\ pgdir'[p].user = pgdir[p].user \union PagesOf(Others(p))
        /\ pgdir'[p].write = pgdir[p].write \union PagesOf(Others(p))
    BY <1>1 DEF ReadWrite
  <1>3. InUsePages' = InUsePages /\ PagesOf(Others(p)) \subseteq InUsePages \union {PageZero}
    BY <1>1 DEF InUsePages, PagesOf, Others
  <1>4. sharep[p] \in MayWrite(p)
    BY <1>1 DEF Permissions, OwnerWrites
  <1>5. \A q \in Proc : Live(q) => q = p \/ sharep[q] \in PagesOf(Others(p))
    BY DEF Live, InUse, Others, PagesOf
  <1>6. FreePagesClosed' /\ FreePagesWritable'
    BY <1>1, <1>2, <1>3 DEF Permissions, FreePagesClosed, FreePagesWritable, HasDirectory, InUse
  <1>7. EveryoneReadsEveryone'
    BY <1>1, <1>2, <1>4, <1>5 DEF Permissions, EveryoneReadsEveryone, MayWrite, Live
  <1>8. OwnerWrites'
    BY <1>1, <1>2 DEF Permissions, OwnerWrites, MayWrite
  <1> QED
    BY <1>6, <1>7, <1>8 DEF Permissions

LEMMA PermissionsStep == TypeOK /\ Ownership /\ Permissions /\ [Next]_vars => Permissions'
  <1> SUFFICES ASSUME TypeOK, Ownership, Permissions, [Next]_vars PROVE Permissions'
    OBVIOUS
  <1>1. ASSUME NEW p \in Proc, scheduler(p) \/ sched(p) \/ ForkFails(p) \/ MakesharepFails(p)
        PROVE  Permissions'
    <2>1. /\ \A q \in Proc : InUse(q)' /\ pgdir[q] # None => InUse(q)
          /\ \A q \in Proc : Live(q)' => Live(q)
          /\ \A q \in Proc : call[q] = "exec" => call'[q] = "exec"
      BY <1>1 DEF scheduler, sched, ForkFails, MakesharepFails, Running, InUse, Live, TypeOK
    <2> QED
      BY <1>1, <2>1, PermissionsQuiet DEF scheduler, sched, ForkFails, MakesharepFails
  <1>2. ASSUME NEW p \in Proc, NEW g \in Page, Touch(p, g) PROVE Permissions'
    BY <1>2, PermissionsQuiet DEF Touch, InUse, Live
  <1>3. ASSUME NEW p \in Proc, NEW q \in Proc, allocproc(p, q) PROVE Permissions'
    <2>1. /\ sharep' = sharep
          /\ \A r \in Proc : InUse(r)' /\ pgdir[r] # None => InUse(r)
          /\ \A r \in Proc : Live(r)' => Live(r)
          /\ \A r \in Proc : call[r] = "exec" => call'[r] = "exec"
      BY <1>3 DEF allocproc, Running, InUse, Live, Ownership, TypeOK
    <2> QED
      BY <1>3, <2>1, PermissionsQuiet DEF allocproc
  <1>4. ASSUME NEW p \in Proc, ~astray, copyuvm(p) PROVE Permissions'
    BY <1>4, PermissionsCopyuvm
  <1>5. ASSUME NEW p \in Proc, NEW g \in Page, ~astray, makesharep(p, g) PROVE Permissions'
    BY <1>5, PermissionsMakesharep
  <1>6. ASSUME NEW p \in Proc, ~astray, fork(p) \/ exit(p) PROVE Permissions'
    <2>1. CASE astray'
      BY <2>1 DEF Permissions, FreePagesClosed, FreePagesWritable, EveryoneReadsEveryone,
          OwnerWrites
    <2>2. CASE ~astray'
      BY <1>6, <2>2, PermissionsFork, PermissionsExit DEF fork, exit
    <2> QED
      BY <2>1, <2>2
  <1>7. ASSUME NEW p \in Proc, NEW q \in Proc, ~astray, wait(p, q) PROVE Permissions'
    BY <1>7, PermissionsWait
  <1>8. ASSUME NEW p \in Proc, ~astray, exec(p) \/ update_exec_sp(p) PROVE Permissions'
    BY <1>8, PermissionsExec, PermissionsUpdateExec
  <1>9. CASE UNCHANGED vars
    BY <1>9, PermissionsQuiet DEF vars, InUse, Live
  <1> QED
    BY <1>1, <1>2, <1>3, <1>4, <1>5, <1>6, <1>7, <1>8, <1>9 DEF Next, Step

LEMMA PermissionsInvariant == Spec => []Permissions
  <1>1. Init => Permissions
    BY PermissionsInit
  <1>2. TypeOK /\ Ownership /\ Permissions /\ [Next]_vars => Permissions'
    BY PermissionsStep
  <1> QED
    BY <1>1, <1>2, OwnershipInvariant, PTL DEF Spec

-----------------------------------------------------------------------------
(* Who opens a page for writing.                                              *)

\* No new right: what a process may write of the others' pages it could before.
NoNewRight(p, q) ==
    Live(p)' /\ Live(q)' /\ ~astray' /\ sharep'[q] \in MayWrite(p)'
        => Live(p) /\ sharep[q] \in MayWrite(p)

\* Steps that touch neither p's directory nor q's page, and make neither live.
LEMMA Untouched ==
  ASSUME NEW p \in Proc, NEW q \in Proc, Live(p)' => Live(p) /\ pgdir'[p] = pgdir[p],
         Live(q)' => sharep'[q] = sharep[q]
  PROVE  NoNewRight(p, q)
  BY DEF NoNewRight, MayWrite

LEMMA ForkGivesNoRight ==
  ASSUME TypeOK, Ownership, NEW r \in Proc, fork(r), NEW p \in Proc, NEW q \in Proc, p # q
  PROVE  NoNewRight(p, q)
  <1> SUFFICES ASSUME Live(p)', Live(q)', ~astray', sharep'[q] \in MayWrite(p)'
               PROVE  Live(p) /\ sharep[q] \in MayWrite(p)
    BY DEF NoNewRight
  <1>1. PICK np : np = child[r]
    OBVIOUS
  <1>2. /\ np \in Proc /\ state[np] = "EMBRYO" /\ sharep[np] # PageZero
        /\ sharep' = sharep /\ state' = [state EXCEPT ![np] = "RUNNABLE"]
        /\ pgdir' = ForkUpdates(np)
    BY <1>1, Constants DEF fork, Running, Ownership, TypeOK
  <1>3. \A s \in Proc : Live(s)' => s = np \/ (s \in Others(np) /\ Live(s))
    BY <1>2 DEF Live, InUse, Others, TypeOK
  <1>4. CASE p = np
    <2>1. q \in Others(np) /\ sharep[q] \in PagesOf(Others(np))
      BY <1>3, <1>4 DEF PagesOf
    <2>2. pgdir'[np] = ReadOnly(pgdir[np], PagesOf(Others(np)))
      BY <1>2 DEF ForkUpdates, Others
    <2>3. pgdir'[p].write = pgdir[p].write \ PagesOf(Others(np))
      BY <1>4, <2>2 DEF ReadOnly
    <2> QED
      BY <1>2, <2>1, <2>3 DEF MayWrite
  <1>5. CASE p # np
    <2>1. p \in Others(np) /\ Live(p)
      BY <1>3, <1>5
    <2>2. /\ pgdir'[p].user = pgdir[p].user \union {sharep[np]}
          /\ pgdir'[p].write = pgdir[p].write \ {sharep[np]}
      BY <1>2, <1>5, <2>1 DEF ForkUpdates, ReadOnly
    <2> QED
      BY <1>2, <2>1, <2>2 DEF MayWrite
  <1> QED
    BY <1>4, <1>5

LEMMA ExitGivesNoRight ==
  ASSUME TypeOK, Ownership, NEW r \in Proc, exit(r), NEW p \in Proc, NEW q \in Proc, p # q
  PROVE  NoNewRight(p, q)
  <1> SUFFICES ASSUME Live(p)', Live(q)', ~astray', sharep'[q] \in MayWrite(p)'
               PROVE  Live(p) /\ sharep[q] \in MayWrite(p)
    BY DEF NoNewRight
  <1>1. /\ sharep' = [sharep EXCEPT ![r] = PageZero] /\ state' = [state EXCEPT ![r] = "ZOMBIE"]
        /\ pgdir' = ExitUpdates(r) /\ Live(r) /\ sharep[r] # PageZero
    BY DEF exit, Running, Ownership, Live
  <1>2. p # r /\ q # r /\ Live(p) /\ Live(q) /\ p \in Others(r)
    BY <1>1 DEF Live, InUse, Others, TypeOK
  <1>3. /\ pgdir'[p].user = pgdir[p].user \ {sharep[r]}
        /\ pgdir'[p].write = pgdir[p].write \union {sharep[r]}
    BY <1>1, <1>2 DEF ExitUpdates, KernelOnly
  <1>4. sharep'[q] = sharep[q]
    BY <1>1, <1>2 DEF TypeOK
  <1> QED
    BY <1>2, <1>3, <1>4 DEF MayWrite

LEMMA ExecGivesNoRight ==
  ASSUME TypeOK, Ownership, NEW p \in Proc, exec(p), NEW q \in Proc, p # q
  PROVE  NoNewRight(p, q)
  <1> SUFFICES ASSUME Live(q), sharep[q] \in MayWrite(p)' PROVE FALSE
    BY DEF NoNewRight, exec, Live
  <1>1. pgdir'[p].user = {PageZero, sharep[p]}
    BY DEF exec, ReadWrite, NewDirectory, TypeOK
  <1>2. sharep[q] # PageZero /\ sharep[q] # sharep[p]
    BY DEF Ownership
  <1> QED
    BY <1>1, <1>2 DEF MayWrite

LEMMA NoRightWithoutExec ==
  ASSUME TypeOK, Ownership, Next, NEW p \in Proc, NEW q \in Proc, p # q
  PROVE  call[p] = "exec" \/ NoNewRight(p, q)
  <1> USE Constants
  <1>1. ASSUME NEW r \in Proc,
               scheduler(r) \/ sched(r) \/ ForkFails(r) \/ MakesharepFails(r)
               \/ (\E g \in Page : Touch(r, g))
        PROVE  NoNewRight(p, q)
    <2>1. UNCHANGED <<pgdir, sharep>>
      BY <1>1 DEF scheduler, sched, ForkFails, MakesharepFails, Touch
    <2>2. Live(p)' => Live(p)
      BY <1>1 DEF scheduler, sched, ForkFails, MakesharepFails, Touch, Running, Live, TypeOK
    <2> QED
      BY <2>1, <2>2, Untouched
  <1>2. ASSUME NEW r \in Proc, NEW np \in Proc, allocproc(r, np) PROVE NoNewRight(p, q)
    <2>1. /\ pgdir' = pgdir /\ state' = [state EXCEPT ![np] = "EMBRYO"]
          /\ sharep' = [sharep EXCEPT ![np] = PageZero]
      BY <1>2 DEF allocproc
    <2>2. (Live(p)' => Live(p)) /\ (Live(q)' => sharep'[q] = sharep[q])
      BY <2>1 DEF Live, TypeOK
    <2> QED
      BY <2>1, <2>2, Untouched
  <1>3. ASSUME NEW r \in Proc, copyuvm(r) \/ \E g \in Page : makesharep(r, g)
        PROVE  NoNewRight(p, q)
    <2>1. PICK np : np = child[r]
      OBVIOUS
    <2>2. np \in Proc /\ state[np] = "EMBRYO" /\ state' = state
      <3>1. CASE copyuvm(r)
        BY <2>1, <3>1 DEF copyuvm, Running, Ownership, TypeOK
      <3>2. CASE \E g \in Page : makesharep(r, g)
        BY <2>1, <3>2 DEF makesharep, Running, Ownership, TypeOK
      <3> QED
        BY <1>3, <3>1, <3>2
    <2>3. /\ pgdir'[p] # pgdir[p] => p = np
          /\ pgdir'[q] # pgdir[q] => q = np
          /\ sharep'[p] # sharep[p] => p = np
          /\ sharep'[q] # sharep[q] => q = np
      <3>1. ASSUME copyuvm(r) PROVE sharep' = sharep /\ \A s \in Proc \ {np} : pgdir'[s] = pgdir[s]
        BY <2>1, <3>1 DEF copyuvm, TypeOK
      <3>2. ASSUME NEW g \in Page, makesharep(r, g)
            PROVE  \A s \in Proc \ {np} : pgdir'[s] = pgdir[s] /\ sharep'[s] = sharep[s]
        BY <2>1, <3>2 DEF makesharep, TypeOK
      <3> QED
        BY <1>3, <3>1, <3>2
    <2>4. (Live(p)' => Live(p) /\ p # np) /\ (Live(q)' => q # np)
      BY <2>2 DEF Live
    <2> QED
      BY <2>2, <2>3, <2>4, Untouched
  <1>4. ASSUME NEW r \in Proc, NEW c \in Proc, wait(r, c) PROVE NoNewRight(p, q)
    <2>1. /\ sharep' = sharep /\ state' = [state EXCEPT ![c] = "UNUSED"]
          /\ \A s \in Proc \ {c} : pgdir'[s] = pgdir[s]
      BY <1>4 DEF wait, TypeOK
    <2>2. Live(p)' => Live(p) /\ p # c
      BY <2>1 DEF Live, TypeOK
    <2> QED
      BY <2>1, <2>2, Untouched
  <1>5. ASSUME NEW r \in Proc, exec(r) \/ update_exec_sp(r)
        PROVE  call[p] = "exec" \/ NoNewRight(p, q)
    <2>1. CASE r # p
      <3>1. /\ sharep' = sharep /\ state' = state /\ pgdir'[p] = pgdir[p]
        BY <1>5, <2>1 DEF exec, update_exec_sp, TypeOK
      <3> QED
        BY <3>1, Untouched DEF Live
    <2>2. CASE r = p
      BY <1>5, <2>2, ExecGivesNoRight DEF update_exec_sp, Running
    <2> QED
      BY <2>1, <2>2
  <1> QED
    BY <1>1, <1>2, <1>3, <1>4, <1>5, ForkGivesNoRight, ExitGivesNoRight DEF Next, Step

-----------------------------------------------------------------------------
(* One processor forgets in time.                                             *)

\* Only the running process has entries remembered, and of owned pages only.
Remembered ==
    /\ \A p, q \in Proc : state[p] = "RUNNING" /\ state[q] = "RUNNING" => p = q
    /\ \A p \in Proc : state[p] # "RUNNING" => tlb[p] = {}
    /\ NoAccessAfterExit

LEMMA RememberedInit == Init => Remembered
  BY Constants DEF Init, Remembered, NoAccessAfterExit

LEMMA RememberedStep ==
  ASSUME Ncpu = 1, TypeOK, Ownership, Permissions, Remembered, [Next]_vars
  PROVE  Remembered'
  <1> USE Constants
  <1>1. ASSUME \A q \in Proc : state'[q] = "RUNNING" => state[q] = "RUNNING",
               \A q \in Proc : tlb'[q] = IF state'[q] = "RUNNING" THEN tlb[q] ELSE {},
               ~astray, InUsePages \subseteq InUsePages'
        PROVE  Remembered'
    BY <1>1 DEF Remembered, NoAccessAfterExit
  <1>2. ASSUME NEW p \in Proc, scheduler(p), ~astray PROVE Remembered'
    <2>1. \A q \in Proc : state[q] # "RUNNING"
      <3>1. PICK R : R = {q \in Proc : state[q] = "RUNNING"}
        OBVIOUS
      <3>2. IsFiniteSet(R) /\ Cardinality(R) < 1
        BY <1>2, <3>1, ConstantsAssumption, FS_Subset DEF scheduler, ConstantsAssumption
      <3>3. R = {}
        BY <3>2, FS_CardinalityType, FS_EmptySet
      <3> QED
        BY <3>1, <3>3
    <2>2. tlb' = tlb /\ sharep' = sharep /\ \A q \in Proc : state'[q] = IF q = p THEN "RUNNING" ELSE state[q]
      BY <1>2 DEF scheduler, TypeOK
    <2> QED
      BY <2>1, <2>2 DEF Remembered, NoAccessAfterExit
  <1>3. ASSUME NEW p \in Proc, sched(p), ~astray PROVE Remembered'
    <2>1. /\ \A q \in Proc : state'[q] = IF q = p THEN "RUNNABLE" ELSE state[q]
          /\ \A q \in Proc : tlb'[q] = IF q = p THEN {} ELSE tlb[q]
          /\ sharep' = sharep
      BY <1>3 DEF sched, TypeOK
    <2>2. InUsePages' = InUsePages
      BY <2>1 DEF InUsePages, PagesOf
    <2> QED
      BY <1>1, <1>3, <2>1, <2>2 DEF Remembered
  <1>4. ASSUME NEW p \in Proc, NEW g \in Page, Touch(p, g), ~astray PROVE Remembered'
    <2>1. /\ state' = state /\ sharep' = sharep /\ state[p] = "RUNNING" /\ g \in pgdir[p].user
          /\ \A q \in Proc : tlb'[q] = IF q = p THEN tlb[q] \union {g} ELSE tlb[q]
      BY <1>4 DEF Touch, Running, TypeOK
    <2>2. pgdir[p].user \subseteq InUsePages \union {PageZero}
      BY <1>4, <2>1 DEF Permissions, FreePagesClosed, HasDirectory, InUse, Ownership, Live
    <2>3. g \in InUsePages
      BY <2>1, <2>2
    <2>4. InUsePages' = InUsePages
      BY <2>1 DEF InUsePages, PagesOf
    <2> QED
      BY <1>4, <2>1, <2>3, <2>4 DEF Remembered, NoAccessAfterExit
  <1>5. ASSUME NEW p \in Proc, ~astray,
               ForkFails(p) \/ MakesharepFails(p) \/ copyuvm(p) \/ exec(p) \/ fork(p)
               \/ (\E q \in Proc : allocproc(p, q) \/ wait(p, q))
        PROVE  Remembered'
    <2>1. tlb' = tlb /\ \A q \in Proc : state'[q] = "RUNNING" <=> state[q] = "RUNNING"
      BY <1>5 DEF ForkFails, MakesharepFails, copyuvm, exec, fork, allocproc, wait, Running,
                  Ownership, TypeOK
    <2>2. sharep' = sharep
      BY <1>5 DEF ForkFails, MakesharepFails, copyuvm, exec, fork, allocproc, wait, Ownership,
                  InUse, TypeOK
    <2>3. InUsePages' = InUsePages
      BY <2>2 DEF InUsePages, PagesOf
    <2> QED
      BY <1>1, <1>5, <2>1, <2>3 DEF Remembered
  <1>6. ASSUME NEW p \in Proc, NEW g \in Page, makesharep(p, g), ~astray PROVE Remembered'
    <2>1. /\ tlb' = tlb /\ state' = state
          /\ child[p] \in Proc /\ sharep[child[p]] = PageZero
          /\ sharep' = [sharep EXCEPT ![child[p]] = g]
      BY <1>6 DEF makesharep, Running, Ownership, TypeOK
    <2>2. InUsePages \subseteq InUsePages'
      <3>1. ASSUME NEW q \in Proc, sharep[q] # PageZero PROVE sharep[q] \in PagesOf(Proc)'
        <4>1. sharep'[q] = sharep[q]
          BY <2>1, <3>1 DEF TypeOK
        <4> QED
          BY <4>1 DEF PagesOf
      <3> QED
        BY <3>1 DEF InUsePages, PagesOf
    <2> QED
      BY <1>1, <1>6, <2>1, <2>2 DEF Remembered
  <1>7. ASSUME NEW p \in Proc, exit(p), ~astray PROVE Remembered'
    <2>1. /\ state[p] = "RUNNING"
          /\ \A q \in Proc : state'[q] = IF q = p THEN "ZOMBIE" ELSE state[q]
          /\ \A q \in Proc : tlb'[q] = IF q = p THEN {} ELSE tlb[q]
      BY <1>7 DEF exit, Running, TypeOK
    <2>2. \A q \in Proc : state'[q] # "RUNNING"
      BY <2>1 DEF Remembered
    <2> QED
      BY <2>1, <2>2 DEF Remembered, NoAccessAfterExit
  <1>8. ASSUME NEW p \in Proc, update_exec_sp(p), ~astray PROVE Remembered'
    <2>1. /\ state' = state /\ sharep' = sharep
          /\ \A q \in Proc : tlb'[q] = IF q = p THEN {} ELSE tlb[q]
      BY <1>8 DEF update_exec_sp, TypeOK
    <2>2. InUsePages' = InUsePages
      BY <2>1 DEF InUsePages, PagesOf
    <2> QED
      BY <1>8, <2>1, <2>2 DEF Remembered, NoAccessAfterExit
  <1>9. CASE UNCHANGED vars
    BY <1>9 DEF vars, Remembered, NoAccessAfterExit, InUsePages, PagesOf
  <1> QED
    BY <1>2, <1>3, <1>4, <1>5, <1>6, <1>7, <1>8, <1>9 DEF Next, Step

-----------------------------------------------------------------------------
(* The values of the variables never leave their ranges.                      *)
THEOREM TypeCorrect == Spec => []TypeOK
  BY OwnershipInvariant, PTL

(* A slot in fork and a shared page belong to one process each.               *)
THEOREM OneOwner == Spec => []Ownership
  BY OwnershipInvariant, PTL

(* No program can use a shared page after it was given back.                  *)
THEOREM GivenBackIsClosed == Spec => []FreePagesClosed
  BY PermissionsInvariant, PTL DEF Permissions

(* The kernel can write a shared page after it was given back.                *)
THEOREM GivenBackIsWritable == Spec => []FreePagesWritable
  BY PermissionsInvariant, PTL DEF Permissions

(* Every process reads every other's shared page.                             *)
THEOREM SharedWithAll == Spec => []EveryoneReadsEveryone
  BY PermissionsInvariant, PTL DEF Permissions

(* Every process writes its own shared page.                                  *)
THEOREM OwnPageWritable == Spec => []OwnerWrites
  BY PermissionsInvariant, PTL DEF Permissions

(* Only a process's own exec opens other processes' pages to its writes:      *)
(* whoever forks, exits or is waited for, nobody gains a right by it.         *)
THEOREM OnlyExecOpens == Spec => WriteOnlyThroughExec
  <1>1. ASSUME TypeOK, Ownership, [Next]_vars
        PROVE  [\A p, q \in Proc :
                  /\ p # q /\ Live(p)' /\ Live(q)' /\ ~astray'
                  /\ sharep'[q] \in MayWrite(p)'
                  => call[p] = "exec" \/ (Live(p) /\ sharep[q] \in MayWrite(p))]_vars
    BY <1>1, NoRightWithoutExec DEF NoNewRight
  <1> QED
    BY <1>1, OwnershipInvariant, PTL DEF Spec, WriteOnlyThroughExec

(* On one processor no program uses a page after its owner exited, through an *)
(* entry its processor remembers either: the processor that runs exit is the  *)
(* only one that could remember.  With a second one this fails.               *)
THEOREM OneProcessorForgets == ASSUME Ncpu = 1 PROVE Spec => []NoAccessAfterExit
  <1>1. Init => Remembered
    BY RememberedInit
  <1>2. TypeOK /\ Ownership /\ Permissions /\ Remembered /\ [Next]_vars => Remembered'
    BY RememberedStep
  <1>3. Remembered => NoAccessAfterExit
    BY DEF Remembered
  <1> QED
    BY <1>1, <1>2, <1>3, OwnershipInvariant, PermissionsInvariant, PTL DEF Spec
=============================================================================
