---------------------------- MODULE BlockIoProof ----------------------------
(* The buffer cache and the disk driver make every block a register with one  *)
(* user, for any number of processes, blocks and buffers.                     *)
EXTENDS BlockIo, FiniteSetTheorems, FunctionTheorems, SequenceTheorems, TLAPS

Types ==
    /\ blockno \in [Buf -> Block \union {None}]
    /\ refcnt \in [Buf -> Nat]
    /\ data \in [Buf -> Data]
    /\ valid \in SUBSET Buf /\ dirty \in SUBSET Buf
    /\ lock \in [Buf -> Proc \union {None}]
    /\ idequeue \in Seq(Buf)
    /\ disk \in [Block -> Data]
    /\ pc \in [Proc -> {"run", "lock", "locksleep", "rw", "iosleep", "io", "drop"}]
    /\ reg \in [Proc -> Buf \union {None}]
    /\ held \in [Proc -> SUBSET Buf]

\* A process outside its caller is busy with one buffer; it takes or drops only
\* what it does not hold.
Places ==
    \A p \in Proc :
        /\ pc[p] = "run" <=> reg[p] = None
        /\ pc[p] \in {"lock", "locksleep", "drop"} => reg[p] \notin held[p]

\* refcnt counts who holds a buffer, wants it or is about to drop it.
Refers(p, b) == b \in held[p] \/ reg[p] = b
Referring(b) == {p \in Proc : Refers(p, b)}
Counted ==
    \A b \in Buf : IsFiniteSet(Referring(b)) /\ refcnt[b] = Cardinality(Referring(b))

\* At most one buffer holds a block, and a buffer in use holds one.
Named ==
    /\ \A b, c \in Buf : blockno[b] = blockno[c] /\ blockno[b] # None => b = c
    /\ \A b \in valid : blockno[b] # None
    /\ \A p \in Proc, b \in Buf : Refers(p, b) => blockno[b] # None

\* The sleep lock belongs to who holds the buffer or does its input and output.
Busy == {"rw", "iosleep", "io"}
Owns(p, b) == b \in held[p] \/ (reg[p] = b /\ pc[p] \in Busy)
Locked == \A p \in Proc, b \in Buf : lock[b] = p <=> Owns(p, b)

\* A valid buffer that is not dirty is what is on the disk.
Fresh ==
    /\ dirty \subseteq valid
    /\ \A p \in Proc : held[p] \subseteq valid
    /\ \A b \in valid \ dirty : data[b] = disk[blockno[b]]
    /\ \A p \in Proc : pc[p] = "io" => reg[p] \in valid \ dirty

NoTwice(s) == \A i, j \in 1..Len(s) : s[i] = s[j] => i = j
InQueue(b) == \E i \in 1..Len(idequeue) : idequeue[i] = b

\* Queued are the buffers somebody sleeps for, each once; the drive has the first.
Queued ==
    /\ NoTwice(idequeue)
    /\ \A b \in Buf : InQueue(b) <=> \E p \in Proc : pc[p] = "iosleep" /\ reg[p] = b
    /\ IF idequeue = << >> THEN drive = None ELSE drive = idestart(Head(idequeue))

Waiting == \A p \in Proc : pc[p] = "locksleep" => lock[reg[p]] # None

Inv == Types /\ Places /\ Counted /\ Named /\ Locked /\ Fresh /\ Queued /\ Waiting

-----------------------------------------------------------------------------
(* The initial state.                                                         *)

LEMMA InvInit == Init => Inv
  <1> SUFFICES ASSUME Init PROVE Inv
    OBVIOUS
  <1>1. /\ InitialData \in Data /\ None \notin Proc /\ NBUF \in Nat
        /\ \A b \in Buf : b # None
    BY ConstantsAssumption DEF Buf
  <1>2. Types
    BY <1>1, EmptySeq DEF Init, binit, Types
  <1>3. \A p \in Proc, b \in Buf : ~Refers(p, b) /\ ~Owns(p, b)
    BY <1>1 DEF Init, Refers, Owns
  <1>4. Counted
    <2>1. \A b \in Buf : Referring(b) = {}
      BY <1>3 DEF Referring
    <2> QED
      BY <2>1, FS_EmptySet DEF Init, binit, Counted
  <1>5. Named /\ Locked
    BY <1>1, <1>3 DEF Init, binit, Named, Locked
  <1>6. Places /\ Fresh /\ Waiting
    BY <1>1 DEF Init, binit, Places, Fresh, Waiting
  <1>7. Queued
    BY <1>1 DEF Init, Queued, NoTwice, InQueue
  <1> QED
    BY <1>2, <1>4, <1>5, <1>6, <1>7 DEF Inv

-----------------------------------------------------------------------------
(* Types                                                                      *)

LEMMA BufNotNone == \A b \in Buf : b # None
  BY ConstantsAssumption DEF Buf

\* The head of the queue, and its rest.
LEMMA QueueHead ==
  ASSUME Types, Queued, drive # None
  PROVE  /\ idequeue # << >> /\ idequeue \in Seq(Buf)
         /\ Head(idequeue) \in Buf /\ InQueue(Head(idequeue))
         /\ drive = idestart(Head(idequeue))
         /\ Tail(idequeue) \in Seq(Buf)
         /\ Len(idequeue) \in Nat /\ Len(idequeue) > 0
         /\ Len(Tail(idequeue)) = Len(idequeue) - 1
         /\ \A i \in 1..Len(Tail(idequeue)) : Tail(idequeue)[i] = idequeue[i + 1]
         /\ Head(idequeue) = idequeue[1]
  <1>1. idequeue # << >> /\ drive = idestart(Head(idequeue)) /\ idequeue \in Seq(Buf)
    BY DEF Queued, Types
  <1>2. /\ Head(idequeue) \in Buf /\ Tail(idequeue) \in Seq(Buf)
        /\ Len(idequeue) \in Nat /\ Len(idequeue) > 0
        /\ Len(Tail(idequeue)) = Len(idequeue) - 1
        /\ \A i \in 1..Len(Tail(idequeue)) : Tail(idequeue)[i] = idequeue[i + 1]
        /\ Head(idequeue) = idequeue[1]
    BY <1>1
  <1>3. InQueue(Head(idequeue))
    BY <1>2 DEF InQueue
  <1> QED
    BY <1>1, <1>2, <1>3

LEMMA WokenType ==
  ASSUME Types, NEW b \in Buf, NEW from,
         NEW to \in {"run", "lock", "locksleep", "rw", "iosleep", "io", "drop"}
  PROVE  Woken(from, b, to) \in [Proc -> {"run", "lock", "locksleep", "rw", "iosleep", "io", "drop"}]
  BY DEF Types, Woken

\* A process that is not in its caller has a buffer.
LEMMA RegBuf ==
  ASSUME Types, Places, NEW p \in Proc, pc[p] # "run"
  PROVE  reg[p] \in Buf
  BY DEF Types, Places

LEMMA TypesStep ==
  ASSUME Inv, [Next]_vars
  PROVE  Types'
  <1>1. Types /\ Places /\ Queued /\ Counted /\ Named
    BY DEF Inv
  <1>2. \A p \in Proc : pc[p] # "run" => reg[p] \in Buf
    BY <1>1, RegBuf
  <1>3. ASSUME NEW p \in Proc, NEW k \in Block, bget_cached(p, k) PROVE Types'
    BY <1>1, <1>3 DEF bget_cached, Go, driver, Types
  <1>4. ASSUME NEW p \in Proc, NEW k \in Block, bget_recycle(p, k) PROVE Types'
    BY <1>1, <1>4 DEF bget_recycle, Go, driver, Types
  <1>5. ASSUME NEW p \in Proc, acquiresleep(p) PROVE Types'
    <2>1. reg[p] \in Buf
      BY <1>2, <1>5 DEF acquiresleep
    <2>2. UNCHANGED <<cache, driver>>
      BY <1>5 DEF acquiresleep
    <2>3. lock' \in [Buf -> Proc \union {None}] /\ held' \in [Proc -> SUBSET Buf]
      <3>1. held[p] \union {reg[p]} \in SUBSET Buf
        BY <1>1, <2>1 DEF Types
      <3>2. lock' = lock \/ lock' = [lock EXCEPT ![reg[p]] = p]
        BY <1>5 DEF acquiresleep
      <3>3. held' = held \/ held' = [held EXCEPT ![p] = @ \union {reg[p]}]
        BY <1>5 DEF acquiresleep
      <3>4. lock' \in [Buf -> Proc \union {None}]
        BY <1>1, <3>2 DEF Types
      <3>5. held' \in [Proc -> SUBSET Buf]
        BY <1>1, <3>1, <3>3 DEF Types
      <3> QED
        BY <3>4, <3>5
    <2>4. /\ pc' \in [Proc -> {"run", "lock", "locksleep", "rw", "iosleep", "io", "drop"}]
          /\ reg' \in [Proc -> Buf \union {None}]
      <3>1. PICK w \in {"locksleep", "run", "rw"}, r \in {reg[p], None} : Go(p, w, r)
        BY <1>5 DEF acquiresleep
      <3> QED
        BY <1>1, <2>1, <3>1 DEF Go, Types
    <2> QED
      BY <1>1, <2>2, <2>3, <2>4 DEF driver, cache, Types
  <1>6. ASSUME NEW p \in Proc, NEW b \in Buf, NEW d \in Data, log_write(p, b, d) \/ bwrite(p, b, d)
        PROVE  Types'
    <2>1. b \in Buf /\ UNCHANGED <<blockno, refcnt, valid, lock, idequeue, disk, held>>
      BY <1>6 DEF log_write, bwrite, driver, place
    <2>2. data' \in [Buf -> Data] /\ dirty' \in SUBSET Buf
      <3>1. data' = [data EXCEPT ![b] = d] /\ dirty' = dirty \union {b}
        BY <1>6 DEF log_write, bwrite
      <3> QED
        BY <1>1, <3>1 DEF Types
    <2>3. /\ pc' \in [Proc -> {"run", "lock", "locksleep", "rw", "iosleep", "io", "drop"}]
          /\ reg' \in [Proc -> Buf \union {None}]
      <3>1. Go(p, "rw", b) \/ UNCHANGED <<pc, reg>>
        BY <1>6 DEF log_write, bwrite, place
      <3> QED
        BY <1>1, <3>1 DEF Go, Types
    <2> QED
      BY <1>1, <2>1, <2>2, <2>3 DEF Types
  <1>7. ASSUME NEW p \in Proc, NEW b \in Buf, brelse(p, b) PROVE Types'
    <2>1. pc' \in [Proc -> {"run", "lock", "locksleep", "rw", "iosleep", "io", "drop"}]
      BY <1>1, <1>7, WokenType DEF brelse
    <2> QED
      BY <1>1, <1>7, <2>1 DEF brelse, driver, cache, Types
  <1>8. ASSUME NEW p \in Proc, brelse_drop(p) PROVE Types'
    <2>1. reg[p] \in Buf /\ p \in Referring(reg[p])
      BY <1>2, <1>8 DEF brelse_drop, Referring, Refers
    <2>2. refcnt[reg[p]] - 1 \in Nat
      <3>1. IsFiniteSet(Referring(reg[p])) /\ refcnt[reg[p]] = Cardinality(Referring(reg[p]))
        BY <1>1, <2>1 DEF Counted
      <3>2. Cardinality(Referring(reg[p])) \in Nat /\ Cardinality(Referring(reg[p])) # 0
        BY <2>1, <3>1, FS_EmptySet, FS_CardinalityType
      <3> QED
        BY <3>1, <3>2
    <2> QED
      BY <1>1, <1>8, <2>1, <2>2 DEF brelse_drop, Go, driver, Types
  <1>9. ASSUME NEW p \in Proc, iderw(p) PROVE Types'
    <2>1. reg[p] \in Buf
      BY <1>2, <1>9 DEF iderw
    <2>2. Append(idequeue, reg[p]) \in Seq(Buf)
      BY <1>1, <2>1 DEF Types
    <2> QED
      BY <1>1, <1>9, <2>1, <2>2 DEF iderw, Go, cache, Types
  <1>10. ASSUME NEW p \in Proc, iderw_woken(p) PROVE Types'
    <2>1. reg[p] \in Buf
      BY <1>2, <1>10 DEF iderw_woken
    <2>2. held[p] \union {reg[p]} \in SUBSET Buf
      BY <1>1, <2>1 DEF Types
    <2> QED
      BY <1>1, <1>10, <2>1, <2>2 DEF iderw_woken, Go, cache, driver, Types
  <1>11. CASE ideintr
    <2>1. drive # None
      BY <1>11 DEF ideintr
    <2>2. /\ Head(idequeue) \in Buf /\ Tail(idequeue) \in Seq(Buf)
          /\ drive = idestart(Head(idequeue)) /\ InQueue(Head(idequeue))
      BY <1>1, <2>1, QueueHead
    <2>3. /\ drive.blockno = blockno[Head(idequeue)] /\ drive.data = data[Head(idequeue)]
      BY <2>2 DEF idestart
    <2>4. blockno[Head(idequeue)] \in Block
      <3>1. PICK p \in Proc : reg[p] = Head(idequeue)
        BY <1>1, <2>2 DEF Queued
      <3>2. blockno[Head(idequeue)] # None
        BY <1>1, <2>2, <3>1 DEF Named, Refers
      <3> QED
        BY <1>1, <2>2, <3>2 DEF Types
    <2>5. pc' \in [Proc -> {"run", "lock", "locksleep", "rw", "iosleep", "io", "drop"}]
      BY <1>1, <1>11, <2>2, WokenType DEF ideintr
    <2>6. data' \in [Buf -> Data] /\ disk' \in [Block -> Data]
      BY <1>1, <1>11, <2>2, <2>3, <2>4 DEF ideintr, Types
    <2>7. valid' \in SUBSET Buf /\ dirty' \in SUBSET Buf /\ idequeue' \in Seq(Buf)
      BY <1>1, <1>11, <2>2 DEF ideintr, Types
    <2> QED
      BY <1>1, <1>11, <2>5, <2>6, <2>7 DEF ideintr, Types
  <1>12. CASE UNCHANGED vars
    BY <1>1, <1>12 DEF vars, cache, driver, place, Types
  <1> QED
    BY <1>3, <1>4, <1>5, <1>6, <1>7, <1>8, <1>9, <1>10, <1>11, <1>12 DEF Next

-----------------------------------------------------------------------------
(* Who refers to a buffer                                                     *)

\* The steps in which nobody takes or drops a buffer.
Inside ==
    \/ ideintr
    \/ \E p \in Proc :
        \/ acquiresleep(p) \/ iderw(p) \/ iderw_woken(p)
        \/ \E b \in Buf : brelse(p, b) \/ \E d \in Data : log_write(p, b, d) \/ bwrite(p, b, d)

LEMMA InsideRefers ==
  ASSUME Types, Places, Inside, NEW q \in Proc, NEW c \in Buf
  PROVE  Refers(q, c)' <=> Refers(q, c)
  <1>1. c # None
    BY BufNotNone
  <1>2. CASE ideintr
    BY <1>2 DEF ideintr, Refers
  <1>3. ASSUME NEW p \in Proc, acquiresleep(p) PROVE Refers(q, c)' <=> Refers(q, c)
    <2>1. CASE reg' = [reg EXCEPT ![p] = reg[p]] /\ held' = held
      BY <2>1 DEF Types, Refers
    <2>2. CASE reg' = [reg EXCEPT ![p] = None] /\ held' = [held EXCEPT ![p] = @ \union {reg[p]}]
      BY <1>1, <2>2 DEF Types, Refers
    <2> QED
      BY <1>3, <2>1, <2>2 DEF acquiresleep, Go
  <1>4. ASSUME NEW p \in Proc, iderw(p) PROVE Refers(q, c)' <=> Refers(q, c)
    BY <1>4 DEF iderw, Go, Types, Refers
  <1>5. ASSUME NEW p \in Proc, iderw_woken(p) PROVE Refers(q, c)' <=> Refers(q, c)
    <2>1. CASE reg' = [reg EXCEPT ![p] = reg[p]] /\ held' = held
      BY <2>1 DEF Types, Refers
    <2>2. CASE reg' = [reg EXCEPT ![p] = None] /\ held' = [held EXCEPT ![p] = @ \union {reg[p]}]
      BY <1>1, <2>2 DEF Types, Refers
    <2> QED
      BY <1>5, <2>1, <2>2 DEF iderw_woken, Go
  <1>6. ASSUME NEW p \in Proc, NEW b \in Buf, brelse(p, b) PROVE Refers(q, c)' <=> Refers(q, c)
    BY <1>1, <1>6 DEF brelse, Uses, Types, Places, Refers
  <1>7. ASSUME NEW p \in Proc, NEW b \in Buf, NEW d \in Data, log_write(p, b, d)
        PROVE  Refers(q, c)' <=> Refers(q, c)
    BY <1>7 DEF log_write, place, Refers
  <1>8. ASSUME NEW p \in Proc, NEW b \in Buf, NEW d \in Data, bwrite(p, b, d)
        PROVE  Refers(q, c)' <=> Refers(q, c)
    BY <1>1, <1>8 DEF bwrite, Go, Uses, Types, Places, Refers
  <1> QED
    BY <1>2, <1>3, <1>4, <1>5, <1>6, <1>7, <1>8 DEF Inside

\* A new buffer is one the process did not refer to.
LEMMA TakeRefers ==
  ASSUME Inv, NEW p \in Proc, NEW b \in Buf, pc[p] = "run", b \notin held[p],
         Go(p, "lock", b), held' = held
  PROVE  /\ ~Refers(p, b) /\ Refers(p, b)'
         /\ \A q \in Proc, c \in Buf : q # p \/ c # b => (Refers(q, c)' <=> Refers(q, c))
  BY BufNotNone DEF Inv, Types, Places, Go, Refers

\* Nobody refers to a buffer that is recycled.
LEMMA UnusedRefers ==
  ASSUME Inv, NEW b \in Buf, refcnt[b] = 0
  PROVE  Referring(b) = {}
  <1>1. IsFiniteSet(Referring(b)) /\ Cardinality(Referring(b)) = 0
    BY DEF Inv, Counted
  <1> QED
    BY <1>1, FS_EmptySet

LEMMA CachedTakes ==
  ASSUME Inv, NEW p \in Proc, NEW k \in Block, NEW b \in Buf, MayTake(p, k), Cached(b, k)
  PROVE  pc[p] = "run" /\ b \notin held[p]
  <1>2. b \in held[p] => k < k
    BY DEF MayTake, Cached
  <1>3. k \in Nat
    BY ConstantsAssumption
  <1> QED
    BY <1>2, <1>3 DEF MayTake

LEMMA DropRefers ==
  ASSUME Inv, NEW p \in Proc, NEW b \in Buf, brelse_drop(p), b = reg[p]
  PROVE  /\ Refers(p, b) /\ ~Refers(p, b)'
         /\ \A q \in Proc, c \in Buf : q # p \/ c # b => (Refers(q, c)' <=> Refers(q, c))
  <1>1. Types /\ Places /\ pc[p] = "drop"
    BY DEF Inv, brelse_drop
  <1>2. reg' = [reg EXCEPT ![p] = None] /\ held' = held
    BY DEF brelse_drop, Go
  <1> QED
    BY <1>1, <1>2, BufNotNone DEF Types, Places, Refers

LEMMA CountedStep ==
  ASSUME Inv, [Next]_vars
  PROVE  Counted'
  <1>1. Types /\ Places /\ Counted
    BY DEF Inv
  <1>2. ASSUME \A q \in Proc, c \in Buf : Refers(q, c)' <=> Refers(q, c), refcnt' = refcnt
        PROVE  Counted'
    <2>1. \A c \in Buf : Referring(c)' = Referring(c)
      BY <1>2 DEF Referring
    <2> QED
      BY <1>1, <1>2, <2>1 DEF Counted
  <1>3. ASSUME NEW p \in Proc, NEW b \in Buf,
               ~Refers(p, b), Refers(p, b)', refcnt' = [refcnt EXCEPT ![b] = @ + 1],
               \A q \in Proc, c \in Buf : q # p \/ c # b => (Refers(q, c)' <=> Refers(q, c))
        PROVE  Counted'
    <2>1. Referring(b)' = Referring(b) \union {p} /\ p \notin Referring(b)
      BY <1>3 DEF Referring
    <2>2. \A c \in Buf : c # b => Referring(c)' = Referring(c)
      BY <1>3 DEF Referring
    <2>3. /\ IsFiniteSet(Referring(b)')
          /\ Cardinality(Referring(b)') = Cardinality(Referring(b)) + 1
      BY <1>1, <2>1, FS_AddElement DEF Counted
    <2> QED
      BY <1>1, <1>3, <2>2, <2>3 DEF Counted, Types
  <1>4. ASSUME NEW p \in Proc, NEW k \in Block, bget_cached(p, k) PROVE Counted'
    <2>1. PICK b \in Buf : Cached(b, k) /\ refcnt' = [refcnt EXCEPT ![b] = @ + 1] /\ Go(p, "lock", b)
      BY <1>4 DEF bget_cached
    <2>2. pc[p] = "run" /\ b \notin held[p] /\ held' = held
      BY <1>4, <2>1, CachedTakes DEF bget_cached
    <2> QED
      BY <1>3, <2>1, <2>2, TakeRefers
  <1>5. ASSUME NEW p \in Proc, NEW k \in Block, bget_recycle(p, k) PROVE Counted'
    <2>1. PICK b \in Buf : Oldest(b) /\ refcnt' = [refcnt EXCEPT ![b] = 1] /\ Go(p, "lock", b)
      BY <1>5 DEF bget_recycle
    <2>2. refcnt[b] = 0
      BY <2>1 DEF Oldest, Unused
    <2>3. pc[p] = "run" /\ b \notin held[p] /\ held' = held
      BY <1>5, <2>2, UnusedRefers DEF bget_recycle, MayTake, Referring, Refers
    <2>4. refcnt' = [refcnt EXCEPT ![b] = @ + 1]
      BY <2>1, <2>2
    <2> QED
      BY <1>3, <2>1, <2>3, <2>4, TakeRefers
  <1>6. ASSUME NEW p \in Proc, brelse_drop(p) PROVE Counted'
    <2>1. PICK b \in Buf : b = reg[p]
      BY <1>1, <1>6, RegBuf DEF brelse_drop
    <2>2. refcnt' = [refcnt EXCEPT ![b] = @ - 1]
      BY <1>6, <2>1 DEF brelse_drop
    <2>3. /\ Refers(p, b) /\ ~Refers(p, b)'
          /\ \A q \in Proc, c \in Buf : q # p \/ c # b => (Refers(q, c)' <=> Refers(q, c))
      BY <1>6, <2>1, DropRefers
    <2>4. Referring(b)' = Referring(b) \ {p} /\ p \in Referring(b)
      BY <2>3 DEF Referring
    <2>5. \A c \in Buf : c # b => Referring(c)' = Referring(c)
      BY <2>3 DEF Referring
    <2>6. /\ IsFiniteSet(Referring(b)')
          /\ Cardinality(Referring(b)') = Cardinality(Referring(b)) - 1
      BY <1>1, <2>4, FS_RemoveElement DEF Counted
    <2> QED
      BY <1>1, <2>2, <2>5, <2>6 DEF Counted, Types
  <1>7. CASE Inside
    <2>1. refcnt' = refcnt
      BY <1>7 DEF Inside, ideintr, acquiresleep, iderw, iderw_woken, brelse, log_write, bwrite, cache
    <2> QED
      BY <1>1, <1>2, <1>7, <2>1, InsideRefers
  <1>8. CASE UNCHANGED vars
    BY <1>2, <1>8 DEF vars, cache, place, Refers
  <1> QED
    BY <1>4, <1>5, <1>6, <1>7, <1>8 DEF Next, Inside

-----------------------------------------------------------------------------
(* Where processes are, which blocks buffers hold, who has the locks          *)

LEMMA PlacesStep ==
  ASSUME Inv, [Next]_vars
  PROVE  Places'
  <1>1. Types /\ Places
    BY DEF Inv
  <1>2. \A q \in Proc : pc[q] # "run" => reg[q] \in Buf
    BY <1>1, RegBuf
  <1>3. ASSUME NEW p \in Proc, NEW k \in Block, bget_cached(p, k) PROVE Places'
    <2>1. PICK b \in Buf : Cached(b, k) /\ Go(p, "lock", b)
      BY <1>3 DEF bget_cached
    <2>2. b \notin held[p] /\ held' = held
      BY <1>3, <2>1, CachedTakes DEF bget_cached
    <2> QED
      BY <1>1, <2>1, <2>2, BufNotNone DEF Go, Types, Places
  <1>4. ASSUME NEW p \in Proc, NEW k \in Block, bget_recycle(p, k) PROVE Places'
    <2>1. PICK b \in Buf : refcnt[b] = 0 /\ Go(p, "lock", b)
      BY <1>4 DEF bget_recycle, Oldest, Unused
    <2>2. b \notin held[p] /\ held' = held
      BY <1>4, <2>1, UnusedRefers DEF bget_recycle, Referring, Refers
    <2> QED
      BY <1>1, <2>1, <2>2, BufNotNone DEF Go, Types, Places
  <1>5. ASSUME NEW p \in Proc, acquiresleep(p) PROVE Places'
    <2>1. reg[p] \in Buf /\ reg[p] \notin held[p]
      BY <1>1, <1>2, <1>5 DEF acquiresleep, Places
    <2>2. CASE Go(p, "locksleep", reg[p]) /\ held' = held
      BY <1>1, <2>1, <2>2, BufNotNone DEF Go, Types, Places
    <2>3. CASE Go(p, "rw", reg[p]) /\ held' = held
      BY <1>1, <2>1, <2>3, BufNotNone DEF Go, Types, Places
    <2>4. CASE Go(p, "run", None) /\ held' = [held EXCEPT ![p] = @ \union {reg[p]}]
      BY <1>1, <2>4 DEF Go, Types, Places
    <2> QED
      BY <1>5, <2>2, <2>3, <2>4 DEF acquiresleep
  <1>6. ASSUME NEW p \in Proc, NEW b \in Buf, NEW d \in Data, log_write(p, b, d) \/ bwrite(p, b, d)
        PROVE  Places'
    BY <1>1, <1>6, BufNotNone DEF log_write, bwrite, Go, place, Types, Places
  <1>7. ASSUME NEW p \in Proc, NEW b \in Buf, brelse(p, b) PROVE Places'
    BY <1>1, <1>7, BufNotNone DEF brelse, Uses, Woken, Types, Places
  <1>8. ASSUME NEW p \in Proc, brelse_drop(p) PROVE Places'
    BY <1>1, <1>8 DEF brelse_drop, Go, Types, Places
  <1>9. ASSUME NEW p \in Proc, iderw(p) PROVE Places'
    BY <1>1, <1>2, <1>9, BufNotNone DEF iderw, Go, Types, Places
  <1>10. ASSUME NEW p \in Proc, iderw_woken(p) PROVE Places'
    <2>1. CASE Go(p, "iosleep", reg[p]) /\ held' = held
      BY <1>1, <1>2, <1>10, <2>1, BufNotNone DEF iderw_woken, Go, Types, Places
    <2>2. CASE Go(p, "run", None) /\ held' = [held EXCEPT ![p] = @ \union {reg[p]}]
      BY <1>1, <2>2 DEF Go, Types, Places
    <2> QED
      BY <1>10, <2>1, <2>2 DEF iderw_woken
  <1>11. CASE ideintr
    BY <1>1, <1>11 DEF ideintr, Woken, Types, Places
  <1>12. CASE UNCHANGED vars
    BY <1>1, <1>12 DEF vars, place, Places
  <1> QED
    BY <1>3, <1>4, <1>5, <1>6, <1>7, <1>8, <1>9, <1>10, <1>11, <1>12 DEF Next

LEMMA NamedStep ==
  ASSUME Inv, [Next]_vars
  PROVE  Named'
  <1>1. Types /\ Places /\ Named /\ Queued
    BY DEF Inv
  <1>2. None \notin Block
    BY ConstantsAssumption
  <1>3. ASSUME NEW p \in Proc, NEW k \in Block, bget_cached(p, k) PROVE Named'
    <2>1. PICK b \in Buf : Cached(b, k) /\ Go(p, "lock", b)
      BY <1>3 DEF bget_cached
    <2>2. pc[p] = "run" /\ b \notin held[p] /\ held' = held /\ UNCHANGED <<blockno, valid>>
      BY <1>3, <2>1, CachedTakes DEF bget_cached
    <2>3. \A q \in Proc, c \in Buf : q # p \/ c # b => (Refers(q, c)' <=> Refers(q, c))
      BY <2>1, <2>2, TakeRefers
    <2> QED
      BY <1>1, <1>2, <2>1, <2>2, <2>3 DEF Cached, Named
  <1>4. ASSUME NEW p \in Proc, NEW k \in Block, bget_recycle(p, k) PROVE Named'
    <2>1. PICK b \in Buf : /\ Oldest(b) /\ Go(p, "lock", b)
                           /\ blockno' = [blockno EXCEPT ![b] = k] /\ valid' = valid \ {b}
      BY <1>4 DEF bget_recycle
    <2>2. refcnt[b] = 0
      BY <2>1 DEF Oldest, Unused
    <2>3. pc[p] = "run" /\ b \notin held[p] /\ held' = held
      BY <1>4, <2>2, UnusedRefers DEF bget_recycle, MayTake, Referring, Refers
    <2>4. \A q \in Proc, c \in Buf : q # p \/ c # b => (Refers(q, c)' <=> Refers(q, c))
      BY <2>1, <2>3, TakeRefers
    <2>5. \A c \in Buf : blockno[c] # k
      BY <1>4 DEF bget_recycle, InCache, Cached
    <2>6. \A c, e \in Buf : blockno'[c] = blockno'[e] /\ blockno'[c] # None => c = e
      BY <1>1, <2>1, <2>5 DEF Types, Named
    <2>7. \A c \in valid' : blockno'[c] # None
      BY <1>1, <2>1 DEF Types, Named
    <2>8. \A q \in Proc, c \in Buf : Refers(q, c)' => blockno'[c] # None
      BY <1>1, <1>2, <2>1, <2>4 DEF Types, Named
    <2> QED
      BY <2>6, <2>7, <2>8 DEF Named
  <1>5. ASSUME NEW p \in Proc, brelse_drop(p) PROVE Named'
    <2>1. PICK b \in Buf : b = reg[p]
      BY <1>1, <1>5, RegBuf DEF brelse_drop
    <2>2. \A q \in Proc, c \in Buf : Refers(q, c)' => Refers(q, c)
      BY <1>5, <2>1, DropRefers
    <2>3. UNCHANGED <<blockno, valid>>
      BY <1>5 DEF brelse_drop
    <2> QED
      BY <1>1, <2>2, <2>3 DEF Named
  <1>6. CASE Inside
    <2>1. blockno' = blockno
      BY <1>6 DEF Inside, ideintr, acquiresleep, iderw, iderw_woken, brelse, log_write, bwrite, cache
    <2>2. \A q \in Proc, c \in Buf : Refers(q, c)' <=> Refers(q, c)
      BY <1>1, <1>6, InsideRefers
    <2>3. \A c \in valid' : c \in valid \/ (c \in Buf /\ \E q \in Proc : Refers(q, c))
      <3>1. CASE ideintr
        <4>1. Head(idequeue) \in Buf /\ InQueue(Head(idequeue))
          BY <1>1, <3>1, QueueHead DEF ideintr
        <4>2. PICK b \in Buf : b = Head(idequeue)
          BY <4>1
        <4>3. \E q \in Proc : Refers(q, b)
          BY <1>1, <4>1, <4>2 DEF Queued, Refers
        <4>4. valid' = valid \union {b}
          BY <3>1, <4>2 DEF ideintr
        <4> QED
          BY <4>3, <4>4
      <3>2. CASE valid' = valid
        BY <3>2
      <3> QED
        BY <1>6, <3>1, <3>2
           DEF Inside, acquiresleep, iderw, iderw_woken, brelse, log_write, bwrite, cache
    <2> QED
      BY <1>1, <2>1, <2>2, <2>3 DEF Named
  <1>7. CASE UNCHANGED vars
    BY <1>1, <1>7 DEF vars, cache, place, Refers, Named
  <1> QED
    BY <1>3, <1>4, <1>5, <1>6, <1>7 DEF Next, Inside

LEMMA LockedStep ==
  ASSUME Inv, [Next]_vars
  PROVE  Locked'
  <1>1. Types /\ Places /\ Locked
    BY DEF Inv
  <1>2. \A b \in Buf : b # None
    BY BufNotNone
  <1>3. None \notin Proc
    BY ConstantsAssumption
  <1>4. ASSUME lock' = lock, \A q \in Proc, c \in Buf : Owns(q, c)' <=> Owns(q, c)
        PROVE  Locked'
    BY <1>1, <1>4 DEF Locked
  <1>5. ASSUME NEW p \in Proc, NEW k \in Block, bget_cached(p, k) \/ bget_recycle(p, k)
        PROVE  Locked'
    <2>1. PICK b \in Buf : Go(p, "lock", b)
      BY <1>5 DEF bget_cached, bget_recycle
    <2>2. pc[p] = "run" /\ reg[p] = None /\ held' = held /\ lock' = lock
      BY <1>1, <1>5 DEF bget_cached, bget_recycle, MayTake, Places
    <2>3. \A q \in Proc, c \in Buf : Owns(q, c)' <=> Owns(q, c)
      BY <1>1, <1>2, <2>1, <2>2 DEF Go, Types, Owns, Busy
    <2> QED
      BY <1>4, <2>2, <2>3
  <1>6. ASSUME NEW p \in Proc, acquiresleep(p) PROVE Locked'
    <2>1. PICK b \in Buf : b = reg[p]
      BY <1>1, <1>6, RegBuf DEF acquiresleep
    <2>2. CASE Go(p, "locksleep", b) /\ lock' = lock /\ held' = held
      <3>1. \A q \in Proc, c \in Buf : Owns(q, c)' <=> Owns(q, c)
        BY <1>1, <1>6, <2>1, <2>2 DEF acquiresleep, Go, Types, Owns, Busy
      <3> QED
        BY <1>4, <2>2, <3>1
    <2>3. ASSUME lock[b] = None, lock' = [lock EXCEPT ![b] = p], Owns(p, b)',
                 \A q \in Proc, c \in Buf : q # p \/ c # b => (Owns(q, c)' <=> Owns(q, c))
          PROVE  Locked'
      <3>1. \A q \in Proc : ~Owns(q, b)
        BY <1>1, <1>3, <2>3 DEF Locked
      <3> QED
        BY <1>1, <2>3, <3>1 DEF Locked, Types
    <2>4. CASE Go(p, "rw", b) /\ held' = held /\ lock[b] = None /\ lock' = [lock EXCEPT ![b] = p]
      <3>1. Owns(p, b)' /\ \A q \in Proc, c \in Buf : q # p \/ c # b => (Owns(q, c)' <=> Owns(q, c))
        BY <1>1, <2>1, <2>4 DEF Go, Types, Owns, Busy
      <3> QED
        BY <2>3, <2>4, <3>1
    <2>5. CASE /\ Go(p, "run", None) /\ held' = [held EXCEPT ![p] = @ \union {b}]
               /\ lock[b] = None /\ lock' = [lock EXCEPT ![b] = p]
      <3>1. Owns(p, b)' /\ \A q \in Proc, c \in Buf : q # p \/ c # b => (Owns(q, c)' <=> Owns(q, c))
        BY <1>1, <1>2, <2>1, <2>5 DEF Go, Types, Owns, Busy
      <3> QED
        BY <2>3, <2>5, <3>1
    <2> QED
      BY <1>6, <2>1, <2>2, <2>4, <2>5 DEF acquiresleep
  <1>7. ASSUME NEW p \in Proc, NEW b \in Buf, NEW d \in Data, log_write(p, b, d) \/ bwrite(p, b, d)
        PROVE  Locked'
    <2>1. \A q \in Proc, c \in Buf : Owns(q, c)' <=> Owns(q, c)
      BY <1>1, <1>2, <1>7 DEF log_write, bwrite, Uses, Go, place, Types, Places, Owns, Busy
    <2> QED
      BY <1>4, <1>7, <2>1 DEF log_write, bwrite
  <1>8. ASSUME NEW p \in Proc, NEW b \in Buf, brelse(p, b) PROVE Locked'
    <2>1. \A q \in Proc, c \in Buf : Owns(q, c)' <=> Owns(q, c) /\ (q # p \/ c # b)
      BY <1>1, <1>2, <1>8 DEF brelse, Uses, Woken, Types, Places, Owns, Busy
    <2>2. lock[b] = p
      BY <1>1, <1>8 DEF brelse, Uses, Locked, Owns
    <2>3. lock' = [lock EXCEPT ![b] = None]
      BY <1>8 DEF brelse
    <2> QED
      BY <1>1, <1>3, <2>1, <2>2, <2>3 DEF Locked, Types
  <1>9. ASSUME NEW p \in Proc, brelse_drop(p) PROVE Locked'
    <2>1. \A q \in Proc, c \in Buf : Owns(q, c)' <=> Owns(q, c)
      BY <1>1, <1>2, <1>9 DEF brelse_drop, Go, Types, Owns, Busy
    <2> QED
      BY <1>4, <1>9, <2>1 DEF brelse_drop
  <1>10. ASSUME NEW p \in Proc, iderw(p) PROVE Locked'
    <2>1. \A q \in Proc, c \in Buf : Owns(q, c)' <=> Owns(q, c)
      BY <1>1, <1>10 DEF iderw, Go, Types, Owns, Busy
    <2> QED
      BY <1>4, <1>10, <2>1 DEF iderw
  <1>11. ASSUME NEW p \in Proc, iderw_woken(p) PROVE Locked'
    <2>1. pc[p] = "io" /\ lock' = lock
      BY <1>11 DEF iderw_woken
    <2>2. CASE Go(p, "iosleep", reg[p]) /\ held' = held
      <3>1. \A q \in Proc, c \in Buf : Owns(q, c)' <=> Owns(q, c)
        BY <1>1, <2>1, <2>2 DEF Go, Types, Owns, Busy
      <3> QED
        BY <1>4, <2>1, <3>1
    <2>3. CASE Go(p, "run", None) /\ held' = [held EXCEPT ![p] = @ \union {reg[p]}]
      <3>1. \A q \in Proc, c \in Buf : Owns(q, c)' <=> Owns(q, c)
        BY <1>1, <1>2, <2>1, <2>3 DEF Go, Types, Owns, Busy
      <3> QED
        BY <1>4, <2>1, <3>1
    <2> QED
      BY <1>11, <2>2, <2>3 DEF iderw_woken
  <1>12. CASE ideintr
    <2>1. \A q \in Proc, c \in Buf : Owns(q, c)' <=> Owns(q, c)
      BY <1>1, <1>12 DEF ideintr, Woken, Types, Owns, Busy
    <2> QED
      BY <1>4, <1>12, <2>1 DEF ideintr
  <1>13. CASE UNCHANGED vars
    BY <1>4, <1>13 DEF vars, place, Owns
  <1> QED
    BY <1>5, <1>6, <1>7, <1>8, <1>9, <1>10, <1>11, <1>12, <1>13 DEF Next

\* Who sleeps in acquiresleep waits for a lock that is taken.
LEMMA WaitingStep ==
  ASSUME Inv, [Next]_vars
  PROVE  Waiting'
  <1>1. Types /\ Places /\ Waiting
    BY DEF Inv
  <1>2. \A q \in Proc : pc[q] # "run" => reg[q] \in Buf
    BY <1>1, RegBuf
  <1>3. None \notin Proc
    BY ConstantsAssumption
  <1>4. ASSUME NEW p \in Proc, NEW k \in Block, bget_cached(p, k) \/ bget_recycle(p, k)
        PROVE  Waiting'
    <2>1. PICK b \in Buf : Go(p, "lock", b)
      BY <1>4 DEF bget_cached, bget_recycle
    <2>2. lock' = lock
      BY <1>4 DEF bget_cached, bget_recycle
    <2> QED
      BY <1>1, <2>1, <2>2 DEF Go, Types, Waiting
  <1>5. ASSUME NEW p \in Proc, acquiresleep(p) PROVE Waiting'
    <2>1. reg[p] \in Buf
      BY <1>2, <1>5 DEF acquiresleep
    <2>2. CASE lock[reg[p]] # None
      <3>1. Go(p, "locksleep", reg[p]) /\ lock' = lock
        BY <1>5, <2>2 DEF acquiresleep
      <3> QED
        BY <1>1, <2>2, <3>1 DEF Go, Types, Waiting
    <2>3. CASE lock[reg[p]] = None
      <3>1. PICK w \in {"run", "rw"}, r \in {reg[p], None} : Go(p, w, r)
        BY <1>5, <2>3 DEF acquiresleep
      <3>2. lock' = [lock EXCEPT ![reg[p]] = p]
        BY <1>5, <2>3 DEF acquiresleep
      <3>3. \A c \in Buf : lock[c] # None => lock'[c] # None
        BY <1>1, <1>3, <2>1, <3>2 DEF Types
      <3>4. \A q \in Proc : pc'[q] = "locksleep" => pc[q] = "locksleep" /\ reg'[q] = reg[q]
        BY <1>1, <3>1 DEF Go, Types
      <3> QED
        BY <1>1, <1>2, <3>3, <3>4 DEF Waiting
    <2> QED
      BY <2>2, <2>3
  <1>6. ASSUME NEW p \in Proc, NEW b \in Buf, NEW d \in Data, log_write(p, b, d) \/ bwrite(p, b, d)
        PROVE  Waiting'
    BY <1>1, <1>6 DEF log_write, bwrite, Go, place, Types, Waiting
  <1>7. ASSUME NEW p \in Proc, NEW b \in Buf, brelse(p, b) PROVE Waiting'
    BY <1>1, <1>2, <1>7 DEF brelse, Woken, Types, Waiting
  <1>8. ASSUME NEW p \in Proc, brelse_drop(p) \/ iderw(p) \/ iderw_woken(p) PROVE Waiting'
    BY <1>1, <1>8 DEF brelse_drop, iderw, iderw_woken, Go, Types, Waiting
  <1>9. CASE ideintr
    BY <1>1, <1>9 DEF ideintr, Woken, Types, Waiting
  <1>10. CASE UNCHANGED vars
    BY <1>1, <1>10 DEF vars, place, Waiting
  <1> QED
    BY <1>4, <1>5, <1>6, <1>7, <1>8, <1>9, <1>10 DEF Next

-----------------------------------------------------------------------------
(* Contents and the queue                                                     *)

\* One owner at a time.
LEMMA OneOwner ==
  ASSUME Locked, NEW p \in Proc, NEW q \in Proc, NEW b \in Buf, Owns(p, b), Owns(q, b)
  PROVE  p = q
  BY DEF Locked

\* Nobody else works on the buffer a caller uses.
LEMMA UserIsAlone ==
  ASSUME Inv, NEW p \in Proc, NEW b \in Buf, Uses(p, b)
  PROVE  \A q \in Proc : pc[q] \in Busy => reg[q] # b
  <1> SUFFICES ASSUME NEW q \in Proc, pc[q] \in Busy, reg[q] = b PROVE FALSE
    OBVIOUS
  <1>1. Owns(p, b) /\ Owns(q, b)
    BY DEF Uses, Owns
  <1>2. p = q
    BY <1>1, OneOwner DEF Inv
  <1> QED
    BY <1>2 DEF Uses, Busy

LEMMA FreshStep ==
  ASSUME Inv, [Next]_vars
  PROVE  Fresh'
  <1>1. Types /\ Places /\ Named /\ Fresh /\ Queued
    BY DEF Inv
  <1>2. \A q \in Proc : pc[q] # "run" => reg[q] \in Buf
    BY <1>1, RegBuf
  <1>3. ASSUME NEW p \in Proc, NEW k \in Block, bget_cached(p, k) PROVE Fresh'
    BY <1>1, <1>3 DEF bget_cached, driver, Go, Types, Fresh
  <1>4. ASSUME NEW p \in Proc, NEW k \in Block, bget_recycle(p, k) PROVE Fresh'
    <2>1. PICK b \in Buf : /\ Unused(b) /\ Go(p, "lock", b)
                           /\ blockno' = [blockno EXCEPT ![b] = k] /\ valid' = valid \ {b}
      BY <1>4 DEF bget_recycle, Oldest
    <2>2. \A q \in Proc : ~Refers(q, b)
      BY <2>1, UnusedRefers DEF Unused, Referring
    <2>3. UNCHANGED <<data, dirty, disk, held>> /\ b \notin dirty
      BY <1>4, <2>1 DEF bget_recycle, driver, Unused
    <2>4. dirty' \subseteq valid' /\ \A q \in Proc : held'[q] \subseteq valid'
      BY <1>1, <2>1, <2>2, <2>3 DEF Fresh, Refers
    <2>5. \A c \in valid' \ dirty' : data'[c] = disk'[blockno'[c]]
      BY <1>1, <2>1, <2>3 DEF Fresh, Types
    <2>6. \A q \in Proc : pc'[q] = "io" => reg'[q] \in valid' \ dirty'
      BY <1>1, <2>1, <2>2, <2>3 DEF Fresh, Refers, Go, Types
    <2> QED
      BY <2>4, <2>5, <2>6 DEF Fresh
  <1>5. ASSUME NEW p \in Proc, acquiresleep(p) PROVE Fresh'
    <2>1. UNCHANGED <<valid, dirty, data, disk, blockno>>
      BY <1>5 DEF acquiresleep, cache, driver
    <2>2. \A q \in Proc : held'[q] \subseteq valid'
      <3>1. CASE held' = held
        BY <1>1, <2>1, <3>1 DEF Fresh
      <3>2. CASE reg[p] \in valid /\ held' = [held EXCEPT ![p] = @ \union {reg[p]}]
        BY <1>1, <2>1, <3>2 DEF Fresh, Types
      <3> QED
        BY <1>5, <3>1, <3>2 DEF acquiresleep
    <2>3. \A q \in Proc : pc'[q] = "io" => pc[q] = "io" /\ reg'[q] = reg[q]
      BY <1>1, <1>5 DEF acquiresleep, Go, Types
    <2> QED
      BY <1>1, <2>1, <2>2, <2>3 DEF Fresh
  <1>6. ASSUME NEW p \in Proc, NEW b \in Buf, NEW d \in Data, log_write(p, b, d) \/ bwrite(p, b, d)
        PROVE  Fresh'
    <2>1. /\ data' = [data EXCEPT ![b] = d] /\ dirty' = dirty \union {b} /\ Uses(p, b)
          /\ UNCHANGED <<valid, disk, blockno, held>>
      BY <1>6 DEF log_write, bwrite, driver, place
    <2>2. \A q \in Proc : pc'[q] = "io" => pc[q] = "io" /\ reg'[q] = reg[q] /\ reg[q] # b
      BY <1>1, <1>6, <2>1, UserIsAlone DEF log_write, bwrite, place, Go, Types, Busy
    <2>3. b \in valid
      BY <1>1, <2>1 DEF Uses, Fresh
    <2> QED
      BY <1>1, <2>1, <2>2, <2>3 DEF Fresh, Types
  <1>7. ASSUME NEW p \in Proc, NEW b \in Buf, brelse(p, b) PROVE Fresh'
    <2>1. UNCHANGED <<valid, dirty, data, disk, blockno>>
      BY <1>7 DEF brelse, cache, driver
    <2>2. \A q \in Proc : held'[q] \subseteq held[q]
      BY <1>1, <1>7 DEF brelse, Types
    <2>3. \A q \in Proc : pc'[q] = "io" => pc[q] = "io" /\ reg'[q] = reg[q]
      BY <1>1, <1>7 DEF brelse, Woken, Types
    <2> QED
      BY <1>1, <2>1, <2>2, <2>3 DEF Fresh
  <1>8. ASSUME NEW p \in Proc, brelse_drop(p) \/ iderw(p) PROVE Fresh'
    <2>1. UNCHANGED <<valid, dirty, data, disk, blockno, held>>
      BY <1>8 DEF brelse_drop, iderw, cache, driver
    <2>2. \A q \in Proc : pc'[q] = "io" => pc[q] = "io" /\ reg'[q] = reg[q]
      BY <1>1, <1>8 DEF brelse_drop, iderw, Go, Types
    <2> QED
      BY <1>1, <2>1, <2>2 DEF Fresh
  <1>9. ASSUME NEW p \in Proc, iderw_woken(p) PROVE Fresh'
    <2>1. UNCHANGED <<valid, dirty, data, disk, blockno>>
      BY <1>9 DEF iderw_woken, cache, driver
    <2>2. \A q \in Proc : held'[q] \subseteq valid'
      <3>1. CASE held' = held
        BY <1>1, <2>1, <3>1 DEF Fresh
      <3>2. CASE reg[p] \in valid /\ held' = [held EXCEPT ![p] = @ \union {reg[p]}]
        BY <1>1, <2>1, <3>2 DEF Fresh, Types
      <3> QED
        BY <1>9, <3>1, <3>2 DEF iderw_woken
    <2>3. \A q \in Proc : pc'[q] = "io" => pc[q] = "io" /\ reg'[q] = reg[q]
      BY <1>1, <1>9 DEF iderw_woken, Go, Types
    <2> QED
      BY <1>1, <2>1, <2>2, <2>3 DEF Fresh
  <1>10. CASE ideintr
    <2>1. PICK b \in Buf : b = Head(idequeue) /\ InQueue(b) /\ drive = idestart(b)
      BY <1>1, <1>10, QueueHead DEF ideintr
    <2>2. blockno[b] \in Block
      BY <1>1, <2>1 DEF Queued, Named, Refers, Types
    <2>3. /\ valid' = valid \union {b} /\ dirty' = dirty \ {b}
          /\ disk' = IF b \in dirty THEN [disk EXCEPT ![blockno[b]] = data[b]] ELSE disk
          /\ data' = IF b \in dirty THEN data ELSE [data EXCEPT ![b] = disk[blockno[b]]]
          /\ UNCHANGED <<blockno, held, reg>>
      BY <1>10, <2>1 DEF ideintr, idestart
    <2>4. data'[b] = disk'[blockno[b]]
      BY <1>1, <2>1, <2>2, <2>3 DEF Types
    <2>5. \A c \in valid \ dirty : c # b => data'[c] = disk'[blockno[c]]
      <3> TAKE c \in valid \ dirty
      <3> SUFFICES ASSUME c # b PROVE data'[c] = disk'[blockno[c]]
        OBVIOUS
      <3>1. c \in Buf /\ blockno[c] # blockno[b] /\ blockno[c] \in Block
        BY <1>1, <2>2 DEF Named, Types
      <3>2. data'[c] = data[c] /\ disk'[blockno[c]] = disk[blockno[c]]
        BY <1>1, <2>2, <2>3, <3>1 DEF Types
      <3> QED
        BY <1>1, <3>2 DEF Fresh
    <2>6. \A q \in Proc : pc'[q] = "io" => pc[q] = "io" \/ reg[q] = b
      BY <1>1, <1>10, <2>1 DEF ideintr, Woken, Types
    <2>7. dirty' \subseteq valid' /\ \A q \in Proc : held'[q] \subseteq valid'
      BY <1>1, <2>3 DEF Fresh
    <2>8. \A c \in valid' \ dirty' : data'[c] = disk'[blockno'[c]]
      BY <2>3, <2>4, <2>5
    <2>9. \A q \in Proc : pc'[q] = "io" => reg'[q] \in valid' \ dirty'
      BY <1>1, <2>3, <2>6 DEF Fresh
    <2> QED
      BY <2>7, <2>8, <2>9 DEF Fresh
  <1>11. CASE UNCHANGED vars
    BY <1>1, <1>11 DEF vars, cache, driver, place, Fresh
  <1> QED
    BY <1>3, <1>4, <1>5, <1>6, <1>7, <1>8, <1>9, <1>10, <1>11 DEF Next

\* Steps that leave the driver, its sleepers and the queued buffers alone.
LEMMA QueuedKept ==
  ASSUME Types, Queued, UNCHANGED <<idequeue, drive>>,
         \A b \in Buf : InQueue(b) =>
             data'[b] = data[b] /\ blockno'[b] = blockno[b] /\ (b \in dirty' <=> b \in dirty),
         \A q \in Proc, b \in Buf :
             pc'[q] = "iosleep" /\ reg'[q] = b <=> pc[q] = "iosleep" /\ reg[q] = b
  PROVE  Queued'
  <1>1. \A b \in Buf : InQueue(b)' <=> InQueue(b)
    BY DEF InQueue
  <1>2. NoTwice(idequeue)'
    BY DEF Queued, NoTwice
  <1>3. IF idequeue = << >> THEN drive' = None ELSE drive' = idestart(Head(idequeue))'
    <2>1. CASE idequeue = << >>
      BY <2>1 DEF Queued
    <2>2. CASE idequeue # << >>
      <3>1. PICK b \in Buf : b = Head(idequeue) /\ InQueue(b)
        <4>1. Head(idequeue) \in Buf /\ Len(idequeue) \in Nat \ {0} /\ Head(idequeue) = idequeue[1]
          BY <2>2 DEF Types
        <4> QED
          BY <4>1 DEF InQueue
      <3>2. idestart(b)' = idestart(b)
        BY <3>1 DEF idestart
      <3>3. idestart(Head(idequeue))' = idestart(b)'
        BY <3>1 DEF idestart
      <3> QED
        BY <2>2, <3>1, <3>2, <3>3 DEF Queued
    <2> QED
      BY <2>1, <2>2
  <1> QED
    BY <1>1, <1>2, <1>3 DEF Queued

LEMMA QueuedStep ==
  ASSUME Inv, [Next]_vars
  PROVE  Queued'
  <1>1. Types /\ Places /\ Named /\ Queued
    BY DEF Inv
  <1>2. \A q \in Proc : pc[q] # "run" => reg[q] \in Buf
    BY <1>1, RegBuf
  <1>3. ASSUME NEW p \in Proc, NEW k \in Block, bget_cached(p, k) PROVE Queued'
    <2>1. UNCHANGED <<idequeue, drive, data, blockno, dirty>>
      BY <1>3 DEF bget_cached, driver
    <2>2. \A q \in Proc, b \in Buf :
             pc'[q] = "iosleep" /\ reg'[q] = b <=> pc[q] = "iosleep" /\ reg[q] = b
      BY <1>1, <1>3 DEF bget_cached, MayTake, Go, Types
    <2> QED
      BY <1>1, <2>1, <2>2, QueuedKept
  <1>4. ASSUME NEW p \in Proc, NEW k \in Block, bget_recycle(p, k) PROVE Queued'
    <2>1. PICK b \in Buf : /\ Unused(b) /\ Go(p, "lock", b) /\ blockno' = [blockno EXCEPT ![b] = k]
      BY <1>4 DEF bget_recycle, Oldest
    <2>2. \A q \in Proc : ~Refers(q, b)
      BY <2>1, UnusedRefers DEF Unused, Referring
    <2>3. UNCHANGED <<idequeue, drive, data, dirty>>
      BY <1>4 DEF bget_recycle, driver
    <2>4. \A c \in Buf : InQueue(c) => blockno'[c] = blockno[c]
      BY <1>1, <2>1, <2>2 DEF Queued, Refers, Types
    <2>5. \A q \in Proc, c \in Buf :
             pc'[q] = "iosleep" /\ reg'[q] = c <=> pc[q] = "iosleep" /\ reg[q] = c
      BY <1>1, <1>4, <2>1 DEF bget_recycle, MayTake, Go, Types
    <2> QED
      BY <1>1, <2>3, <2>4, <2>5, QueuedKept
  <1>5. ASSUME NEW p \in Proc, acquiresleep(p) PROVE Queued'
    <2>1. UNCHANGED <<idequeue, drive, data, blockno, dirty>>
      BY <1>5 DEF acquiresleep, cache, driver
    <2>2. \A q \in Proc, b \in Buf :
             pc'[q] = "iosleep" /\ reg'[q] = b <=> pc[q] = "iosleep" /\ reg[q] = b
      BY <1>1, <1>5 DEF acquiresleep, Go, Types
    <2> QED
      BY <1>1, <2>1, <2>2, QueuedKept
  <1>6. ASSUME NEW p \in Proc, NEW b \in Buf, NEW d \in Data, log_write(p, b, d) \/ bwrite(p, b, d)
        PROVE  Queued'
    <2>1. /\ data' = [data EXCEPT ![b] = d] /\ dirty' = dirty \union {b} /\ Uses(p, b)
          /\ UNCHANGED <<idequeue, drive, blockno>>
      BY <1>6 DEF log_write, bwrite, driver
    <2>2. \A q \in Proc : pc[q] = "iosleep" => reg[q] # b
      BY <2>1, UserIsAlone DEF Busy
    <2>3. ~InQueue(b)
      BY <1>1, <2>2 DEF Queued
    <2>4. \A c \in Buf : InQueue(c) => data'[c] = data[c] /\ (c \in dirty' <=> c \in dirty)
      BY <1>1, <2>1, <2>3 DEF Types
    <2>5. \A q \in Proc, c \in Buf :
             pc'[q] = "iosleep" /\ reg'[q] = c <=> pc[q] = "iosleep" /\ reg[q] = c
      BY <1>1, <1>6 DEF log_write, bwrite, Uses, place, Go, Types
    <2> QED
      BY <1>1, <2>1, <2>4, <2>5, QueuedKept
  <1>7. ASSUME NEW p \in Proc, NEW b \in Buf, brelse(p, b) PROVE Queued'
    <2>1. UNCHANGED <<idequeue, drive, data, blockno, dirty>>
      BY <1>7 DEF brelse, cache, driver
    <2>2. \A q \in Proc, c \in Buf :
             pc'[q] = "iosleep" /\ reg'[q] = c <=> pc[q] = "iosleep" /\ reg[q] = c
      BY <1>1, <1>7 DEF brelse, Uses, Woken, Types
    <2> QED
      BY <1>1, <2>1, <2>2, QueuedKept
  <1>8. ASSUME NEW p \in Proc, brelse_drop(p) PROVE Queued'
    <2>1. UNCHANGED <<idequeue, drive, data, blockno, dirty>>
      BY <1>8 DEF brelse_drop, driver
    <2>2. \A q \in Proc, c \in Buf :
             pc'[q] = "iosleep" /\ reg'[q] = c <=> pc[q] = "iosleep" /\ reg[q] = c
      BY <1>1, <1>8 DEF brelse_drop, Go, Types
    <2> QED
      BY <1>1, <2>1, <2>2, QueuedKept
  <1>9. ASSUME NEW p \in Proc, iderw(p) PROVE Queued'
    <2>1. PICK b \in Buf : b = reg[p] /\ pc[p] = "rw"
      BY <1>2, <1>9 DEF iderw
    <2>2. \A q \in Proc : pc[q] = "iosleep" => reg[q] # b
      <3> SUFFICES ASSUME NEW q \in Proc, pc[q] = "iosleep", reg[q] = b PROVE FALSE
        OBVIOUS
      <3>1. p = q
        BY <2>1, OneOwner DEF Inv, Owns, Busy
      <3> QED
        BY <2>1, <3>1
    <2>3. ~InQueue(b)
      BY <1>1, <2>2 DEF Queued
    <2>4. /\ idequeue \in Seq(Buf) /\ Len(idequeue) \in Nat
          /\ idequeue' = Append(idequeue, b)
          /\ UNCHANGED <<data, blockno, dirty>>
          /\ Go(p, "iosleep", b)
          /\ drive' = IF idequeue = << >> THEN idestart(b) ELSE drive
      BY <1>1, <1>9, <2>1 DEF iderw, cache, Types
    <2>5. /\ Len(idequeue') = Len(idequeue) + 1
          /\ \A i \in 1..Len(idequeue) : idequeue'[i] = idequeue[i]
          /\ idequeue'[Len(idequeue) + 1] = b
      BY <2>4, AppendProperties
    <2>6. NoTwice(idequeue)'
      BY <1>1, <2>3, <2>4, <2>5 DEF Queued, NoTwice, InQueue
    <2>7. \A c \in Buf : InQueue(c)' <=> InQueue(c) \/ c = b
      BY <2>4, <2>5 DEF InQueue
    <2>8. \A c \in Buf : InQueue(c)' <=> \E q \in Proc : pc'[q] = "iosleep" /\ reg'[q] = c
      BY <1>1, <2>1, <2>4, <2>7 DEF Queued, Go, Types
    <2>9. idequeue' # << >> /\ drive' = idestart(Head(idequeue'))
      <3>1. CASE idequeue = << >>
        BY <2>4, <3>1
      <3>2. CASE idequeue # << >>
        <4>1. Head(idequeue') = Head(idequeue) /\ idequeue' # << >>
          BY <2>4, <3>2
        <4> QED
          BY <1>1, <2>4, <3>2, <4>1 DEF Queued
      <3> QED
        BY <3>1, <3>2
    <2>10. idestart(Head(idequeue))' = idestart(Head(idequeue'))
      BY <2>4 DEF idestart
    <2> QED
      BY <2>6, <2>8, <2>9, <2>10 DEF Queued
  <1>10. ASSUME NEW p \in Proc, iderw_woken(p) PROVE Queued'
    <2>1. UNCHANGED <<idequeue, drive, data, blockno, dirty>>
      BY <1>10 DEF iderw_woken, cache, driver
    <2>2. reg[p] \in valid \ dirty /\ pc[p] = "io"
      BY <1>10 DEF iderw_woken, Inv, Fresh
    <2>3. \A q \in Proc, c \in Buf :
             pc'[q] = "iosleep" /\ reg'[q] = c <=> pc[q] = "iosleep" /\ reg[q] = c
      BY <1>1, <1>10, <2>2 DEF iderw_woken, Go, Types
    <2> QED
      BY <1>1, <2>1, <2>3, QueuedKept
  <1>11. CASE ideintr
    <2>1. drive # None
      BY <1>11 DEF ideintr
    <2>2. PICK b \in Buf : b = Head(idequeue)
      BY <1>1, <2>1, QueueHead
    <2> DEFINE rest == Tail(idequeue)
    <2>3. /\ rest \in Seq(Buf) /\ Len(rest) \in Nat /\ Len(idequeue) = Len(rest) + 1
          /\ \A i \in 1..Len(rest) : rest[i] = idequeue[i + 1]
          /\ idequeue[1] = b
      BY <1>1, <2>1, <2>2, QueueHead
    <2>4. /\ idequeue' = rest /\ blockno' = blockno /\ reg' = reg
          /\ dirty' = dirty \ {b}
          /\ \A c \in Buf : c # b => data'[c] = data[c]
          /\ pc' = Woken("iosleep", b, "io")
          /\ drive' = IF rest = << >> THEN None ELSE idestart(Head(rest))
      BY <1>1, <1>11, <2>2 DEF ideintr, Types
    <2>5. rest = << >> \/ (Head(rest) = rest[1] /\ Head(rest) \in Buf /\ Len(rest) > 0)
      BY <2>3
    <2> HIDE DEF rest
    <2>6. NoTwice(rest)
      BY <1>1, <2>3 DEF Queued, NoTwice
    <2>7. \A i \in 1..Len(rest) : rest[i] # b
      BY <1>1, <2>3 DEF Queued, NoTwice
    <2>8. \A c \in Buf : (\E i \in 1..Len(rest) : rest[i] = c) <=> InQueue(c) /\ c # b
      <3> TAKE c \in Buf
      <3>1. ASSUME NEW i \in 1..Len(rest), rest[i] = c PROVE InQueue(c) /\ c # b
        BY <2>3, <2>7, <3>1 DEF InQueue
      <3>2. ASSUME NEW i \in 1..Len(idequeue), idequeue[i] = c, c # b
            PROVE  \E j \in 1..Len(rest) : rest[j] = c
        <4>1. i # 1 /\ i - 1 \in 1..Len(rest)
          BY <2>3, <3>2
        <4>2. rest[i - 1] = c
          BY <2>3, <3>2, <4>1
        <4> QED
          BY <4>1, <4>2
      <3> QED
        BY <3>1, <3>2 DEF InQueue
    <2>9. \A c \in Buf : InQueue(c)' <=> InQueue(c) /\ c # b
      BY <2>4, <2>8 DEF InQueue
    <2>10. \A q \in Proc, c \in Buf :
             pc'[q] = "iosleep" /\ reg'[q] = c <=> pc[q] = "iosleep" /\ reg[q] = c /\ c # b
      BY <1>1, <2>4 DEF Woken, Types
    <2>11. rest # << >> => idestart(Head(idequeue))' = idestart(Head(rest))
      <3> SUFFICES ASSUME rest # << >> PROVE idestart(Head(idequeue))' = idestart(Head(rest))
        OBVIOUS
      <3>1. PICK c \in Buf : c = Head(rest) /\ c # b
        BY <2>3, <2>5, <2>7
      <3>2. data'[c] = data[c] /\ (c \in dirty' <=> c \in dirty) /\ blockno' = blockno
        BY <2>4, <3>1
      <3> QED
        BY <2>4, <3>1, <3>2 DEF idestart
    <2>12. \A c \in Buf : InQueue(c)' <=> \E q \in Proc : pc'[q] = "iosleep" /\ reg'[q] = c
      BY <1>1, <2>9, <2>10 DEF Queued
    <2> QED
      BY <2>4, <2>6, <2>11, <2>12 DEF Queued
  <1>12. CASE UNCHANGED vars
    BY <1>1, <1>12, QueuedKept DEF vars, cache, driver, place
  <1> QED
    BY <1>3, <1>4, <1>5, <1>6, <1>7, <1>8, <1>9, <1>10, <1>11, <1>12 DEF Next

-----------------------------------------------------------------------------
LEMMA InvStep == Inv /\ [Next]_vars => Inv'
  BY TypesStep, PlacesStep, CountedStep, NamedStep, LockedStep, FreshStep, QueuedStep, WaitingStep
     DEF Inv

(* Reference counts, sleep locks, flags, the queue and the drive agree        *)
(* between any two critical sections of bio.c, sleeplock.c and ide.c: a block *)
(* is in one buffer at most, a buffer in use is never recycled, and one that  *)
(* is valid and clean is what the disk has.                                   *)
THEOREM CacheConsistent == Spec => []Inv
  <1> QED
    BY InvInit, InvStep, PTL DEF Spec

LEMMA InvSleepers == Inv => SleepersHaveWaker
  <1> SUFFICES ASSUME Inv PROVE SleepersHaveWaker
    OBVIOUS
  <1>1. Types /\ Places /\ Locked /\ Queued /\ Waiting
    BY DEF Inv
  <1>2. ASSUME NEW p \in Proc, pc[p] = "locksleep" PROVE lock[reg[p]] \notin {None, p}
    <2>1. reg[p] \in Buf /\ reg[p] \notin held[p]
      BY <1>1, <1>2, RegBuf DEF Places
    <2>2. ~Owns(p, reg[p])
      BY <1>2, <2>1 DEF Owns, Busy
    <2> QED
      BY <1>1, <1>2, <2>1, <2>2 DEF Locked, Waiting
  <1>3. ASSUME NEW p \in Proc, pc[p] = "iosleep"
        PROVE  \E i \in DOMAIN idequeue : idequeue[i] = reg[p]
    <2>1. reg[p] \in Buf /\ InQueue(reg[p])
      BY <1>1, <1>3, RegBuf DEF Queued
    <2>2. DOMAIN idequeue = 1..Len(idequeue)
      BY <1>1 DEF Types
    <2> QED
      BY <2>1, <2>2 DEF InQueue
  <1> QED
    BY <1>1, <1>2, <1>3 DEF SleepersHaveWaker, Queued

(* Whoever sleeps in acquiresleep or iderw will be woken: the lock he waits   *)
(* for is another's, his request is queued and the drive works on the first.  *)
THEOREM SleepersWillBeWoken == Spec => []SleepersHaveWaker
  <1> QED
    BY CacheConsistent, InvSleepers, PTL

-----------------------------------------------------------------------------
(* There is a buffer to recycle                                               *)

\* Every buffer is in the list.
InLine ==
    /\ lru \in Seq(Buf)
    /\ \A b \in Buf : \E i \in 1..Len(lru) : lru[i] = b

LEMMA ToFrontKeeps ==
  ASSUME InLine, NEW b \in Buf
  PROVE  /\ ToFront(b) \in Seq(Buf)
         /\ \A c \in Buf : \E i \in 1..Len(ToFront(b)) : ToFront(b)[i] = c
  <1>1. PICK n : n = Len(lru)
    OBVIOUS
  <1>2. n \in Nat /\ DOMAIN lru = 1..n /\ \A i \in 1..n : lru[i] \in Buf
    BY <1>1 DEF InLine
  <1>3. PICK at : at = CHOOSE i \in DOMAIN lru : lru[i] = b
    OBVIOUS
  <1>4. at \in 1..n /\ lru[at] = b
    BY <1>1, <1>2, <1>3 DEF InLine
  <1>5. PICK t : t = ToFront(b)
    OBVIOUS
  <1>6. t = [i \in 1..n |-> IF i = 1 THEN b ELSE IF i <= at THEN lru[i - 1] ELSE lru[i]]
    BY <1>2, <1>3, <1>5 DEF ToFront
  <1>7. \A i \in 1..n : t[i] \in Buf
    BY <1>2, <1>4, <1>6
  <1>8. t \in Seq(Buf) /\ Len(t) = n
    <2>1. t \in [1..n -> Buf]
      BY <1>6, <1>7
    <2> QED
      BY <1>2, <2>1
  <1>9. ASSUME NEW c \in Buf PROVE \E i \in 1..n : t[i] = c
    <2>1. PICK i \in 1..n : lru[i] = c
      BY <1>1 DEF InLine
    <2>2. CASE i < at
      <3>1. i + 1 \in 1..n /\ i + 1 # 1 /\ i + 1 <= at /\ (i + 1) - 1 = i
        BY <1>2, <1>4, <2>2
      <3> QED
        BY <1>6, <2>1, <3>1
    <2>3. CASE i = at
      <3>1. 1 \in 1..n /\ t[1] = b
        BY <1>2, <1>4, <1>6
      <3> QED
        BY <1>4, <2>1, <2>3, <3>1
    <2>4. CASE i > at
      <3>1. i # 1 /\ ~(i <= at)
        BY <1>2, <1>4, <2>4
      <3> QED
        BY <1>6, <2>1, <3>1
    <2> QED
      BY <1>2, <1>4, <2>2, <2>3, <2>4
  <1> QED
    BY <1>5, <1>8, <1>9

LEMMA InLineStep ==
  ASSUME Inv, InLine, [Next]_vars
  PROVE  InLine'
  <1>1. Types /\ Places
    BY DEF Inv
  <1>2. ASSUME NEW p \in Proc, brelse_drop(p) PROVE InLine'
    <2>1. PICK b \in Buf : b = reg[p]
      BY <1>1, <1>2, RegBuf DEF brelse_drop
    <2>2. lru' = ToFront(b) \/ lru' = lru
      BY <1>2, <2>1 DEF brelse_drop
    <2>3. CASE lru' = ToFront(b)
      BY <2>3, ToFrontKeeps DEF InLine
    <2> QED
      BY <2>2, <2>3 DEF InLine
  <1>3. CASE lru' = lru
    BY <1>3 DEF InLine
  <1> QED
    BY <1>2, <1>3 DEF Next, vars, cache, ideintr, acquiresleep, iderw, iderw_woken, bget_cached,
       bget_recycle, brelse, log_write, bwrite

LEMMA InLineInit == Init => InLine
  <1> SUFFICES ASSUME Init PROVE InLine
    OBVIOUS
  <1>1. NBUF \in Nat \ {0}
    BY ConstantsAssumption
  <1>2. lru = [i \in 1..NBUF |-> NBUF + 1 - i]
    BY DEF Init, binit, Buf
  <1>3. \A i \in 1..NBUF : NBUF + 1 - i \in 1..NBUF /\ NBUF + 1 - (NBUF + 1 - i) = i
    BY <1>1
  <1>4. lru \in Seq(Buf) /\ Len(lru) = NBUF
    <2>1. lru \in [1..NBUF -> Buf]
      BY <1>2, <1>3 DEF Buf
    <2> QED
      BY <1>1, <2>1
  <1>5. \A b \in Buf : \E i \in 1..NBUF : lru[i] = b
    BY <1>2, <1>3 DEF Buf
  <1> QED
    BY <1>4, <1>5 DEF InLine

LEMMA LoadStep ==
  ASSUME load \in Load, [Next]_vars
  PROVE  load' \in Load
  BY DEF Next, vars, ideintr, acquiresleep, iderw, iderw_woken, bget_cached, bget_recycle, brelse,
         brelse_drop, log_write, bwrite

\* A buffer that nobody has taken has no reference.
LEMMA NotTakenUnused ==
  ASSUME Inv, NEW b \in Buf, ~Taken(b)
  PROVE  Unused(b)
  <1>1. Referring(b) = {}
    BY DEF Taken, Referring, Refers
  <1>2. refcnt[b] = 0
    BY <1>1, FS_EmptySet DEF Inv, Counted
  <1> QED
    BY <1>2 DEF Taken, Unused

\* A set of positions that is not empty has a last one: among n elements each
\* rank from the end is somebody's.
LEMMA LastOne ==
  ASSUME NEW n \in Nat, NEW U \in SUBSET (1..n), U # {}
  PROVE  \E i \in U : \A j \in i + 1..n : j \notin U
  <1> DEFINE from(i) == {j \in U : j >= i}
             f == [i \in U |-> Cardinality(from(i))]
  <1>1. /\ IsFiniteSet(U) /\ Cardinality(U) \in Nat /\ Cardinality(U) # 0
        /\ \A i \in U : i \in Int
    <2>1. IsFiniteSet(1..n)
      BY FS_Interval
    <2>2. IsFiniteSet(U)
      BY <2>1, FS_Subset
    <2> QED
      BY <2>2, FS_CardinalityType, FS_EmptySet
  <1>2. \A i \in U : IsFiniteSet(from(i)) /\ Cardinality(from(i)) \in Nat
    <2>1. \A i \in U : from(i) \in SUBSET U
      OBVIOUS
    <2> HIDE DEF from
    <2> QED
      BY <1>1, <2>1, FS_Subset, FS_CardinalityType
  <1>3. ASSUME NEW i \in U PROVE f[i] \in 1..Cardinality(U)
    <2>1. from(i) \in SUBSET U /\ i \in from(i)
      BY <1>1
    <2>2. PICK m : m = Cardinality(from(i))
      OBVIOUS
    <2>3. f[i] = m
      BY <2>2
    <2> HIDE DEF from, f
    <2>4. m \in Nat /\ m <= Cardinality(U) /\ m # 0
      BY <1>1, <1>2, <2>1, <2>2, FS_Subset, FS_EmptySet
    <2>5. m \in 1..Cardinality(U)
      BY <1>1, <2>4
    <2> QED
      BY <2>3, <2>5
  <1>4. ASSUME NEW i \in U, NEW k \in U, i < k PROVE f[k] < f[i]
    <2>1. from(k) \subseteq from(i) \ {i} /\ i \in from(i)
      <3>1. i \in Int /\ k \in Int
        BY <1>1
      <3>2. i \in from(i)
        BY <3>1
      <3>3. ASSUME NEW j \in U, j >= k PROVE j >= i /\ j # i
        BY <1>1, <1>4, <3>1, <3>3
      <3> HIDE DEF f
      <3> QED
        BY <3>2, <3>3
    <2> HIDE DEF from
    <2>2. IsFiniteSet(from(i) \ {i}) /\ Cardinality(from(i) \ {i}) = Cardinality(from(i)) - 1
      BY <1>2, <2>1, FS_RemoveElement
    <2>3. Cardinality(from(k)) <= Cardinality(from(i) \ {i})
      BY <2>1, <2>2, FS_Subset
    <2> QED
      BY <1>2, <2>2, <2>3
  <1>5. f \in Injection(U, 1..Cardinality(U))
    <2>1. f \in [U -> 1..Cardinality(U)]
      BY <1>3
    <2>2. ASSUME NEW i \in U, NEW k \in U, f[i] = f[k] PROVE i = k
      <3>1. i \in Int /\ k \in Int /\ f[i] \in Int
        BY <1>1, <1>3
      <3> HIDE DEF f
      <3>2. ~(i < k) /\ ~(k < i)
        BY <1>4, <2>2, <3>1
      <3> QED
        BY <3>1, <3>2
    <2> HIDE DEF f
    <2> QED
      BY <2>1, <2>2, Fun_IsInj
  <1>6. f \in Surjection(U, 1..Cardinality(U))
    <2> HIDE DEF f
    <2>1. IsFiniteSet(1..Cardinality(U)) /\ Cardinality(1..Cardinality(U)) = Cardinality(U)
      BY <1>1, FS_Interval
    <2> QED
      BY <1>5, <2>1, FS_Injection
  <1>7. PICK i \in U : f[i] = 1
    <2>1. 1 \in 1..Cardinality(U)
      BY <1>1
    <2> HIDE DEF f
    <2>2. \A t \in 1..Cardinality(U) : \E i \in U : f[i] = t
      BY <1>6, Fun_SurjectionProperties
    <2> QED
      BY <2>1, <2>2
  <1>8. PICK x : from(i) = {x}
    <2> HIDE DEF from
    <2> QED
      BY <1>2, <1>7, FS_Singleton
  <1>9. ASSUME NEW j \in i + 1..n, j \in U PROVE FALSE
    <2>1. j \in from(i) /\ i \in from(i) /\ i # j
      BY <1>1, <1>9
    <2> QED
      BY <1>8, <2>1
  <1> QED
    BY <1>9

LEMMA OldestExists ==
  ASSUME Inv, InLine
  PROVE  ShortOnlyWhenAllTaken
  <1> SUFFICES ASSUME NEW c \in Buf, ~Taken(c)
               PROVE  \E b \in Buf : Oldest(b)
    BY DEF ShortOnlyWhenAllTaken
  <1>1. Unused(c)
    BY NotTakenUnused
  <1>2. PICK n : n = Len(lru)
    OBVIOUS
  <1>3. n \in Nat /\ DOMAIN lru = 1..n /\ \A i \in 1..n : lru[i] \in Buf
    BY <1>2 DEF InLine
  <1>4. PICK U : U = {i \in 1..n : Unused(lru[i])}
    OBVIOUS
  <1>5. U \in SUBSET (1..n) /\ U # {}
    <2>1. PICK i \in 1..n : lru[i] = c
      BY <1>2 DEF InLine
    <2> QED
      BY <1>1, <1>4, <2>1
  <1>6. PICK i \in U : \A j \in i + 1..n : j \notin U
    BY <1>3, <1>5, LastOne
  <1>7. ASSUME NEW j \in i + 1..n PROVE ~Unused(lru[j])
    <2>1. j \in 1..n
      BY <1>3, <1>5, <1>6
    <2> QED
      BY <1>4, <1>6, <2>1
  <1>8. i \in 1..n /\ Unused(lru[i]) /\ lru[i] \in Buf
    BY <1>3, <1>4
  <1> QED
    BY <1>2, <1>3, <1>7, <1>8 DEF Oldest

LEMMA InLineInvariant == Spec => [](Inv /\ InLine /\ load \in Load)
  <1>1. Init => Inv /\ InLine /\ load \in Load
    BY InvInit, InLineInit DEF Init
  <1>2. (Inv /\ InLine /\ load \in Load) /\ [Next]_vars => (Inv /\ InLine /\ load \in Load)'
    BY InvStep, InLineStep, LoadStep
  <1> QED
    BY <1>1, <1>2, PTL DEF Spec

(* The variables keep their types; the drive has a command for a block of the *)
(* disk, the list is one of buffers.                                          *)
THEOREM TypeCorrect == Spec => []TypeOK
  <1>1. Inv /\ InLine /\ load \in Load => TypeOK
    <2> SUFFICES ASSUME Inv, InLine, load \in Load PROVE TypeOK
      OBVIOUS
    <2>1. Types /\ Named /\ Queued
      BY DEF Inv
    <2>2. drive \in [write : BOOLEAN, blockno : Block, data : Data] \union {None}
      <3>1. CASE idequeue = << >>
        BY <2>1, <3>1 DEF Queued
      <3>2. CASE idequeue # << >>
        <4>1. PICK b : b = Head(idequeue)
          OBVIOUS
        <4>2. b \in Buf /\ InQueue(b) /\ drive = idestart(b)
          BY <2>1, <3>2, <4>1 DEF Types, Queued, InQueue
        <4>3. PICK p \in Proc : reg[p] = b
          BY <2>1, <4>2 DEF Queued
        <4>4. blockno[b] \in Block /\ data[b] \in Data
          BY <2>1, <4>2, <4>3 DEF Named, Refers, Types
        <4> QED
          BY <4>2, <4>4 DEF idestart
      <3> QED
        BY <3>1, <3>2
    <2> QED
      BY <2>1, <2>2 DEF Types, TypeOK, InLine
  <1> QED
    BY <1>1, InLineInvariant, PTL

(* bget panics for want of a buffer (bio.c:92) only when each of them is      *)
(* pinned by the log or in the hands of a process, for every number of        *)
(* processes and buffers and whatever they ask for: reference counts come     *)
(* back to zero however the calls overlap, and every buffer is in the list.   *)
THEOREM BgetPanicsOnlyWhenAllTaken == Spec => []ShortOnlyWhenAllTaken
  <1>1. Inv /\ InLine => ShortOnlyWhenAllTaken
    BY OldestExists
  <1> QED
    BY <1>1, InLineInvariant, PTL

-----------------------------------------------------------------------------
(* Every block is a register                                                  *)

ContentsIn(bn, v, d, ds, k) ==
    IF \E b \in v : bn[b] = k THEN d[CHOOSE b \in v : bn[b] = k] ELSE ds[k]
UserIn(bn, h, k) ==
    IF \E p \in Proc : \E b \in h[p] : bn[b] = k
    THEN CHOOSE p \in Proc : \E b \in h[p] : bn[b] = k
    ELSE None

LEMMA ValidContents ==
  ASSUME NEW bn, NEW v, NEW d, NEW ds, NEW b \in v,
         \A c \in v : bn[c] = bn[b] => c = b
  PROVE  ContentsIn(bn, v, d, ds, bn[b]) = d[b]
  <1>1. (CHOOSE c \in v : bn[c] = bn[b]) = b
    OBVIOUS
  <1> QED
    BY <1>1 DEF ContentsIn

LEMMA OnlyUser ==
  ASSUME NEW bn, NEW h, NEW p \in Proc, NEW b \in h[p],
         \A q \in Proc : \A c \in h[q] : bn[c] = bn[b] => q = p
  PROVE  UserIn(bn, h, bn[b]) = p
  <1> DEFINE Has(q) == \E c \in h[q] : bn[c] = bn[b]
  <1>1. Has(p) /\ \A q \in Proc : Has(q) => q = p
    OBVIOUS
  <1>2. (CHOOSE q \in Proc : Has(q)) = p
    BY <1>1
  <1> QED
    BY <1>1, <1>2 DEF UserIn

\* A register holds what its valid buffer holds, or else what the disk holds,
\* and belongs to the process that holds its buffer.
Registered ==
    /\ \A b \in valid : Contents(blockno[b]) = data[b]
    /\ \A k \in Block : (\A b \in valid : blockno[b] # k) => Contents(k) = disk[k]
    /\ \A p \in Proc : \A b \in held[p] : UserOf(blockno[b]) = p
    /\ \A k \in Block : (\A p \in Proc : \A b \in held[p] : blockno[b] # k) => UserOf(k) = None

LEMMA OneHolder ==
  ASSUME Inv, NEW p \in Proc, NEW b \in held[p], NEW q \in Proc, NEW c \in held[q],
         blockno[c] = blockno[b]
  PROVE  q = p /\ c = b
  <1>1. b \in Buf /\ c \in Buf /\ Refers(p, b)
    BY DEF Inv, Types, Refers
  <1>2. b = c
    BY <1>1 DEF Inv, Named
  <1>3. Owns(p, b) /\ Owns(q, b)
    BY <1>2 DEF Owns
  <1> QED
    BY <1>1, <1>2, <1>3, OneOwner DEF Inv

LEMMA InvRegistered == Inv => Registered
  <1> SUFFICES ASSUME Inv PROVE Registered
    OBVIOUS
  <1>1. /\ \A k : Contents(k) = ContentsIn(blockno, valid, data, disk, k)
        /\ \A k : UserOf(k) = UserIn(blockno, held, k)
    BY DEF Contents, ContentsIn, UserOf, UserIn, Cached
  <1>2. \A b, c \in valid : blockno[c] = blockno[b] => c = b
    BY DEF Inv, Types, Named
  <1>3. \A b \in valid : Contents(blockno[b]) = data[b]
    BY <1>1, <1>2, ValidContents
  <1>4. \A p \in Proc : \A b \in held[p] : UserOf(blockno[b]) = p
    BY <1>1, OneHolder, OnlyUser
  <1>5. \A k \in Block : (\A b \in valid : blockno[b] # k) => Contents(k) = disk[k]
    BY <1>1 DEF ContentsIn
  <1>6. \A k \in Block : (\A p \in Proc : \A b \in held[p] : blockno[b] # k) => UserOf(k) = None
    BY <1>1 DEF UserIn
  <1> QED
    BY <1>3, <1>4, <1>5, <1>6 DEF Registered

LEMMA RegisteredNext ==
  ASSUME Inv, [Next]_vars
  PROVE  Registered /\ Registered'
  BY InvStep, InvRegistered, PTL

Val == [k \in Block |-> Contents(k)]
Owner == [k \in Block |-> UserOf(k)]

LEMMA RegisterSteps ==
  /\ Val' = Val /\ Owner' = Owner => UNCHANGED Registers!vars
  /\ \A p \in Proc, k \in Block :
         /\ Val' = Val /\ Owner[k] = None /\ Owner' = [Owner EXCEPT ![k] = p] => Registers!Next
  /\ \A p \in Proc, k \in Block :
         /\ Val' = Val /\ Owner[k] = p /\ Owner' = [Owner EXCEPT ![k] = None] => Registers!Next
  /\ \A p \in Proc, k \in Block, d \in Data :
         /\ Owner' = Owner /\ Owner[k] = p /\ Val' = [Val EXCEPT ![k] = d] => Registers!Next
  BY DEF Val, Owner, Registers!vars, Registers!Next, Registers!Take, Registers!Give,
         Registers!Change

LEMMA SameVal ==
  ASSUME UNCHANGED <<blockno, valid, data, disk>>
  PROVE  Val' = Val
  BY DEF Val, Contents, Cached

LEMMA SameOwner ==
  ASSUME UNCHANGED <<blockno, held>>
  PROVE  Owner' = Owner
  BY DEF Owner, UserOf, Cached

\* A process gets a buffer that nobody holds.
LEMMA RefinesTake ==
  ASSUME Inv, [Next]_vars, NEW p \in Proc, NEW b \in Buf, blockno[b] \in Block,
         \A q \in Proc : b \notin held[q],
         held' = [held EXCEPT ![p] = @ \union {b}],
         UNCHANGED <<blockno, valid, data, disk>>
  PROVE  Registers!Next
  <1>1. Types /\ Named /\ Registered /\ Registered'
    BY RegisteredNext DEF Inv
  <1> DEFINE k == blockno[b]
  <1>2. \A c \in Buf : blockno[c] = k => c = b
    <2>1. blockno[b] # None
      BY ConstantsAssumption
    <2> QED
      BY <1>1, <2>1 DEF Named
  <1>3. \A q \in Proc : held[q] \subseteq Buf
    BY <1>1 DEF Types
  <1>4. Owner[k] = None
    BY <1>1, <1>2, <1>3 DEF Registered, Owner
  <1>5. \A j \in Block : UserOf(j)' = IF j = k THEN p ELSE UserOf(j)
    <2> TAKE j \in Block
    <2>1. CASE j = k
      BY <1>1, <2>1 DEF Registered, Types
    <2>2. CASE j # k /\ \E q \in Proc : \E c \in held[q] : blockno[c] = j
      <3>0. PICK q \in Proc : \E c \in held[q] : blockno[c] = j
        BY <2>2
      <3>1. PICK c \in held[q] : blockno[c] = j
        BY <3>0
      <3>2. c \in held'[q] /\ blockno'[c] = j
        BY <1>1, <3>1 DEF Types
      <3>3. UserOf(j) = q /\ UserOf(j)' = q
        BY <1>1, <3>1, <3>2 DEF Registered
      <3> QED
        BY <2>2, <3>3
    <2>3. CASE j # k /\ \A q \in Proc : \A c \in held[q] : blockno[c] # j
      <3>1. \A q \in Proc : \A c \in held'[q] : blockno'[c] # j
        BY <1>1, <2>3 DEF Types
      <3>2. UserOf(j) = None /\ UserOf(j)' = None
        BY <1>1, <2>3, <3>1 DEF Registered
      <3> QED
        BY <2>3, <3>2
    <2> QED
      BY <2>1, <2>2, <2>3
  <1>6. Owner' = [Owner EXCEPT ![k] = p]
    BY <1>5 DEF Owner
  <1> QED
    BY <1>4, <1>6, SameVal, RegisterSteps

LEMMA RefinesGive ==
  ASSUME Inv, [Next]_vars, NEW p \in Proc, NEW b \in Buf, brelse(p, b)
  PROVE  Registers!Next
  <1>1. Types /\ Named /\ Registered /\ Registered'
    BY RegisteredNext DEF Inv
  <1>2. /\ b \in held[p] /\ held' = [held EXCEPT ![p] = @ \ {b}]
        /\ UNCHANGED <<blockno, valid, data, disk>>
    BY DEF brelse, Uses, cache, driver
  <1> DEFINE k == blockno[b]
  <1>3. k \in Block
    BY <1>1, <1>2 DEF Named, Refers, Types
  <1>4. Owner[k] = p
    BY <1>1, <1>2, <1>3 DEF Registered, Owner
  <1>5. \A j \in Block : UserOf(j)' = IF j = k THEN None ELSE UserOf(j)
    <2> TAKE j \in Block
    <2>1. CASE j = k
      <3>1. \A q \in Proc : \A c \in held'[q] : blockno'[c] # j
        <4> SUFFICES ASSUME NEW q \in Proc, NEW c \in held'[q], blockno[c] = k PROVE FALSE
          BY <1>2, <2>1
        <4>1. c \in held[q]
          BY <1>1, <1>2 DEF Types
        <4>2. q = p /\ c = b
          BY <1>2, <4>1, OneHolder
        <4> QED
          BY <1>1, <1>2, <4>2 DEF Types
      <3> QED
        BY <1>1, <2>1, <3>1 DEF Registered
    <2>2. CASE j # k /\ \E q \in Proc : \E c \in held[q] : blockno[c] = j
      <3>0. PICK q \in Proc : \E c \in held[q] : blockno[c] = j
        BY <2>2
      <3>1. PICK c \in held[q] : blockno[c] = j
        BY <3>0
      <3>2. c \in held'[q] /\ blockno'[c] = j
        BY <1>1, <1>2, <2>2, <3>1 DEF Types
      <3>3. UserOf(j) = q /\ UserOf(j)' = q
        BY <1>1, <3>1, <3>2 DEF Registered
      <3> QED
        BY <2>2, <3>3
    <2>3. CASE j # k /\ \A q \in Proc : \A c \in held[q] : blockno[c] # j
      <3>1. \A q \in Proc : \A c \in held'[q] : blockno'[c] # j
        BY <1>1, <1>2, <2>3 DEF Types
      <3>2. UserOf(j) = None /\ UserOf(j)' = None
        BY <1>1, <2>3, <3>1 DEF Registered
      <3> QED
        BY <2>3, <3>2
    <2> QED
      BY <2>1, <2>2, <2>3
  <1>6. Owner' = [Owner EXCEPT ![k] = None]
    BY <1>5 DEF Owner
  <1> QED
    BY <1>2, <1>3, <1>4, <1>6, SameVal, RegisterSteps

LEMMA RefinesChange ==
  ASSUME Inv, [Next]_vars, NEW p \in Proc, NEW b \in Buf, NEW d \in Data,
         log_write(p, b, d) \/ bwrite(p, b, d)
  PROVE  Registers!Next
  <1>1. Types /\ Named /\ Fresh /\ Registered /\ Registered'
    BY RegisteredNext DEF Inv
  <1>2. /\ b \in held[p] /\ data' = [data EXCEPT ![b] = d]
        /\ UNCHANGED <<blockno, valid, disk, held>>
    BY DEF log_write, bwrite, Uses, driver, place
  <1> DEFINE k == blockno[b]
  <1>3. k \in Block /\ b \in valid
    BY <1>1, <1>2 DEF Named, Fresh, Refers, Types
  <1>4. Owner[k] = p
    BY <1>1, <1>2, <1>3 DEF Registered, Owner
  <1>5. \A j \in Block : Contents(j)' = IF j = k THEN d ELSE Contents(j)
    <2> TAKE j \in Block
    <2>1. CASE j = k
      BY <1>1, <1>2, <1>3, <2>1 DEF Registered, Types
    <2>2. CASE j # k /\ \E c \in valid : blockno[c] = j
      <3>1. PICK c \in valid : blockno[c] = j
        BY <2>2
      <3>2. data'[c] = data[c]
        BY <1>1, <1>2, <2>2, <3>1 DEF Types
      <3>3. Contents(j) = data[c] /\ Contents(j)' = data'[c]
        BY <1>1, <1>2, <3>1 DEF Registered
      <3> QED
        BY <2>2, <3>2, <3>3
    <2>3. CASE j # k /\ \A c \in valid : blockno[c] # j
      BY <1>1, <1>2, <2>3 DEF Registered
    <2> QED
      BY <2>1, <2>2, <2>3
  <1>6. Val' = [Val EXCEPT ![k] = d]
    BY <1>5 DEF Val
  <1> QED
    BY <1>2, <1>3, <1>4, <1>6, SameOwner, RegisterSteps

\* A recycled buffer takes nothing with it: the disk has what was in it.
LEMMA RefinesRecycle ==
  ASSUME Inv, [Next]_vars, NEW p \in Proc, NEW n \in Block, bget_recycle(p, n)
  PROVE  UNCHANGED Registers!vars
  <1>1. Types /\ Named /\ Fresh /\ Registered /\ Registered'
    BY RegisteredNext DEF Inv
  <1>2. PICK b \in Buf : /\ Unused(b) /\ blockno' = [blockno EXCEPT ![b] = n]
                         /\ valid' = valid \ {b} /\ UNCHANGED <<data, disk, held>>
    BY DEF bget_recycle, Oldest, driver
  <1>3. \A q \in Proc : b \notin held[q]
    BY <1>2, UnusedRefers DEF Unused, Referring, Refers
  <1>4. \A c \in Buf : c # b => blockno'[c] = blockno[c]
    BY <1>1, <1>2 DEF Types
  <1>5. \A j \in Block : UserOf(j)' = UserOf(j)
    <2> TAKE j \in Block
    <2>1. CASE \E q \in Proc : \E c \in held[q] : blockno[c] = j
      <3>1. PICK q \in Proc : \E c \in held[q] : blockno[c] = j
        BY <2>1
      <3>2. PICK c \in held[q] : blockno[c] = j
        BY <3>1
      <3>3. c \in held'[q] /\ blockno'[c] = j
        BY <1>1, <1>2, <1>3, <1>4, <3>2 DEF Types
      <3> QED
        BY <1>1, <3>2, <3>3 DEF Registered
    <2>2. CASE \A q \in Proc : \A c \in held[q] : blockno[c] # j
      <3>1. \A q \in Proc : \A c \in held'[q] : blockno'[c] # j
        BY <1>1, <1>2, <1>3, <1>4, <2>2 DEF Types
      <3> QED
        BY <1>1, <2>2, <3>1 DEF Registered
    <2> QED
      BY <2>1, <2>2
  <1>6. \A j \in Block : Contents(j)' = Contents(j)
    <2> TAKE j \in Block
    <2>1. CASE \E c \in valid : c # b /\ blockno[c] = j
      <3>1. PICK c \in valid : c # b /\ blockno[c] = j
        BY <2>1
      <3>2. c \in valid' /\ blockno'[c] = j
        BY <1>1, <1>2, <1>4, <3>1 DEF Types
      <3> QED
        BY <1>1, <1>2, <3>1, <3>2 DEF Registered
    <2>2. CASE \A c \in valid : c # b => blockno[c] # j
      <3>1. \A c \in valid' : blockno'[c] # j
        BY <1>1, <1>2, <1>4, <2>2 DEF Types
      <3>2. Contents(j)' = disk[j]
        BY <1>1, <1>2, <3>1 DEF Registered
      <3>3. CASE b \in valid /\ blockno[b] = j
        BY <1>1, <1>2, <3>2, <3>3 DEF Registered, Fresh, Unused
      <3>4. CASE ~(b \in valid /\ blockno[b] = j)
        BY <1>1, <2>2, <3>2, <3>4 DEF Registered
      <3> QED
        BY <3>3, <3>4
    <2> QED
      BY <2>1, <2>2
  <1>7. Val' = Val /\ Owner' = Owner
    BY <1>5, <1>6 DEF Val, Owner
  <1> QED
    BY <1>7, RegisterSteps

\* What the drive has done changes no contents: it wrote what the buffer holds,
\* or read what was there.
LEMMA RefinesInterrupt ==
  ASSUME Inv, [Next]_vars, ideintr
  PROVE  UNCHANGED Registers!vars
  <1>1. Types /\ Named /\ Fresh /\ Queued /\ Registered /\ Registered'
    BY RegisteredNext DEF Inv
  <1>2. PICK b \in Buf : b = Head(idequeue) /\ InQueue(b) /\ drive = idestart(b)
    BY <1>1, QueueHead DEF ideintr
  <1>3. blockno[b] \in Block
    BY <1>1, <1>2 DEF Queued, Named, Refers, Types
  <1>4. /\ valid' = valid \union {b}
        /\ disk' = IF b \in dirty THEN [disk EXCEPT ![blockno[b]] = data[b]] ELSE disk
        /\ data' = IF b \in dirty THEN data ELSE [data EXCEPT ![b] = disk[blockno[b]]]
        /\ UNCHANGED <<blockno, held>>
    BY <1>2 DEF ideintr, idestart
  <1>5. \A j \in Block : Contents(j)' = Contents(j)
    <2> TAKE j \in Block
    <2>1. CASE blockno[b] = j
      <3>1. Contents(j)' = data'[b]
        BY <1>1, <1>4, <2>1 DEF Registered
      <3>2. CASE b \in valid
        <4>1. Contents(j) = data[b]
          BY <1>1, <2>1, <3>2 DEF Registered
        <4>2. data'[b] = data[b]
          BY <1>1, <1>4, <3>2 DEF Fresh, Types
        <4> QED
          BY <3>1, <4>1, <4>2
      <3>3. CASE b \notin valid
        <4>1. \A c \in valid : blockno[c] # j
          BY <1>1, <2>1, <3>3 DEF Named, Types
        <4>2. Contents(j) = disk[j]
          BY <1>1, <4>1 DEF Registered
        <4>3. data'[b] = disk[j]
          BY <1>1, <1>4, <2>1, <3>3 DEF Fresh, Types
        <4> QED
          BY <3>1, <4>2, <4>3
      <3> QED
        BY <3>2, <3>3
    <2>2. CASE blockno[b] # j /\ \E c \in valid : blockno[c] = j
      <3>1. PICK c \in valid : blockno[c] = j
        BY <2>2
      <3>2. c \in valid' /\ data'[c] = data[c]
        BY <1>1, <1>4, <2>2, <3>1 DEF Types
      <3> QED
        BY <1>1, <1>4, <3>1, <3>2 DEF Registered
    <2>3. CASE blockno[b] # j /\ \A c \in valid : blockno[c] # j
      <3>1. disk'[j] = disk[j]
        BY <1>1, <1>4, <2>3 DEF Types
      <3> QED
        BY <1>1, <1>4, <2>3, <3>1 DEF Registered
    <2> QED
      BY <2>1, <2>2, <2>3
  <1>6. Val' = Val /\ Owner' = Owner
    BY <1>4, <1>5, SameOwner DEF Val
  <1> QED
    BY <1>6, RegisterSteps

LEMMA RefinesAcquire ==
  ASSUME Inv, [Next]_vars, NEW p \in Proc, acquiresleep(p)
  PROVE  [Registers!Next]_(Registers!vars)
  <1>1. Types /\ Places /\ Named /\ Locked
    BY DEF Inv
  <1>2. UNCHANGED <<blockno, valid, data, disk>>
    BY DEF acquiresleep, cache, driver
  <1>3. CASE held' = held
    BY <1>2, <1>3, SameVal, SameOwner, RegisterSteps
  <1>4. CASE lock[reg[p]] = None /\ held' = [held EXCEPT ![p] = @ \union {reg[p]}]
    <2>1. reg[p] \in Buf /\ blockno[reg[p]] \in Block
      BY <1>1, RegBuf DEF acquiresleep, Named, Refers, Types
    <2>2. \A q \in Proc : reg[p] \notin held[q]
      BY <1>1, <1>4, <2>1, ConstantsAssumption DEF Locked, Owns
    <2> QED
      BY <1>2, <1>4, <2>1, <2>2, RefinesTake
  <1> QED
    BY <1>3, <1>4 DEF acquiresleep

LEMMA RefinesWoken ==
  ASSUME Inv, [Next]_vars, NEW p \in Proc, iderw_woken(p)
  PROVE  [Registers!Next]_(Registers!vars)
  <1>1. Types /\ Places /\ Named /\ Locked
    BY DEF Inv
  <1>2. UNCHANGED <<blockno, valid, data, disk>>
    BY DEF iderw_woken, cache, driver
  <1>3. CASE held' = held
    BY <1>2, <1>3, SameVal, SameOwner, RegisterSteps
  <1>4. CASE reg[p] \notin held[p] /\ held' = [held EXCEPT ![p] = @ \union {reg[p]}]
    <2>1. reg[p] \in Buf /\ blockno[reg[p]] \in Block
      BY <1>1, RegBuf DEF iderw_woken, Named, Refers, Types
    <2>2. \A q \in Proc : reg[p] \notin held[q]
      BY <1>1, <1>4, <2>1, OneOwner DEF iderw_woken, Owns, Busy
    <2> QED
      BY <1>2, <1>4, <2>1, <2>2, RefinesTake
  <1>5. CASE reg[p] \in held[p] /\ held' = [held EXCEPT ![p] = @ \union {reg[p]}]
    <2>1. held' = held
      BY <1>1, <1>5 DEF Types
    <2> QED
      BY <1>3, <2>1
  <1> QED
    BY <1>3, <1>4, <1>5 DEF iderw_woken

LEMMA RefinesStep == Inv /\ [Next]_vars => [Registers!Next]_(Registers!vars)
  <1> SUFFICES ASSUME Inv, [Next]_vars PROVE [Registers!Next]_(Registers!vars)
    OBVIOUS
  <1>1. ASSUME NEW p \in Proc, NEW k \in Block, bget_cached(p, k)
        PROVE  [Registers!Next]_(Registers!vars)
    BY <1>1, SameVal, SameOwner, RegisterSteps DEF bget_cached, driver
  <1>2. ASSUME NEW p \in Proc, NEW k \in Block, bget_recycle(p, k)
        PROVE  [Registers!Next]_(Registers!vars)
    BY <1>2, RefinesRecycle
  <1>3. ASSUME NEW p \in Proc, acquiresleep(p)
        PROVE  [Registers!Next]_(Registers!vars)
    BY <1>3, RefinesAcquire
  <1>4. ASSUME NEW p \in Proc, NEW b \in Buf, NEW d \in Data, log_write(p, b, d) \/ bwrite(p, b, d)
        PROVE  [Registers!Next]_(Registers!vars)
    BY <1>4, RefinesChange
  <1>5. ASSUME NEW p \in Proc, NEW b \in Buf, brelse(p, b)
        PROVE  [Registers!Next]_(Registers!vars)
    BY <1>5, RefinesGive
  <1>6. ASSUME NEW p \in Proc, brelse_drop(p) \/ iderw(p)
        PROVE  [Registers!Next]_(Registers!vars)
    BY <1>6, SameVal, SameOwner, RegisterSteps DEF brelse_drop, iderw, cache, driver
  <1>7. ASSUME NEW p \in Proc, iderw_woken(p)
        PROVE  [Registers!Next]_(Registers!vars)
    BY <1>7, RefinesWoken
  <1>8. CASE ideintr
    BY <1>8, RefinesInterrupt
  <1>9. CASE UNCHANGED vars
    BY <1>9, SameVal, SameOwner, RegisterSteps DEF vars, cache, driver, place
  <1> QED
    BY <1>1, <1>2, <1>3, <1>4, <1>5, <1>6, <1>7, <1>8, <1>9 DEF Next

LEMMA RefinesInit == Init => Registers!Init
  <1> SUFFICES ASSUME Init PROVE Registers!Init
    OBVIOUS
  <1>1. valid = {} /\ (\A p \in Proc : held[p] = {}) /\ disk = [k \in Block |-> InitialData]
    BY DEF Init, binit
  <1>2. \A k \in Block : Contents(k) = InitialData /\ UserOf(k) = None
    BY <1>1 DEF Contents, UserOf
  <1> QED
    BY <1>2 DEF Registers!Init

(* Every block is a register with one user at a time (bio.c:9-15), for any    *)
(* number of processes, blocks and buffers: recycling a buffer, queueing it   *)
(* for the drive and the drive's interrupts change no block's contents, and   *)
(* only the process between its bread and its brelse does.                    *)
THEOREM CacheIsRegisters == Spec => ImplementsRegisters
  BY RefinesInit, RefinesStep, CacheConsistent, PTL DEF Spec, ImplementsRegisters, Registers!Spec
=============================================================================
