------------------------------ MODULE BlockIo -------------------------------
(* The buffer cache (bio.c), the sleep lock of a buffer (sleeplock.c) and the *)
(* disk driver (ide.c), with the drive and its interrupt.                     *)
(*                                                                            *)
(* Granularity: a step is a critical section under bcache.lock, under the     *)
(* spin lock of a sleep lock, or under idelock.  A sleep gives up that lock   *)
(* and lets no wakeup pass in between (proc.c, sleep), so it ends a section.  *)
(* The drive does not fail.                                                   *)
EXTENDS Integers, Sequences, FiniteSets

CONSTANTS Proc,
          Block,               \* the blocks of the disk, numbers
          NBUF,
          Data, InitialData,
          None,
          WriteBlock,          \* the blocks that callers change (bound)
          Load                 \* what callers may ask for at a time (bound)

Buf == 1..NBUF

ASSUME ConstantsAssumption ==
    /\ NBUF \in Nat \ {0}
    /\ Block \subseteq Nat
    /\ InitialData \in Data
    /\ None \notin Proc \union Nat
    /\ WriteBlock \subseteq Block
    /\ Load \subseteq [pins : Nat, depth : [Proc -> Nat]]

VARIABLES
    blockno, refcnt, data,  \* struct buf
    valid, dirty,           \* the buffers with B_VALID, with B_DIRTY
    lru,                    \* the bcache list, most recently used first
    lock,                   \* who holds the sleep lock of a buffer
    idequeue,               \* the buffers queued for the drive
    drive,                  \* the command the drive carries out, or None
    disk,                   \* the blocks on the disk
    pc, reg,                \* each process: where it is, the buffer it is busy with
    held,                   \* the buffers it got from bread and has not released
    load                    \* the element of Load this machine runs with

cache == <<blockno, refcnt, data, valid, dirty, lru>>
driver == <<idequeue, drive, disk>>
place == <<pc, reg, held>>
vars == <<cache, lock, driver, place, load>>

\* run: in the caller; lock, locksleep: in acquiresleep; rw, iosleep, io: in
\* iderw before its section, asleep, woken; drop: in brelse after releasesleep.
TypeOK ==
    /\ blockno \in [Buf -> Block \union {None}]
    /\ refcnt \in [Buf -> Nat]
    /\ data \in [Buf -> Data]
    /\ valid \subseteq Buf /\ dirty \subseteq Buf
    /\ lru \in Seq(Buf)
    /\ lock \in [Buf -> Proc \union {None}]
    /\ idequeue \in Seq(Buf)
    /\ drive \in [write : BOOLEAN, blockno : Block, data : Data] \union {None}
    /\ disk \in [Block -> Data]
    /\ pc \in [Proc -> {"run", "lock", "locksleep", "rw", "iosleep", "io", "drop"}]
    /\ reg \in [Proc -> Buf \union {None}]
    /\ held \in [Proc -> SUBSET Buf]
    /\ load \in Load

\* binit puts each buffer in front of the ones before it.  Device 0, block 0,
\* which binit leaves in the buffers, is nobody's block.
binit ==
    /\ blockno = [b \in Buf |-> None]
    /\ refcnt = [b \in Buf |-> 0]
    /\ data = [b \in Buf |-> InitialData]
    /\ valid = {} /\ dirty = {}
    /\ lru = [i \in Buf |-> NBUF + 1 - i]
    /\ lock = [b \in Buf |-> None]

Init ==
    /\ binit
    /\ idequeue = << >> /\ drive = None
    /\ disk = [k \in Block |-> InitialData]
    /\ pc = [p \in Proc |-> "run"]
    /\ reg = [p \in Proc |-> None]
    /\ held = [p \in Proc |-> {}]
    /\ load \in Load

Go(p, where, b) ==
    /\ pc' = [pc EXCEPT ![p] = where]
    /\ reg' = [reg EXCEPT ![p] = b]

\* wakeup: those asleep at a place with buffer b go on at another place.
Woken(asleep, b, awake) ==
    [q \in Proc |-> IF pc[q] = asleep /\ reg[q] = b THEN awake ELSE pc[q]]

-----------------------------------------------------------------------------
(* bio.c *)

Cached(b, k) == blockno[b] = k
InCache(k) == \E b \in Buf : Cached(b, k)

\* A process takes no more buffers than the load says.  Callers that hold a
\* buffer take the next one in a fixed order, so that no two wait for each other:
\* an indirect block before the bitmap and before a block just allocated, a log
\* block before its home.  The numbers of the blocks stand for that order, not
\* for where they are on the disk.
MayTake(p, k) ==
    /\ pc[p] = "run"
    /\ Cardinality(held[p]) < load.depth[p]
    /\ \A b \in held[p] : blockno[b] < k

bget_cached_Uncounted(p, k) ==                                        \* seeded fault
    /\ MayTake(p, k)
    /\ \E b \in Buf : Cached(b, k) /\ Go(p, "lock", b)
    /\ UNCHANGED <<cache, lock, driver, held, load>>

bget_cached(p, k) ==
    /\ MayTake(p, k)
    /\ \E b \in Buf :
        /\ Cached(b, k)
        /\ refcnt' = [refcnt EXCEPT ![b] = @ + 1]
        /\ Go(p, "lock", b)
    /\ UNCHANGED <<blockno, data, valid, dirty, lru, lock, driver, held, load>>

Unused(b) == refcnt[b] = 0 /\ b \notin dirty

\* The unused buffer nearest to the end of the list.
Oldest(b) == \E i \in DOMAIN lru : /\ b = lru[i] /\ Unused(b)
                                   /\ \A j \in i + 1..Len(lru) : ~Unused(lru[j])

\* Without an unused buffer bget panics; here it does not go on.
bget_recycle(p, k) ==
    /\ MayTake(p, k)
    /\ ~InCache(k)
    /\ \E b \in Buf :
        /\ Oldest(b)
        /\ blockno' = [blockno EXCEPT ![b] = k]
        /\ valid' = valid \ {b}
        /\ refcnt' = [refcnt EXCEPT ![b] = 1]
        /\ Go(p, "lock", b)
    /\ UNCHANGED <<data, dirty, lru, lock, driver, held, load>>

\* acquiresleep, and the test of B_VALID in bread.
acquiresleep(p) ==
    LET b == reg[p] IN
    /\ pc[p] = "lock"
    /\ \/ /\ lock[b] # None
          /\ Go(p, "locksleep", b)
          /\ UNCHANGED <<lock, held>>
       \/ /\ lock[b] = None
          /\ lock' = [lock EXCEPT ![b] = p]
          /\ IF b \in valid
             THEN Go(p, "run", None) /\ held' = [held EXCEPT ![p] = @ \union {b}]
             ELSE Go(p, "rw", b) /\ UNCHANGED held
    /\ UNCHANGED <<cache, driver, load>>

Uses(p, b) == pc[p] = "run" /\ b \in held[p]
Writing == {reg[p] : p \in {q \in Proc : pc[q] \in {"rw", "iosleep", "io"}}}

\* A caller changes a buffer and pins it with log_write, ...
log_write(p, b, d) ==
    /\ Uses(p, b)
    /\ blockno[b] \in WriteBlock
    /\ b \in dirty \/ Cardinality(dirty \ Writing) < load.pins
    /\ data' = [data EXCEPT ![b] = d]
    /\ dirty' = dirty \union {b}
    /\ UNCHANGED <<blockno, refcnt, valid, lru, lock, driver, place, load>>

\* ... or writes it to the disk, as commit does.
bwrite(p, b, d) ==
    /\ Uses(p, b)
    /\ blockno[b] \in WriteBlock
    /\ data' = [data EXCEPT ![b] = d]
    /\ dirty' = dirty \union {b}
    /\ Go(p, "rw", b)
    /\ UNCHANGED <<blockno, refcnt, valid, lru, lock, driver, held, load>>

brelse_NoWakeup(p, b) ==                                              \* seeded fault
    /\ Uses(p, b)
    /\ lock' = [lock EXCEPT ![b] = None]
    /\ Go(p, "drop", b)
    /\ held' = [held EXCEPT ![p] = @ \ {b}]
    /\ UNCHANGED <<cache, driver, load>>

\* brelse up to the end of releasesleep.
brelse(p, b) ==
    /\ Uses(p, b)
    /\ lock' = [lock EXCEPT ![b] = None]
    /\ pc' = [Woken("locksleep", b, "lock") EXCEPT ![p] = "drop"]
    /\ reg' = [reg EXCEPT ![p] = b]
    /\ held' = [held EXCEPT ![p] = @ \ {b}]
    /\ UNCHANGED <<cache, driver, load>>

\* b is first, and those that were before it are one place further.
ToFront(b) ==
    LET at == CHOOSE i \in DOMAIN lru : lru[i] = b
    IN  [i \in DOMAIN lru |-> IF i = 1 THEN b ELSE IF i <= at THEN lru[i - 1] ELSE lru[i]]

brelse_drop_Keeps(p) ==                                               \* seeded fault
    LET b == reg[p] IN
    /\ pc[p] = "drop"
    /\ lru' = IF refcnt[b] = 1 THEN ToFront(b) ELSE lru
    /\ refcnt' = [refcnt EXCEPT ![b] = IF @ = 1 THEN 0 ELSE @]
    /\ Go(p, "run", None)
    /\ UNCHANGED <<blockno, data, valid, dirty, lock, driver, held, load>>

\* The rest of brelse.
brelse_drop(p) ==
    LET b == reg[p] IN
    /\ pc[p] = "drop"
    /\ refcnt' = [refcnt EXCEPT ![b] = @ - 1]
    /\ lru' = IF refcnt[b] = 1 THEN ToFront(b) ELSE lru
    /\ Go(p, "run", None)
    /\ UNCHANGED <<blockno, data, valid, dirty, lock, driver, held, load>>

-----------------------------------------------------------------------------
(* ide.c *)

\* The command idestart gives to the drive: a write takes the data with it.
idestart(b) == [write |-> b \in dirty, blockno |-> blockno[b], data |-> data[b]]

\* iderw up to its first sleep.
iderw(p) ==
    LET b == reg[p] IN
    /\ pc[p] = "rw"
    /\ idequeue' = Append(idequeue, b)
    /\ drive' = IF idequeue = << >> THEN idestart(b) ELSE drive
    /\ Go(p, "iosleep", b)
    /\ UNCHANGED <<cache, lock, disk, held, load>>

\* The process woken by ideintr looks at the flags again.
iderw_woken(p) ==
    LET b == reg[p] IN
    /\ pc[p] = "io"
    /\ IF b \in valid \ dirty
       THEN Go(p, "run", None) /\ held' = [held EXCEPT ![p] = @ \union {b}]
       ELSE Go(p, "iosleep", b) /\ UNCHANGED held
    /\ UNCHANGED <<cache, lock, driver, load>>

ideintr_Stops ==                                                      \* seeded fault
    LET b == Head(idequeue) IN
    /\ drive # None
    /\ idequeue' = Tail(idequeue)
    /\ disk' = IF drive.write THEN [disk EXCEPT ![drive.blockno] = drive.data] ELSE disk
    /\ data' = IF b \in dirty THEN data ELSE [data EXCEPT ![b] = disk[drive.blockno]]
    /\ valid' = valid \union {b}
    /\ dirty' = dirty \ {b}
    /\ pc' = Woken("iosleep", b, "io")
    /\ drive' = None
    /\ UNCHANGED <<blockno, refcnt, lru, lock, reg, held, load>>

\* The drive has finished its command and interrupts.
ideintr ==
    LET b == Head(idequeue)
        rest == Tail(idequeue)
    IN
    /\ drive # None
    /\ idequeue' = rest
    /\ disk' = IF drive.write THEN [disk EXCEPT ![drive.blockno] = drive.data] ELSE disk
    /\ data' = IF b \in dirty THEN data ELSE [data EXCEPT ![b] = disk[drive.blockno]]
    /\ valid' = valid \union {b}
    /\ dirty' = dirty \ {b}
    /\ pc' = Woken("iosleep", b, "io")
    /\ drive' = IF rest = << >> THEN None ELSE idestart(Head(rest))
    /\ UNCHANGED <<blockno, refcnt, lru, lock, reg, held, load>>

-----------------------------------------------------------------------------
Next ==
    \/ ideintr
    \/ \E p \in Proc :
        \/ acquiresleep(p) \/ brelse_drop(p) \/ iderw(p) \/ iderw_woken(p)
        \/ \E k \in Block : bget_cached(p, k) \/ bget_recycle(p, k)
        \/ \E b \in Buf : brelse(p, b) \/ \E d \in Data : log_write(p, b, d) \/ bwrite(p, b, d)

Spec == Init /\ [][Next]_vars

\* The drive answers every command, and a process in iderw is scheduled.
Fairness == WF_vars(ideintr) /\ \A p \in Proc : WF_vars(iderw(p)) /\ WF_vars(iderw_woken(p))
FairSpec == Spec /\ Fairness

-----------------------------------------------------------------------------
(* Properties *)

(* The cache, the sleep locks and the driver together give each block one     *)
(* value and one user at a time (bio.c:9-15): nothing a caller wrote is lost  *)
(* when a buffer is recycled, written or read again.                          *)
Contents(k) == IF \E b \in valid : Cached(b, k)
               THEN data[CHOOSE b \in valid : Cached(b, k)]
               ELSE disk[k]
UserOf(k) == IF \E p \in Proc : \E b \in held[p] : Cached(b, k)
             THEN CHOOSE p \in Proc : \E b \in held[p] : Cached(b, k)
             ELSE None
Registers == INSTANCE BlockRegisters WITH
                val <- [k \in Block |-> Contents(k)],
                user <- [k \in Block |-> UserOf(k)]
ImplementsRegisters == Registers!Spec

(* Whoever sleeps will be woken: a sleeper in acquiresleep waits for a lock   *)
(* somebody else holds, a sleeper in iderw for a buffer in the queue, and the *)
(* drive works on the buffer at the head of the queue (ide.c:144, :162;       *)
(* sleeplock.c:28).                                                           *)
SleepersHaveWaker ==
    /\ \A p \in Proc :
        /\ pc[p] = "locksleep" => lock[reg[p]] \notin {None, p}
        /\ pc[p] = "iosleep" => \E i \in DOMAIN idequeue : idequeue[i] = reg[p]
    /\ IF idequeue = << >> THEN drive = None ELSE drive = idestart(Head(idequeue))

\* Pinned by the log, held by a caller, or on its way to or from one.
Taken(b) == b \in dirty \/ \E p \in Proc : b \in held[p] \/ reg[p] = b

(* bget finds no buffer to recycle, and panics (bio.c:92), only when all NBUF *)
(* are taken: no count stays up after the last brelse, no buffer drops out of *)
(* the list, and none stays dirty when its write is done.  That they are all  *)
(* taken is possible: NBUF is no more than what the log alone may pin.        *)
ShortOnlyWhenAllTaken == (\E b \in Buf : ~Taken(b)) => \E b \in Buf : Oldest(b)

(* A request is answered in the end, however many come after it (ide.c:139).  *)
RequestsAnswered == \A p \in Proc : pc[p] = "rw" ~> pc[p] = "run"
=============================================================================
