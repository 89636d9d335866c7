-------------------------------- MODULE Log ---------------------------------
(* The write-ahead log of log.c, with the part of the buffer cache it rests   *)
(* on: which blocks are cached, which of them are dirty and so cannot be      *)
(* recycled.                                                                  *)
(*                                                                            *)
(* Granularity: begin_op, log_write and the two halves of end_op are critical *)
(* sections under log.lock; a log_write comes with the change to the buffer   *)
(* before it, which the buffer's lock covers.  commit() and initlog()'s       *)
(* recovery hold no lock: each write of a block to the disk is a step, and    *)
(* between any two steps the machine may crash.  Writing one block is atomic. *)
EXTENDS Integers, Sequences, FiniteSets

CONSTANTS Proc, Block, Data, InitialData, NotCached,
          MaxOpBlocks,  \* MAXOPBLOCKS: what begin_op reserves for a call
          OpBlocks,     \* how many blocks a call really writes
          LogSize,      \* LOGSIZE
          Nlog          \* log.size: blocks of the log on the disk, its header included

ConstantsAssumption ==
    /\ InitialData \in Data
    /\ NotCached \notin Data
    /\ {MaxOpBlocks, OpBlocks, LogSize, Nlog} \subseteq Nat \ {0}
    /\ OpBlocks <= MaxOpBlocks
    /\ MaxOpBlocks <= LogSize

VARIABLES
    home, slot, head,            \* the disk: blocks, log blocks, log header
    cache, dirty,                \* cached contents by block, those with B_DIRTY
    lh, outstanding, committing, \* struct log
    doing, tail,                 \* what commit() or recovery does next; its loop variable
    at, written                  \* each process: where it is, what its call has written

disk == <<home, slot, head>>
buffers == <<cache, dirty>>
vars == <<home, slot, head, cache, dirty, lh, outstanding, committing,
          doing, tail, at, written>>

Recovering == doing \in {"read_head", "recover", "erase"}

Init ==
    /\ home = [b \in Block |-> InitialData]
    /\ slot = [i \in 1..LogSize |-> InitialData]
    /\ head = << >>
    /\ cache = [b \in Block |-> NotCached]
    /\ dirty = {}
    /\ lh = << >>
    /\ outstanding = 0
    /\ committing = FALSE
    /\ doing = "read_head"
    /\ tail = 1
    /\ at = [p \in Proc |-> "idle"]
    /\ written = [p \in Proc |-> {}]

-----------------------------------------------------------------------------
(* The buffer cache *)

\* bread: what is in the cache, or else on the disk.
Content(b) == IF cache[b] = NotCached THEN home[b] ELSE cache[b]

\* A buffer is recycled by bget only if it is not dirty.
Recyclable(b) == b \notin dirty

bread(b) ==
    /\ ~Recovering
    /\ cache[b] = NotCached
    /\ cache' = [cache EXCEPT ![b] = home[b]]
    /\ UNCHANGED <<disk, dirty, lh, outstanding, committing, doing, tail, at, written>>

Recycle(b) ==
    /\ cache[b] # NotCached
    /\ Recyclable(b)
    /\ cache' = [cache EXCEPT ![b] = NotCached]
    /\ UNCHANGED <<disk, dirty, lh, outstanding, committing, doing, tail, at, written>>

-----------------------------------------------------------------------------
(* File system calls *)

NoRoom == Len(lh) + (outstanding + 1) * MaxOpBlocks > LogSize

\* A process that was woken tests again, like one that has just called.
begin_op(p) ==
    /\ at[p] = "idle"
    /\ ~Recovering
    /\ IF committing \/ NoRoom
       THEN /\ at' = [at EXCEPT ![p] = "asleep"]
            /\ UNCHANGED outstanding
       ELSE /\ at' = [at EXCEPT ![p] = "in_call"]
            /\ outstanding' = outstanding + 1
    /\ UNCHANGED <<disk, buffers, lh, committing, doing, tail, written>>

TooBig == Len(lh) >= LogSize \/ Len(lh) >= Nlog - 1

MayWrite(p, b) ==
    /\ at[p] = "in_call"
    /\ b \in written[p] \/ Cardinality(written[p]) < OpBlocks

Logged(b) == \E i \in DOMAIN lh : lh[i] = b
Absorb(b) == IF Logged(b) THEN lh ELSE Append(lh, b)

\* The caller changes the buffer to d and calls log_write, which panics if TooBig.
log_write(p, b, d) ==
    /\ MayWrite(p, b)
    /\ ~TooBig
    /\ cache' = [cache EXCEPT ![b] = d]
    /\ dirty' = dirty \union {b}
    /\ lh' = Absorb(b)
    /\ written' = [written EXCEPT ![p] = @ \union {b}]
    /\ UNCHANGED <<disk, outstanding, committing, doing, tail, at>>

\* wakeup(&log), after process p has moved on to state st.
Wake(p, st) == [q \in Proc |-> IF q = p THEN st ELSE IF at[q] = "asleep" THEN "idle" ELSE at[q]]

\* The last call out commits; another one wakes those that wait for room.
end_op(p) ==
    /\ at[p] = "in_call"
    /\ outstanding' = outstanding - 1
    /\ written' = [written EXCEPT ![p] = {}]
    /\ IF outstanding = 1
       THEN /\ committing' = TRUE
            /\ at' = [at EXCEPT ![p] = "commits"]
            /\ doing' = IF lh = << >> THEN "done" ELSE "write_log"
       ELSE /\ at' = Wake(p, "idle")
            /\ UNCHANGED <<committing, doing>>
    /\ UNCHANGED <<disk, buffers, lh, tail>>

end_op_done_NoWakeup(p) ==                                            \* seeded fault
    /\ at[p] = "commits"
    /\ doing = "done"
    /\ committing' = FALSE
    /\ doing' = "nothing"
    /\ at' = [at EXCEPT ![p] = "idle"]
    /\ UNCHANGED <<disk, buffers, lh, outstanding, tail, written>>

end_op_done(p) ==
    /\ at[p] = "commits"
    /\ doing = "done"
    /\ committing' = FALSE
    /\ doing' = "nothing"
    /\ at' = Wake(p, "idle")
    /\ UNCHANGED <<disk, buffers, lh, outstanding, tail, written>>

-----------------------------------------------------------------------------
(* commit() *)

AfterLoop(next) == IF tail = Len(lh) THEN tail' = 1 /\ doing' = next
                                     ELSE tail' = tail + 1 /\ UNCHANGED doing

\* The cached block goes to its place in the log.
write_log ==
    /\ doing = "write_log"
    /\ slot' = [slot EXCEPT ![tail] = Content(lh[tail])]
    /\ AfterLoop("write_head")
    /\ UNCHANGED <<home, head, buffers, lh, outstanding, committing, at, written>>

write_head_Early ==                                                   \* seeded fault
    /\ doing \in {"write_log", "write_head"}
    /\ head' = lh
    /\ tail' = 1
    /\ doing' = "install_trans"
    /\ UNCHANGED <<home, slot, buffers, lh, outstanding, committing, at, written>>

\* The transaction is committed.
write_head ==
    /\ doing = "write_head"
    /\ head' = lh
    /\ doing' = "install_trans"
    /\ UNCHANGED <<home, slot, buffers, lh, outstanding, committing, tail, at, written>>

\* A block goes from the log to its home; bwrite leaves its buffer clean.
Install ==
    /\ home' = [home EXCEPT ![lh[tail]] = slot[tail]]
    /\ cache' = [cache EXCEPT ![lh[tail]] = slot[tail]]
    /\ dirty' = dirty \ {lh[tail]}
    /\ UNCHANGED <<slot, head, lh, outstanding, committing, at, written>>

install_trans ==
    /\ doing = "install_trans"
    /\ Install
    /\ AfterLoop("clear")

\* log.lh.n = 0; write_head().
Clear ==
    /\ lh' = << >>
    /\ head' = << >>
    /\ UNCHANGED <<home, slot, buffers, outstanding, committing, tail, at, written>>

clear ==
    /\ doing = "clear"
    /\ Clear
    /\ doing' = "done"

-----------------------------------------------------------------------------
(* Crash and recovery *)

Crash ==
    /\ cache' = [b \in Block |-> NotCached]
    /\ dirty' = {}
    /\ lh' = << >>
    /\ outstanding' = 0
    /\ committing' = FALSE
    /\ doing' = "read_head"
    /\ tail' = 1
    /\ at' = [p \in Proc |-> "idle"]
    /\ written' = [p \in Proc |-> {}]
    /\ UNCHANGED disk

\* recover_from_log, in the first process before it runs any call.
read_head ==
    /\ doing = "read_head"
    /\ lh' = head
    /\ doing' = IF head = << >> THEN "erase" ELSE "recover"
    /\ UNCHANGED <<disk, buffers, outstanding, committing, tail, at, written>>

recover ==
    /\ doing = "recover"
    /\ Install
    /\ AfterLoop("erase")

erase ==
    /\ doing = "erase"
    /\ Clear
    /\ doing' = "nothing"

-----------------------------------------------------------------------------

Calls == \E p \in Proc :
    begin_op(p) \/ end_op(p) \/ end_op_done(p) \/ \E b \in Block, d \in Data : log_write(p, b, d)
commit == write_log \/ write_head \/ install_trans \/ clear
recover_from_log == read_head \/ recover \/ erase

Next == Calls \/ commit \/ recover_from_log \/ Crash \/ \E b \in Block : bread(b) \/ Recycle(b)

Spec == Init /\ [][Next]_vars

\* The disk answers, and a process in a call gets the processor and returns.
Fairness == /\ WF_vars(commit) /\ WF_vars(recover_from_log)
            /\ \A p \in Proc : WF_vars(end_op(p)) /\ WF_vars(end_op_done(p))

FairSpec == Spec /\ Fairness

-----------------------------------------------------------------------------
(* Properties *)

\* The types of the variables; the counter counts the calls, and nobody is in
\* a call while the log is committed or recovered (end_op would panic).
TypeOK ==
    /\ home \in [Block -> Data]
    /\ slot \in [1..LogSize -> Data]
    /\ {head, lh} \subseteq Seq(Block)
    /\ cache \in [Block -> Data \union {NotCached}]
    /\ dirty \in SUBSET Block
    /\ doing \in {"nothing", "write_log", "write_head", "install_trans", "clear", "done",
                  "read_head", "recover", "erase"}
    /\ tail \in 1..Len(lh) + 1
    /\ at \in [Proc -> {"idle", "asleep", "in_call", "commits"}]
    /\ written \in [Proc -> SUBSET Block]
    /\ committing \in BOOLEAN
    /\ outstanding = Cardinality({p \in Proc : at[p] = "in_call"})
    /\ doing # "nothing" => outstanding = 0

\* What the disk would hold after recovery.
Recovered == [b \in Block |-> IF \E i \in DOMAIN head : head[i] = b
                             THEN slot[CHOOSE i \in DOMAIN head : head[i] = b]
                             ELSE home[b]]

Promise == INSTANCE AtomicDisk WITH
    active <- {p \in Proc : at[p] = "in_call"},
    current <- IF Recovering THEN Recovered ELSE [b \in Block |-> Content(b)],
    stable <- Recovered

\* Whatever write the machine stops after, also during recovery, the calls
\* before are there entirely or not at all, and all those of earlier groups are.
ImplementsAtomicDisk == Promise!Spec

\* No wakeup is lost: who sleeps in begin_op gets to test again.
SleepersAreWoken == \A p \in Proc : at[p] = "asleep" ~> at[p] # "asleep"
=============================================================================
