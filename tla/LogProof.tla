------------------------------ MODULE LogProof ------------------------------
(* The log implements AtomicDisk, for any number of processes, blocks and     *)
(* contents, any size of the log and any crashes.  The names of Log carry L,  *)
(* as in FairParts, which says with what this part is checked.                *)
EXTENDS FairParts, FiniteSetTheorems, SequenceTheorems, TLAPS

LEMMA Constants ==
  /\ InitialData \in Data
  /\ NotCached \notin Data
  /\ {MaxOpBlocks, OpBlocks, LogSize, Nlog} \subseteq Nat \ {0}
  /\ OpBlocks <= MaxOpBlocks
  /\ MaxOpBlocks <= LogSize
  BY LogAssumption DEF L!ConstantsAssumption

Committing == {"write_log", "write_head", "install_trans", "clear", "done"}
Loop == {"write_log", "install_trans", "recover"}

InCall == {p \in Caller : at[p] = "in_call"}

Types ==
    /\ home \in [Block -> Data]
    /\ slot \in [1..LogSize -> Data]
    /\ head \in Seq(Block) /\ lh \in Seq(Block)
    /\ cache \in [Block -> Data \union {NotCached}]
    /\ dirty \in SUBSET Block
    /\ doing \in Committing \union {"nothing", "read_head", "recover", "erase"}
    /\ tail \in Nat
    /\ at \in [Caller -> {"idle", "asleep", "in_call", "commits"}]
    /\ written \in [Caller -> SUBSET Block]
    /\ committing \in BOOLEAN

\* end_op can tell that it is the last one out.
Counted == IsFiniteSet(InCall) /\ outstanding = Cardinality(InCall)

\* Nobody writes while the log is committed or recovered, and an idle log is empty.
Control ==
    /\ doing # "nothing" => InCall = {}
    /\ committing <=> doing \in Committing
    /\ doing = "nothing" /\ InCall = {} => lh = << >>

NoTwice(s) == \A i, j \in 1..Len(s) : s[i] = s[j] => i = j

\* What is logged, in memory and on the disk, and how far a loop has come.
Logs ==
    /\ NoTwice(lh) /\ Len(lh) <= LogSize
    /\ NoTwice(head) /\ Len(head) <= LogSize
    /\ doing \in {"install_trans", "clear", "recover", "erase"} => head = lh
    /\ doing \in {"nothing", "write_log", "write_head", "done"} => head = << >>
    /\ doing \in Loop => tail \in 1..Len(lh)
    /\ doing \notin Loop => tail = 1
    /\ doing = "write_head" => lh # << >>
    /\ doing = "done" => lh = << >>

\* A block is dirty from its log_write until it is at home.
Pinned ==
    /\ \A b \in Block : cache[b] # NotCached /\ b \notin dirty => cache[b] = home[b]
    /\ \A b \in dirty : cache[b] # NotCached
    /\ doing \in {"nothing", "write_log", "write_head"} =>
           \A b \in Block : b \in dirty <=> \E i \in 1..Len(lh) : lh[i] = b
    /\ doing = "install_trans" =>
           \A b \in Block : b \in dirty <=> \E i \in tail..Len(lh) : lh[i] = b
    /\ doing \in {"clear", "done", "read_head", "recover", "erase"} => dirty = {}

\* What has got to the log, and from there home.
Copied ==
    /\ doing = "write_log" => \A i \in 1..tail - 1 : slot[i] = cache[lh[i]]
    /\ doing = "write_head" => \A i \in 1..Len(lh) : slot[i] = cache[lh[i]]
    /\ doing = "install_trans" => \A i \in tail..Len(lh) : slot[i] = cache[lh[i]]
    /\ doing \in {"install_trans", "recover"} => \A i \in 1..tail - 1 : home[lh[i]] = slot[i]
    /\ doing \in {"clear", "erase"} => \A i \in 1..Len(lh) : home[lh[i]] = slot[i]

Inv == Types /\ Counted /\ Control /\ Logs /\ Pinned /\ Copied

-----------------------------------------------------------------------------
(* The initial state.                                                         *)

LEMMA InvInit == L!Init => Inv
  <1> SUFFICES ASSUME L!Init PROVE Inv
    OBVIOUS
  <1>1. InitialData \in Data /\ LogSize \in Nat
    BY Constants
  <1>2. Types
    BY <1>1, EmptySeq DEF L!Init, Types
  <1>3. InCall = {}
    BY DEF L!Init, InCall
  <1>4. Counted
    BY <1>3, FS_EmptySet DEF L!Init, Counted
  <1>5. Control /\ Pinned /\ Copied
    BY <1>3 DEF L!Init, Control, Committing, Pinned, Copied
  <1>6. Logs
    BY <1>1 DEF L!Init, Logs, NoTwice, Loop
  <1> QED
    BY <1>2, <1>4, <1>5, <1>6 DEF Inv

-----------------------------------------------------------------------------
(* Types                                                                      *)

LEMMA TypesStep ==
  ASSUME Inv, [L!Next]_(L!vars)
  PROVE  Types'
  <1>1. Types /\ Logs
    BY DEF Inv
  <1>2. LogSize \in Nat
    BY Constants
  <1>3. \A b \in Block : L!Content(b) \in Data
    BY <1>1 DEF Types, L!Content
  <1>4. doing \in Loop => lh[tail] \in Block /\ slot[tail] \in Data
    <2> SUFFICES ASSUME doing \in Loop PROVE lh[tail] \in Block /\ slot[tail] \in Data
      OBVIOUS
    <2>1. lh \in Seq(Block) /\ tail \in 1..Len(lh) /\ Len(lh) <= LogSize /\ Len(lh) \in Nat
      BY <1>1, LenProperties DEF Types, Logs
    <2>2. lh[tail] \in Block
      BY <2>1, ElementOfSeq
    <2>3. tail \in 1..LogSize
      BY <1>2, <2>1
    <2> QED
      BY <1>1, <2>2, <2>3 DEF Types
  <1>e. << >> \in Seq(Block)
    BY EmptySeq
  <1> USE <1>1, <1>2 DEF Types, L!disk, L!buffers
  <1>5. ASSUME NEW b \in Block, L!bread(b) \/ L!Recycle(b) PROVE Types'
    BY <1>5 DEF L!bread, L!Recycle
  <1>6. ASSUME NEW p \in Caller, L!begin_op(p) PROVE Types'
    BY <1>6 DEF L!begin_op
  <1>7. ASSUME NEW p \in Caller, NEW b \in Block, NEW d \in Data, L!log_write(p, b, d) PROVE Types'
    <2>1. L!Absorb(b) \in Seq(Block)
      BY AppendProperties DEF L!Absorb
    <2> QED
      BY <1>7, <2>1 DEF L!log_write
  <1>8. ASSUME NEW p \in Caller, L!end_op(p) \/ L!end_op_done(p) PROVE Types'
    <2>1. \A st \in {"idle", "commits"} :
             L!Wake(p, st) \in [Caller -> {"idle", "asleep", "in_call", "commits"}]
      BY DEF L!Wake
    <2> QED
      BY <1>8, <2>1 DEF L!end_op, L!end_op_done, Committing
  <1>9. CASE L!write_log
    <2>1. lh[tail] \in Block /\ doing \in Committing
      BY <1>4, <1>9 DEF L!write_log, Loop, Committing
    <2>2. L!Content(lh[tail]) \in Data
      BY <1>3, <2>1
    <2>3. slot' \in [1..LogSize -> Data]
      BY <1>9, <2>2 DEF L!write_log
    <2>4. tail' \in Nat /\ doing' \in Committing
      BY <1>9, <2>1 DEF L!write_log, L!AfterLoop, Committing
    <2> QED
      BY <1>9, <2>3, <2>4 DEF L!write_log
  <1>10. CASE L!write_head \/ L!clear \/ L!read_head \/ L!erase
    BY <1>e, <1>10 DEF L!write_head, L!clear, L!Clear, L!read_head, L!erase, Committing
  <1>11. CASE L!install_trans \/ L!recover
    <2>1. lh[tail] \in Block /\ slot[tail] \in Data
      BY <1>4, <1>11 DEF L!install_trans, L!recover, Loop
    <2>2. tail' \in Nat /\ doing' \in Committing \union {"recover", "erase"}
      BY <1>11 DEF L!install_trans, L!recover, L!AfterLoop, Committing
    <2> QED
      BY <1>11, <2>1, <2>2 DEF L!install_trans, L!recover, L!Install
  <1>12. CASE L!Crash
    BY <1>e, <1>12 DEF L!Crash
  <1>13. CASE UNCHANGED L!vars
    BY <1>13 DEF L!vars
  <1> QED
    BY <1>5, <1>6, <1>7, <1>8, <1>9, <1>10, <1>11, <1>12, <1>13
       DEF L!Next, L!Calls, L!commit, L!recover_from_log

-----------------------------------------------------------------------------
(* Who is in a call                                                           *)

LEMMA InCallBegin ==
  ASSUME Types, NEW p \in Caller, L!begin_op(p)
  PROVE  \/ InCall' = InCall \union {p} /\ outstanding' = outstanding + 1 /\ ~committing
            /\ p \notin InCall
         \/ InCall' = InCall /\ outstanding' = outstanding
  BY DEF Types, L!begin_op, InCall

LEMMA InCallEnd ==
  ASSUME Types, NEW p \in Caller, L!end_op(p)
  PROVE  InCall' = InCall \ {p} /\ p \in InCall /\ outstanding' = outstanding - 1
  BY DEF Types, L!end_op, InCall, L!Wake

LEMMA InCallDone ==
  ASSUME Types, NEW p \in Caller, L!end_op_done(p)
  PROVE  InCall' = InCall
  BY DEF Types, L!end_op_done, InCall, L!Wake

LEMMA InCallOther ==
  ASSUME Types,
         \/ \E b \in Block : \/ L!bread(b) \/ L!Recycle(b)
                            \/ \E p \in Caller, d \in Data : L!log_write(p, b, d)
         \/ L!commit \/ L!recover_from_log \/ UNCHANGED L!vars
  PROVE  InCall' = InCall /\ outstanding' = outstanding
  <1>1. UNCHANGED <<at, outstanding>>
    BY DEF L!bread, L!Recycle, L!log_write, L!commit, L!write_log, L!write_head, L!install_trans, L!Install, L!clear,
           L!Clear, L!recover_from_log, L!read_head, L!recover, L!erase, L!vars
  <1> QED
    BY <1>1 DEF InCall

LEMMA InCallCrash == L!Crash => InCall' = {} /\ outstanding' = 0
  BY DEF L!Crash, InCall

LEMMA CountedStep ==
  ASSUME Inv, [L!Next]_(L!vars)
  PROVE  Counted'
  <1>1. Types /\ IsFiniteSet(InCall) /\ outstanding = Cardinality(InCall)
    BY DEF Inv, Counted
  <1>2. ASSUME NEW p \in Caller, L!begin_op(p) PROVE Counted'
    BY <1>1, <1>2, InCallBegin, FS_AddElement DEF Counted
  <1>3. ASSUME NEW p \in Caller, L!end_op(p) PROVE Counted'
    BY <1>1, <1>3, InCallEnd, FS_RemoveElement DEF Counted
  <1>4. ASSUME NEW p \in Caller, L!end_op_done(p) PROVE Counted'
    BY <1>1, <1>4, InCallDone DEF Counted, L!end_op_done
  <1>5. CASE L!Crash
    BY <1>5, InCallCrash, FS_EmptySet DEF Counted
  <1>6. CASE \/ \E b \in Block : \/ L!bread(b) \/ L!Recycle(b)
                                \/ \E p \in Caller, d \in Data : L!log_write(p, b, d)
             \/ L!commit \/ L!recover_from_log \/ UNCHANGED L!vars
    BY <1>1, <1>6, InCallOther DEF Counted
  <1> QED
    BY <1>2, <1>3, <1>4, <1>5, <1>6 DEF L!Next, L!Calls

\* The last one out is told by the counter.
LEMMA LastOut ==
  ASSUME Counted, NEW p \in InCall
  PROVE  outstanding = 1 <=> InCall \ {p} = {}
  <1>1. /\ IsFiniteSet(InCall \ {p})
        /\ Cardinality(InCall \ {p}) = Cardinality(InCall) - 1
    BY FS_RemoveElement DEF Counted
  <1>2. Cardinality(InCall \ {p}) = 0 <=> InCall \ {p} = {}
    BY <1>1, FS_EmptySet
  <1>3. Cardinality(InCall) \in Nat
    BY FS_CardinalityType DEF Counted
  <1> QED
    BY <1>1, <1>2, <1>3 DEF Counted

LEMMA ControlStep ==
  ASSUME Inv, [L!Next]_(L!vars)
  PROVE  Control'
  <1>1. Types /\ Counted /\ Control /\ Logs
    BY DEF Inv
  <1>2. ASSUME NEW b \in Block, L!bread(b) \/ L!Recycle(b) PROVE Control'
    <2>1. InCall' = InCall
      BY <1>1, <1>2, InCallOther
    <2> QED
      BY <1>1, <1>2, <2>1 DEF Control, L!bread, L!Recycle
  <1>3. ASSUME NEW p \in Caller, L!begin_op(p) PROVE Control'
    <2>1. ~committing => doing = "nothing"
      BY <1>1, <1>3 DEF Control, Types, L!begin_op, L!Recovering
    <2>2. UNCHANGED <<doing, committing, lh>>
      BY <1>3 DEF L!begin_op
    <2> QED
      BY <1>1, <1>3, <2>1, <2>2, InCallBegin DEF Control
  <1>4. ASSUME NEW p \in Caller, NEW b \in Block, NEW d \in Data, L!log_write(p, b, d) PROVE Control'
    <2>1. InCall' = InCall /\ p \in InCall
      BY <1>1, <1>4, InCallOther DEF L!log_write, L!MayWrite, InCall
    <2>2. UNCHANGED <<doing, committing>>
      BY <1>4 DEF L!log_write
    <2> QED
      BY <1>1, <2>1, <2>2 DEF Control
  <1>5. ASSUME NEW p \in Caller, L!end_op(p) PROVE Control'
    <2>1. InCall' = InCall \ {p} /\ p \in InCall
      BY <1>1, <1>5, InCallEnd
    <2>2. doing = "nothing" /\ ~committing
      BY <1>1, <2>1 DEF Control, Committing
    <2>3. CASE outstanding = 1
      <3>1. InCall' = {}
        BY <1>1, <2>1, <2>3, LastOut
      <3>2. committing' = TRUE /\ doing' \in Committing
        BY <1>5, <2>3 DEF L!end_op, Committing
      <3> QED
        BY <3>1, <3>2 DEF Control, Committing
    <2>4. CASE outstanding # 1
      <3>1. InCall' # {}
        BY <1>1, <2>1, <2>4, LastOut
      <3>2. UNCHANGED <<committing, doing>>
        BY <1>5, <2>4 DEF L!end_op
      <3> QED
        BY <1>1, <2>2, <3>1, <3>2 DEF Control
    <2> QED
      BY <2>3, <2>4
  <1>6. ASSUME NEW p \in Caller, L!end_op_done(p) PROVE Control'
    <2>1. InCall' = InCall
      BY <1>1, <1>6, InCallDone
    <2> QED
      BY <1>1, <1>6, <2>1 DEF Control, Logs, L!end_op_done, Committing
  <1>7. CASE L!commit \/ L!recover_from_log
    <2>1. InCall' = {}
      BY <1>1, <1>7, InCallOther DEF Control, L!commit, L!recover_from_log, L!write_log, L!write_head,
         L!install_trans, L!clear, L!read_head, L!recover, L!erase
    <2>2. CASE L!write_log \/ L!write_head \/ L!install_trans \/ L!clear
      BY <1>1, <2>1, <2>2 DEF Control, L!write_log, L!write_head, L!install_trans, L!Install, L!clear, L!Clear,
                              L!AfterLoop, Committing
    <2>3. CASE L!read_head \/ L!recover \/ L!erase
      BY <1>1, <2>1, <2>3 DEF Control, L!read_head, L!recover, L!Install, L!erase, L!Clear,
                              L!AfterLoop, Committing
    <2> QED
      BY <1>7, <2>2, <2>3 DEF L!commit, L!recover_from_log
  <1>8. CASE L!Crash
    BY <1>8, InCallCrash DEF Control, L!Crash, Committing
  <1>9. CASE UNCHANGED L!vars
    BY <1>1, <1>9, InCallOther DEF L!vars, Control
  <1> QED
    BY <1>2, <1>3, <1>4, <1>5, <1>6, <1>7, <1>8, <1>9 DEF L!Next, L!Calls

-----------------------------------------------------------------------------
(* What is logged                                                             *)

LEMMA Absorbed ==
  ASSUME Types, NEW b \in Block, NoTwice(lh)
  PROVE  /\ NoTwice(L!Absorb(b))
         /\ Len(L!Absorb(b)) <= Len(lh) + 1
         /\ L!Absorb(b) # << >>
         /\ \A c \in Block : (\E i \in 1..Len(L!Absorb(b)) : L!Absorb(b)[i] = c)
                             <=> c = b \/ \E i \in 1..Len(lh) : lh[i] = c
  <1>1. lh \in Seq(Block) /\ Len(lh) \in Nat /\ DOMAIN lh = 1..Len(lh)
    BY LenProperties DEF Types
  <1>2. CASE L!Logged(b)
    <2>1. PICK i \in 1..Len(lh) : lh[i] = b
      BY <1>1, <1>2 DEF L!Logged
    <2>2. L!Absorb(b) = lh
      BY <1>2 DEF L!Absorb
    <2>3. lh # << >>
      BY <1>1, <2>1, EmptySeq
    <2> QED
      BY <1>1, <2>1, <2>2, <2>3
  <1>3. CASE ~L!Logged(b)
    <2>1. L!Absorb(b) = Append(lh, b) /\ \A i \in 1..Len(lh) : lh[i] # b
      BY <1>1, <1>3 DEF L!Absorb, L!Logged
    <2>2. /\ Len(Append(lh, b)) = Len(lh) + 1 /\ Append(lh, b) # << >>
          /\ \A i \in 1..Len(lh) : Append(lh, b)[i] = lh[i]
          /\ Append(lh, b)[Len(lh) + 1] = b
      BY <1>1, AppendProperties
    <2>3. \A i \in 1..Len(lh) + 1 : i \in 1..Len(lh) \/ i = Len(lh) + 1
      BY <1>1
    <2>4. 1..Len(lh) \subseteq 1..Len(lh) + 1 /\ Len(lh) + 1 \in 1..Len(lh) + 1
      BY <1>1
    <2>5. NoTwice(Append(lh, b))
      BY <2>1, <2>2, <2>3 DEF NoTwice
    <2>6. \A c \in Block : (\E i \in 1..Len(lh) + 1 : Append(lh, b)[i] = c)
                           <=> c = b \/ \E i \in 1..Len(lh) : lh[i] = c
      BY <2>2, <2>3, <2>4
    <2> QED
      BY <1>1, <2>1, <2>2, <2>5, <2>6
  <1> QED
    BY <1>2, <1>3

LEMMA Lengths ==
  ASSUME Types
  PROVE  /\ Len(lh) \in Nat /\ Len(head) \in Nat /\ Len(<< >>) = 0
         /\ lh # << >> => Len(lh) >= 1
         /\ NoTwice(<< >>)
  <1>1. Len(lh) \in Nat /\ Len(head) \in Nat /\ Len(<< >>) = 0
    BY LenProperties, EmptySeq DEF Types
  <1>2. lh # << >> => Len(lh) >= 1
    <2>1. lh # << >> => Len(lh) \in Nat \ {0}
      BY EmptySeq DEF Types
    <2> QED
      BY <2>1
  <1>3. NoTwice(<< >>)
    BY <1>1 DEF NoTwice
  <1> QED
    BY <1>1, <1>2, <1>3

LEMMA LogsStep ==
  ASSUME Inv, [L!Next]_(L!vars)
  PROVE  Logs'
  <1>1. Types /\ Control /\ Logs /\ LogSize \in Nat
    BY Constants DEF Inv
  <1>2. /\ Len(lh) \in Nat /\ Len(head) \in Nat /\ Len(<< >>) = 0
        /\ lh # << >> => Len(lh) >= 1
        /\ NoTwice(<< >>)
    BY <1>1, Lengths
  <1>3. tail \in Nat
    BY <1>1 DEF Types
  <1>4. ASSUME UNCHANGED <<lh, head, doing, tail>> PROVE Logs'
    BY <1>1, <1>4 DEF Logs, NoTwice
  <1>5. ASSUME NEW p \in Caller, NEW b \in Block, NEW d \in Data, L!log_write(p, b, d) PROVE Logs'
    <2>1. p \in InCall
      BY <1>5 DEF L!log_write, L!MayWrite, InCall
    <2>2. doing = "nothing" /\ Len(lh) < LogSize
      BY <1>1, <1>2, <1>5, <2>1 DEF Control, L!log_write, L!TooBig
    <2>3. NoTwice(L!Absorb(b)) /\ Len(L!Absorb(b)) <= LogSize
      <3>1. NoTwice(lh) /\ L!Absorb(b) \in Seq(Block)
        BY <1>1, AppendProperties DEF Logs, Types, L!Absorb
      <3>2. Len(L!Absorb(b)) \in Nat
        BY <3>1, LenProperties
      <3> QED
        BY <1>1, <1>2, <2>2, <3>1, <3>2, Absorbed
    <2>4. UNCHANGED <<head, doing, tail>> /\ lh' = L!Absorb(b)
      BY <1>5 DEF L!log_write, L!disk
    <2> QED
      BY <1>1, <2>2, <2>3, <2>4 DEF Logs, NoTwice, Loop
  <1>6. ASSUME NEW p \in Caller, L!end_op(p) PROVE Logs'
    <2>1. p \in InCall
      BY <1>6 DEF L!end_op, InCall
    <2>2. doing = "nothing" /\ head = << >> /\ tail = 1
      BY <1>1, <2>1 DEF Control, Logs, Loop
    <2>3. /\ UNCHANGED <<lh, head, tail>>
          /\ \/ doing' = "nothing"
             \/ doing' = "done" /\ lh = << >>
             \/ doing' = "write_log" /\ lh # << >>
      BY <1>6, <2>2 DEF L!end_op, L!disk
    <2> QED
      BY <1>1, <1>2, <2>2, <2>3 DEF Logs, NoTwice, Loop
  <1>7. ASSUME NEW p \in Caller, L!end_op_done(p) PROVE Logs'
    BY <1>1, <1>7 DEF L!end_op_done, L!disk, Logs, NoTwice, Loop
  <1>8. CASE L!write_log
    <2>1. doing = "write_log" /\ UNCHANGED <<lh, head>> /\ L!AfterLoop("write_head")
      BY <1>8 DEF L!write_log
    <2>2. tail \in 1..Len(lh) /\ head = << >>
      BY <1>1, <2>1 DEF Logs, Loop
    <2>3. lh # << >>
      BY <1>2, <2>2
    <2> QED
      BY <1>1, <1>2, <2>1, <2>2, <2>3 DEF Logs, NoTwice, Loop, L!AfterLoop
  <1>9. CASE L!write_head
    <2>1. doing = "write_head" /\ doing' = "install_trans" /\ head' = lh /\ UNCHANGED <<lh, tail>>
      BY <1>9 DEF L!write_head
    <2>2. tail = 1 /\ lh # << >>
      BY <1>1, <2>1 DEF Logs, Loop
    <2> QED
      BY <1>1, <1>2, <2>1, <2>2 DEF Logs, NoTwice, Loop
  <1>10. CASE L!install_trans
    <2>1. doing = "install_trans" /\ UNCHANGED <<lh, head>> /\ L!AfterLoop("clear")
      BY <1>10 DEF L!install_trans, L!Install
    <2>2. tail \in 1..Len(lh) /\ head = lh
      BY <1>1, <2>1 DEF Logs, Loop
    <2> QED
      BY <1>1, <1>2, <2>1, <2>2 DEF Logs, NoTwice, Loop, L!AfterLoop
  <1>11. CASE L!recover
    <2>1. doing = "recover" /\ UNCHANGED <<lh, head>> /\ L!AfterLoop("erase")
      BY <1>11 DEF L!recover, L!Install
    <2>2. tail \in 1..Len(lh) /\ head = lh
      BY <1>1, <2>1 DEF Logs, Loop
    <2> QED
      BY <1>1, <1>2, <2>1, <2>2 DEF Logs, NoTwice, Loop, L!AfterLoop
  <1>12. CASE L!clear \/ L!erase
    <2>1. doing' \in {"done", "nothing"} /\ lh' = << >> /\ head' = << >> /\ UNCHANGED tail
      BY <1>12 DEF L!clear, L!erase, L!Clear
    <2>2. tail = 1
      BY <1>1, <1>12 DEF L!clear, L!erase, Logs, Loop
    <2> QED
      BY <1>1, <1>2, <2>1, <2>2 DEF Logs, Loop
  <1>13. CASE L!read_head
    <2>1. /\ doing' = IF head = << >> THEN "erase" ELSE "recover"
          /\ lh' = head /\ UNCHANGED <<head, tail>> /\ tail = 1
      BY <1>1, <1>13 DEF L!read_head, L!disk, Logs, Loop
    <2>2. head # << >> => Len(head) >= 1
      <3>1. head # << >> => Len(head) \in Nat \ {0}
        BY <1>1, EmptySeq DEF Types
      <3> QED
        BY <3>1
    <2> QED
      BY <1>1, <1>2, <2>1, <2>2 DEF Logs, NoTwice, Loop
  <1>14. CASE L!Crash
    <2>1. doing' = "read_head" /\ tail' = 1 /\ lh' = << >> /\ UNCHANGED head
      BY <1>14 DEF L!Crash, L!disk
    <2> QED
      BY <1>1, <1>2, <2>1 DEF Logs, NoTwice, Loop
  <1>15. ASSUME \/ \E p \in Caller : L!begin_op(p)
                \/ \E b \in Block : L!bread(b) \/ L!Recycle(b)
                \/ UNCHANGED L!vars
         PROVE  Logs'
    BY <1>4, <1>15 DEF L!begin_op, L!bread, L!Recycle, L!vars, L!disk
  <1> QED
    BY <1>5, <1>6, <1>7, <1>8, <1>9, <1>10, <1>11, <1>12, <1>13, <1>14, <1>15
       DEF L!Next, L!Calls, L!commit, L!recover_from_log

-----------------------------------------------------------------------------
(* The buffers                                                                *)

\* The block a loop is at is none of those before it and none of those after it.
LEMMA AtTail ==
  ASSUME Types, Logs, doing \in Loop
  PROVE  /\ tail \in 1..Len(lh) /\ Len(lh) \in Nat /\ lh[tail] \in Block
         /\ slot[tail] \in Data /\ tail \in 1..LogSize
         /\ \A i \in 1..Len(lh) : lh[i] \in Block /\ (lh[i] = lh[tail] => i = tail)
  <1>1. tail \in 1..Len(lh) /\ Len(lh) \in Nat /\ lh \in Seq(Block) /\ Len(lh) <= LogSize
    BY LenProperties DEF Types, Logs
  <1>2. \A i \in 1..Len(lh) : lh[i] \in Block
    BY <1>1, ElementOfSeq
  <1>3. tail \in 1..LogSize
    BY <1>1, Constants
  <1>4. slot[tail] \in Data
    BY <1>3 DEF Types
  <1>5. \A i \in 1..Len(lh) : lh[i] = lh[tail] => i = tail
    BY <1>1 DEF Logs, NoTwice
  <1> QED
    BY <1>1, <1>2, <1>3, <1>4, <1>5

\* install_trans and recover: one block goes home.
LEMMA InstallEffect ==
  ASSUME Types, Logs, doing \in Loop, L!Install
  PROVE  /\ home'[lh[tail]] = slot[tail] /\ cache'[lh[tail]] = slot[tail]
         /\ \A b \in Block : b # lh[tail] => home'[b] = home[b] /\ cache'[b] = cache[b]
         /\ dirty' = dirty \ {lh[tail]}
         /\ UNCHANGED <<slot, head, lh>>
  BY AtTail DEF L!Install, Types

LEMMA PinnedStep ==
  ASSUME Inv, [L!Next]_(L!vars)
  PROVE  Pinned'
  <1>1. Types /\ Control /\ Logs /\ Pinned
    BY DEF Inv
  <1>2. /\ Len(lh) \in Nat /\ Len(<< >>) = 0 /\ NotCached \notin Data
        /\ \A i \in 1..Len(lh) : lh[i] \in Block
    BY <1>1, Lengths, ElementOfSeq, Constants DEF Types
  <1>3. dirty \subseteq Block /\ tail \in Nat
    BY <1>1 DEF Types
  <1>4. ASSUME NEW b \in Block, L!bread(b) \/ L!Recycle(b) PROVE Pinned'
    <2>1. /\ \A c \in Block : c # b => cache'[c] = cache[c]
          /\ \/ cache[b] = NotCached /\ cache'[b] = home[b]
             \/ b \notin dirty /\ cache'[b] = NotCached
          /\ UNCHANGED <<home, dirty, doing, lh, tail>>
      BY <1>1, <1>4 DEF L!bread, L!Recycle, L!Recyclable, L!disk, Types
    <2>2. home[b] # NotCached
      BY <1>1, <1>2 DEF Types
    <2> QED
      BY <1>1, <1>3, <2>1, <2>2 DEF Pinned
  <1>5. ASSUME NEW p \in Caller, NEW b \in Block, NEW d \in Data, L!log_write(p, b, d) PROVE Pinned'
    <2>1. doing = "nothing"
      BY <1>1, <1>5 DEF Control, L!log_write, L!MayWrite, InCall
    <2>2. /\ cache'[b] = d /\ \A c \in Block : c # b => cache'[c] = cache[c]
          /\ dirty' = dirty \union {b} /\ lh' = L!Absorb(b) /\ UNCHANGED <<home, doing>>
      BY <1>1, <1>5 DEF L!log_write, L!disk, Types
    <2>3. \A c \in Block : (\E i \in 1..Len(lh') : lh'[i] = c)
                           <=> c = b \/ \E i \in 1..Len(lh) : lh[i] = c
      BY <1>1, <2>2, Absorbed DEF Logs
    <2> QED
      BY <1>1, <1>2, <1>3, <2>1, <2>2, <2>3 DEF Pinned
  <1>6. ASSUME NEW p \in Caller, L!end_op(p) PROVE Pinned'
    <2>1. doing = "nothing"
      BY <1>1, <1>6 DEF Control, L!end_op, InCall
    <2>2. /\ UNCHANGED <<home, cache, dirty, lh, tail>>
          /\ \/ doing' \in {"nothing", "write_log"}
             \/ doing' = "done" /\ lh = << >>
      BY <1>6, <2>1 DEF L!end_op, L!disk, L!buffers
    <2>3. lh = << >> => dirty = {}
      BY <1>1, <1>2, <1>3, <2>1 DEF Pinned
    <2> QED
      BY <1>1, <2>1, <2>2, <2>3 DEF Pinned
  <1>7. ASSUME NEW p \in Caller, L!end_op_done(p) PROVE Pinned'
    <2>1. /\ doing = "done" /\ doing' = "nothing" /\ lh = << >> /\ dirty = {}
          /\ UNCHANGED <<home, cache, dirty, lh>>
      BY <1>1, <1>7 DEF L!end_op_done, L!disk, L!buffers, Logs, Pinned
    <2> QED
      BY <1>1, <1>2, <2>1 DEF Pinned
  <1>8. CASE L!write_log
    <2>1. /\ doing = "write_log" /\ doing' \in {"write_log", "write_head"}
          /\ UNCHANGED <<home, cache, dirty, lh>>
      BY <1>8 DEF L!write_log, L!AfterLoop, L!buffers
    <2> QED
      BY <1>1, <2>1 DEF Pinned
  <1>9. CASE L!write_head
    <2>1. /\ doing = "write_head" /\ doing' = "install_trans"
          /\ UNCHANGED <<home, cache, dirty, lh, tail>> /\ tail = 1
      BY <1>1, <1>9 DEF L!write_head, L!buffers, Logs, Loop
    <2> QED
      BY <1>1, <2>1 DEF Pinned
  <1>10. CASE L!install_trans
    <2>1. doing = "install_trans" /\ L!Install /\ L!AfterLoop("clear")
      BY <1>10 DEF L!install_trans
    <2>2. doing \in Loop
      BY <2>1 DEF Loop
    <2>3. /\ tail \in 1..Len(lh) /\ lh[tail] \in Block
          /\ \A i \in 1..Len(lh) : lh[i] = lh[tail] => i = tail
      BY <1>1, <2>2, AtTail
    <2>4. \A b \in Block : b \in dirty' <=> \E i \in tail + 1..Len(lh) : lh[i] = b
      <3>1. \A i \in tail..Len(lh) : i = tail \/ i \in tail + 1..Len(lh)
        BY <1>2, <2>3
      <3>2. \A i \in tail + 1..Len(lh) : i \in tail..Len(lh) /\ i \in 1..Len(lh) /\ i # tail
        BY <1>2, <2>3
      <3> QED
        BY <1>1, <2>1, <2>2, <2>3, <3>1, <3>2, InstallEffect DEF Pinned
    <2>5. /\ \A b \in Block : cache'[b] # NotCached /\ b \notin dirty' => cache'[b] = home'[b]
          /\ \A b \in dirty' : cache'[b] # NotCached
      BY <1>1, <1>3, <2>1, <2>2, InstallEffect DEF Pinned
    <2>6. CASE tail = Len(lh)
      <3>1. doing' = "clear"
        BY <2>1, <2>6 DEF L!AfterLoop
      <3>2. dirty' = {}
        BY <1>1, <1>2, <1>3, <2>1, <2>2, <2>4, <2>6, InstallEffect
      <3> QED
        BY <2>5, <3>1, <3>2 DEF Pinned
    <2>7. CASE tail # Len(lh)
      <3>1. doing' = "install_trans" /\ tail' = tail + 1 /\ lh' = lh
        BY <2>1, <2>7 DEF L!AfterLoop, L!Install
      <3> QED
        BY <2>4, <2>5, <3>1 DEF Pinned
    <2> QED
      BY <2>6, <2>7
  <1>11. CASE L!recover
    <2>1. doing = "recover" /\ L!Install /\ doing' \in {"recover", "erase"}
      BY <1>11 DEF L!recover, L!AfterLoop
    <2>2. doing \in Loop /\ dirty = {}
      BY <1>1, <2>1 DEF Loop, Pinned
    <2> QED
      BY <1>1, <2>1, <2>2, InstallEffect DEF Pinned
  <1>12. CASE L!clear \/ L!read_head
    <2>1. /\ doing \in {"clear", "read_head"} /\ doing' \in {"done", "recover", "erase"}
          /\ UNCHANGED <<home, cache, dirty>>
      BY <1>12 DEF L!clear, L!Clear, L!read_head, L!disk, L!buffers
    <2> QED
      BY <1>1, <2>1 DEF Pinned
  <1>13. CASE L!erase
    <2>1. /\ doing = "erase" /\ doing' = "nothing" /\ lh' = << >> /\ dirty = {}
          /\ UNCHANGED <<home, cache, dirty>>
      BY <1>1, <1>13 DEF L!erase, L!Clear, L!buffers, Pinned
    <2> QED
      BY <1>1, <1>2, <2>1 DEF Pinned
  <1>14. CASE L!Crash
    BY <1>14 DEF L!Crash, Pinned
  <1>15. ASSUME UNCHANGED L!vars \/ \E p \in Caller : L!begin_op(p) PROVE Pinned'
    BY <1>1, <1>15 DEF L!vars, L!begin_op, L!disk, L!buffers, Pinned
  <1> QED
    BY <1>4, <1>5, <1>6, <1>7, <1>8, <1>9, <1>10, <1>11, <1>12, <1>13, <1>14, <1>15
       DEF L!Next, L!Calls, L!commit, L!recover_from_log

-----------------------------------------------------------------------------
(* The copies                                                                 *)

\* Until it is at home, a logged block stays in the cache.
LEMMA LoggedIsCached ==
  ASSUME Types, Pinned
  PROVE  /\ doing \in {"write_log", "write_head"} =>
                \A i \in 1..Len(lh) : lh[i] \in dirty /\ cache[lh[i]] # NotCached
         /\ doing = "install_trans" =>
                \A i \in tail..Len(lh) : i \in 1..Len(lh) =>
                    lh[i] \in dirty /\ cache[lh[i]] # NotCached
  <1>1. \A i \in 1..Len(lh) : lh[i] \in Block
    BY ElementOfSeq DEF Types
  <1> QED
    BY <1>1 DEF Pinned

LEMMA CopiedStep ==
  ASSUME Inv, [L!Next]_(L!vars)
  PROVE  Copied'
  <1>1. Types /\ Control /\ Logs /\ Pinned /\ Copied
    BY DEF Inv
  <1>2. /\ Len(lh) \in Nat /\ Len(<< >>) = 0 /\ tail \in Nat
        /\ \A i \in 1..Len(lh) : lh[i] \in Block
    BY <1>1, Lengths, ElementOfSeq DEF Types
  <1>3. ASSUME NEW b \in Block, L!bread(b) \/ L!Recycle(b) PROVE Copied'
    <2>1. /\ \A c \in Block : c # b => cache'[c] = cache[c]
          /\ cache[b] = NotCached \/ b \notin dirty
          /\ UNCHANGED <<home, slot, doing, lh, tail>>
      BY <1>1, <1>3 DEF L!bread, L!Recycle, L!Recyclable, L!disk, Types
    <2>2. /\ doing \in {"write_log", "write_head"} =>
                 \A i \in 1..Len(lh) : lh[i] # b
          /\ doing = "install_trans" =>
                 \A i \in tail..Len(lh) : i \in 1..Len(lh) => lh[i] # b
      BY <1>1, <2>1, LoggedIsCached
    <2>3. /\ doing = "write_log" => \A i \in 1..tail - 1 : i \in 1..Len(lh)
          /\ doing = "install_trans" => \A i \in tail..Len(lh) : i \in 1..Len(lh)
      BY <1>1, <1>2 DEF Logs, Loop
    <2>4. /\ doing = "write_log" => \A i \in 1..tail - 1 : cache'[lh[i]] = cache[lh[i]]
          /\ doing = "write_head" => \A i \in 1..Len(lh) : cache'[lh[i]] = cache[lh[i]]
          /\ doing = "install_trans" => \A i \in tail..Len(lh) : cache'[lh[i]] = cache[lh[i]]
      BY <1>2, <2>1, <2>2, <2>3
    <2> QED
      BY <1>1, <2>1, <2>4 DEF Copied
  <1>4. ASSUME NEW p \in Caller, NEW b \in Block, NEW d \in Data, L!log_write(p, b, d) PROVE Copied'
    <2>1. doing = "nothing" /\ doing' = doing
      BY <1>1, <1>4 DEF Control, L!log_write, L!MayWrite, InCall
    <2> QED
      BY <2>1 DEF Copied
  <1>5. ASSUME NEW p \in Caller, L!end_op(p) PROVE Copied'
    <2>1. doing = "nothing"
      BY <1>1, <1>5 DEF Control, L!end_op, InCall
    <2>2. doing' \in {"nothing", "write_log", "done"} /\ tail = 1 /\ tail' = tail
      BY <1>1, <1>5, <2>1 DEF L!end_op, Logs, Loop
    <2> QED
      BY <2>2 DEF Copied
  <1>6. ASSUME NEW p \in Caller, L!end_op_done(p) PROVE Copied'
    BY <1>6 DEF L!end_op_done, Copied
  <1>7. CASE L!write_log
    <2>1. /\ doing = "write_log" /\ L!AfterLoop("write_head") /\ UNCHANGED <<cache, lh>>
          /\ slot' = [slot EXCEPT ![tail] = L!Content(lh[tail])]
      BY <1>7 DEF L!write_log, L!buffers
    <2>2. tail \in 1..Len(lh) /\ tail \in 1..LogSize
      BY <1>1, <2>1, AtTail DEF Loop
    <2>3. L!Content(lh[tail]) = cache[lh[tail]]
      BY <1>1, <2>1, <2>2, LoggedIsCached DEF L!Content
    <2>4. slot'[tail] = cache[lh[tail]] /\ \A i \in 1..LogSize : i # tail => slot'[i] = slot[i]
      BY <1>1, <2>1, <2>2, <2>3 DEF Types
    <2>5. \A i \in 1..tail : slot'[i] = cache[lh[i]]
      <3>1. \A i \in 1..tail : i = tail \/ i \in 1..tail - 1
        BY <1>2
      <3>2. \A i \in 1..tail - 1 : i \in 1..LogSize /\ i # tail
        BY <1>2, <2>2, Constants
      <3> QED
        BY <1>1, <2>1, <2>4, <3>1, <3>2 DEF Copied
    <2>6. \/ doing' = "write_head" /\ tail = Len(lh)
          \/ doing' = "write_log" /\ tail' = tail + 1
      BY <2>1 DEF L!AfterLoop
    <2> QED
      BY <1>2, <2>1, <2>5, <2>6 DEF Copied
  <1>8. CASE L!write_head
    <2>1. /\ doing = "write_head" /\ doing' = "install_trans" /\ UNCHANGED <<home, slot, cache, lh, tail>>
          /\ tail = 1
      BY <1>1, <1>8 DEF L!write_head, L!buffers, Logs, Loop
    <2> QED
      BY <1>1, <2>1 DEF Copied
  <1>9. ASSUME L!install_trans \/ L!recover PROVE Copied'
    <2>1. doing \in Loop /\ L!Install /\ doing \in {"install_trans", "recover"}
      BY <1>9 DEF L!install_trans, L!recover, Loop
    <2>2. /\ tail \in 1..Len(lh) /\ lh[tail] \in Block
          /\ \A i \in 1..Len(lh) : lh[i] = lh[tail] => i = tail
      BY <1>1, <2>1, AtTail
    <2>3. /\ home'[lh[tail]] = slot[tail]
          /\ \A b \in Block : b # lh[tail] => home'[b] = home[b] /\ cache'[b] = cache[b]
          /\ UNCHANGED <<slot, lh>>
      BY <1>1, <2>1, InstallEffect
    <2>4. \A i \in 1..tail : home'[lh[i]] = slot[i]
      <3>1. \A i \in 1..tail : i = tail \/ i \in 1..tail - 1
        BY <1>2
      <3>2. \A i \in 1..tail - 1 : i \in 1..Len(lh) /\ i # tail
        BY <1>2, <2>2
      <3> QED
        BY <1>1, <1>2, <2>1, <2>2, <2>3, <3>1, <3>2 DEF Copied
    <2>5. doing = "install_trans" => \A i \in tail + 1..Len(lh) : slot[i] = cache'[lh[i]]
      <3>1. \A i \in tail + 1..Len(lh) : i \in tail..Len(lh) /\ i \in 1..Len(lh) /\ i # tail
        BY <1>2, <2>2
      <3> QED
        BY <1>1, <1>2, <2>2, <2>3, <3>1 DEF Copied
    <2>6. \/ doing' \in {"clear", "erase"} /\ tail = Len(lh)
          \/ doing' = doing /\ tail' = tail + 1
      BY <1>9 DEF L!install_trans, L!recover, L!AfterLoop
    <2> QED
      BY <1>2, <2>1, <2>3, <2>4, <2>5, <2>6 DEF Copied
  <1>10. CASE L!clear \/ L!erase
    BY <1>10 DEF L!clear, L!erase, Copied
  <1>11. CASE L!read_head
    <2>1. /\ doing' = IF head = << >> THEN "erase" ELSE "recover"
          /\ lh' = head /\ tail' = tail /\ tail = 1
      BY <1>1, <1>11 DEF L!read_head, Logs, Loop
    <2> QED
      BY <1>2, <2>1 DEF Copied
  <1>12. CASE L!Crash
    BY <1>12 DEF L!Crash, Copied
  <1>13. ASSUME UNCHANGED L!vars \/ \E p \in Caller : L!begin_op(p) PROVE Copied'
    BY <1>1, <1>13 DEF L!vars, L!begin_op, L!disk, L!buffers, Copied
  <1> QED
    BY <1>3, <1>4, <1>5, <1>6, <1>7, <1>8, <1>9, <1>10, <1>11, <1>12, <1>13
       DEF L!Next, L!Calls, L!commit, L!recover_from_log

LEMMA InvStep ==
  ASSUME Inv, [L!Next]_(L!vars)
  PROVE  Inv'
  BY TypesStep, CountedStep, ControlStep, LogsStep, PinnedStep, CopiedStep DEF Inv

(* Everything the log keeps track of stays in its range and consistent: what  *)
(* log.lh, the header on the disk, the pinned buffers and the two loops say   *)
(* of each other between any two writes and after any crash.                  *)
THEOREM LogConsistent == L!Spec => []Inv
  <1>1. L!Init => Inv
    BY InvInit
  <1>2. Inv /\ [L!Next]_(L!vars) => Inv'
    BY InvStep
  <1> QED
    BY <1>1, <1>2, PTL DEF L!Spec

-----------------------------------------------------------------------------
(* The refinement                                                             *)

\* What a header h with log blocks s makes of the blocks m.
RecoveredOf(h, s, m) ==
    [b \in Block |-> IF \E i \in DOMAIN h : h[i] = b
                    THEN s[CHOOSE i \in DOMAIN h : h[i] = b] ELSE m[b]]

LEMMA RecoveredBlocks ==
  ASSUME NEW h \in Seq(Block), NEW s, NEW m, NoTwice(h)
  PROVE  /\ \A i \in 1..Len(h) : RecoveredOf(h, s, m)[h[i]] = s[i]
         /\ \A b \in Block : (\A i \in 1..Len(h) : h[i] # b) => RecoveredOf(h, s, m)[b] = m[b]
         /\ RecoveredOf(h, s, m) = [b \in Block |-> RecoveredOf(h, s, m)[b]]
  <1>1. DOMAIN h = 1..Len(h)
    BY LenProperties
  <1>2. ASSUME NEW i \in 1..Len(h) PROVE RecoveredOf(h, s, m)[h[i]] = s[i]
    <2>1. h[i] \in Block
      BY ElementOfSeq
    <2>2. (CHOOSE j \in 1..Len(h) : h[j] = h[i]) = i
      BY DEF NoTwice
    <2> QED
      BY <1>1, <2>1, <2>2 DEF RecoveredOf
  <1>3. ASSUME NEW b \in Block, \A i \in 1..Len(h) : h[i] # b
        PROVE  RecoveredOf(h, s, m)[b] = m[b]
    BY <1>1, <1>3 DEF RecoveredOf
  <1>4. RecoveredOf(h, s, m) = [b \in Block |-> RecoveredOf(h, s, m)[b]]
    BY DEF RecoveredOf
  <1> QED
    BY <1>2, <1>3, <1>4

Contents == [b \in Block |-> L!Content(b)]
Current == IF L!Recovering THEN L!Recovered ELSE Contents

LEMMA RecoveredEmpty ==
  ASSUME NEW s, NEW m \in [Block -> Data]
  PROVE  RecoveredOf(<< >>, s, m) = m
  <1>1. \A i \in DOMAIN << >> : FALSE
    BY EmptySeq, LenProperties
  <1> QED
    BY <1>1 DEF RecoveredOf

\* The blocks seen are those at home, but for the dirty ones.
LEMMA CleanContents ==
  ASSUME Types, Pinned
  PROVE  /\ \A b \in Block : b \notin dirty => L!Content(b) = home[b]
         /\ dirty = {} => Contents = home
  BY DEF Types, Pinned, L!Content, Contents

\* An idle log: what is seen is what a crash would leave.
LEMMA QuietIsStable ==
  ASSUME Types, Control, Logs, Pinned, doing = "nothing", InCall = {}
  PROVE  L!Recovered = Contents
  <1>1. lh = << >> /\ head = << >> /\ Len(<< >>) = 0
    BY EmptySeq DEF Control, Logs
  <1>2. dirty = {}
    BY <1>1 DEF Pinned, Types
  <1>3. L!Recovered = RecoveredOf(<< >>, slot, home)
    BY <1>1 DEF L!Recovered, RecoveredOf
  <1> QED
    BY <1>2, <1>3, RecoveredEmpty, CleanContents DEF Types

LEMMA RefinesInit == L!Init => L!Promise!Init
  <1> SUFFICES ASSUME L!Init PROVE L!Promise!Init
    OBVIOUS
  <1>1. L!Recovering /\ {p \in Caller : at[p] = "in_call"} = {}
    BY DEF L!Init, L!Recovering
  <1>2. L!Recovered = [b \in Block |-> InitialData]
    <2>1. home \in [Block -> Data]
      BY Constants DEF L!Init
    <2>2. L!Recovered = RecoveredOf(<< >>, slot, home)
      BY DEF L!Init, L!Recovered, RecoveredOf
    <2> QED
      BY <2>1, <2>2, RecoveredEmpty DEF L!Init
  <1> QED
    BY <1>1, <1>2 DEF L!Promise!Init

\* The steps of AtomicDisk, in terms of the log.
LEMMA AbstractSteps ==
  /\ InCall' = InCall /\ Current' = Current /\ L!Recovered' = L!Recovered => UNCHANGED L!Promise!vars
  /\ \A p \in Caller : /\ p \notin InCall /\ InCall' = InCall \union {p}
                       /\ InCall = {} => L!Recovered = Current
                       /\ Current' = Current /\ L!Recovered' = L!Recovered
                       => L!Promise!Next
  /\ \A p \in Caller : /\ p \in InCall /\ InCall' = InCall \ {p}
                       /\ Current' = Current /\ L!Recovered' = L!Recovered
                       => L!Promise!Next
  /\ \A p \in Caller, b \in Block, d \in Data :
         /\ p \in InCall /\ InCall' = InCall /\ L!Recovered' = L!Recovered
         /\ Current' = [Current EXCEPT ![b] = d]
         => L!Promise!Next
  /\ InCall = {} /\ InCall' = InCall /\ L!Recovered' = Current /\ Current' = Current => L!Promise!Next
  /\ InCall' = {} /\ Current' = L!Recovered /\ L!Recovered' = L!Recovered => L!Promise!Next
  BY DEF InCall, Current, Contents, L!Promise!vars, L!Promise!Next, L!Promise!Begin, L!Promise!End,
         L!Promise!Write, L!Promise!Save, L!Promise!Crash

\* A step that leaves the disk and the contents of the blocks alone.
LEMMA SameContents ==
  ASSUME UNCHANGED <<home, slot, head>>, L!Recovering' <=> L!Recovering,
         \A b \in Block : L!Content(b)' = L!Content(b)
  PROVE  L!Recovered' = L!Recovered /\ Current' = Current
  <1>1. L!Recovered' = L!Recovered
    BY DEF L!Recovered
  <1>2. Contents' = Contents
    BY DEF Contents
  <1> QED
    BY <1>1, <1>2 DEF Current

LEMMA RefinesCalls ==
  ASSUME Inv, NEW p \in Caller,
         \/ L!begin_op(p) \/ L!end_op(p) \/ L!end_op_done(p)
         \/ \E b \in Block, d \in Data : L!log_write(p, b, d)
  PROVE  [L!Promise!Next]_(L!Promise!vars)
  <1>1. Types /\ Counted /\ Control /\ Logs /\ Pinned
    BY DEF Inv
  <1>2. CASE L!begin_op(p)
    <2>1. UNCHANGED <<home, slot, head, cache, doing>>
      BY <1>2 DEF L!begin_op, L!disk, L!buffers
    <2>2. L!Recovered' = L!Recovered /\ Current' = Current
      BY <2>1, SameContents DEF L!Recovering, L!Content
    <2>3. ~committing => doing = "nothing"
      BY <1>1, <1>2 DEF Control, Types, L!begin_op, L!Recovering
    <2>4. ~committing /\ InCall = {} => L!Recovered = Current
      BY <1>1, <2>3, QuietIsStable DEF Current, L!Recovering
    <2>5. CASE InCall' = InCall
      BY <2>2, <2>5, AbstractSteps
    <2>6. CASE ~committing /\ p \notin InCall /\ InCall' = InCall \union {p}
      <3>1. InCall = {} => L!Recovered = Current
        BY <2>4, <2>6
      <3>2. L!Promise!Begin(p)
        BY <2>2, <2>6, <3>1 DEF L!Promise!Begin, InCall, Current, Contents
      <3> QED
        BY <3>2 DEF L!Promise!Next
    <2> QED
      BY <1>1, <1>2, <2>5, <2>6, InCallBegin
  <1>3. CASE L!end_op(p)
    <2>1. InCall' = InCall \ {p} /\ p \in InCall
      BY <1>1, <1>3, InCallEnd
    <2>2. UNCHANGED <<home, slot, head, cache>> /\ doing' \in {doing, "done", "write_log"}
      BY <1>3 DEF L!end_op, L!disk, L!buffers
    <2>3. ~L!Recovering /\ ~L!Recovering'
      BY <1>1, <2>1, <2>2 DEF Control, L!Recovering
    <2>4. L!Recovered' = L!Recovered /\ Current' = Current
      BY <2>2, <2>3, SameContents DEF L!Content
    <2> QED
      BY <2>1, <2>4, AbstractSteps
  <1>4. CASE L!end_op_done(p)
    <2>1. InCall' = InCall
      BY <1>1, <1>4, InCallDone
    <2>2. UNCHANGED <<home, slot, head, cache>> /\ ~L!Recovering /\ ~L!Recovering'
      BY <1>4 DEF L!end_op_done, L!disk, L!buffers, L!Recovering
    <2>3. L!Recovered' = L!Recovered /\ Current' = Current
      BY <2>2, SameContents DEF L!Content
    <2> QED
      BY <2>1, <2>3, AbstractSteps
  <1>5. ASSUME NEW b \in Block, NEW d \in Data, L!log_write(p, b, d)
        PROVE  L!Promise!Next
    <2>1. InCall' = InCall /\ p \in InCall
      BY <1>1, <1>5, InCallOther DEF L!log_write, L!MayWrite, InCall
    <2>2. /\ UNCHANGED <<home, slot, head, doing>> /\ cache' = [cache EXCEPT ![b] = d]
          /\ d # NotCached
      BY <1>5, Constants DEF L!log_write, L!disk
    <2>3. ~L!Recovering /\ ~L!Recovering'
      BY <1>1, <2>1, <2>2 DEF Control, L!Recovering
    <2>4. Contents' = [Contents EXCEPT ![b] = d]
      BY <1>1, <2>2 DEF Types, Contents, L!Content
    <2>5. L!Recovered' = L!Recovered
      BY <2>2 DEF L!Recovered
    <2> QED
      BY <2>1, <2>3, <2>4, <2>5, AbstractSteps DEF Current
  <1> QED
    BY <1>2, <1>3, <1>4, <1>5

LEMMA RefinesBuffers ==
  ASSUME Inv, NEW b \in Block, L!bread(b) \/ L!Recycle(b)
  PROVE  UNCHANGED L!Promise!vars
  <1>1. Types /\ Pinned
    BY DEF Inv
  <1>2. InCall' = InCall
    BY <1>1, InCallOther
  <1>3. UNCHANGED <<home, slot, head, doing>>
    BY DEF L!bread, L!Recycle, L!disk
  <1>4. \A c \in Block : L!Content(c)' = L!Content(c)
    <2>1. /\ \A c \in Block : c # b => cache'[c] = cache[c]
          /\ \/ cache[b] = NotCached /\ cache'[b] = home[b]
             \/ cache[b] = home[b] /\ cache'[b] = NotCached
      BY <1>1 DEF L!bread, L!Recycle, L!Recyclable, Types, Pinned
    <2> QED
      BY <1>3, <2>1 DEF L!Content
  <1>5. L!Recovered' = L!Recovered /\ Current' = Current
    BY <1>3, <1>4, SameContents DEF L!Recovering
  <1> QED
    BY <1>2, <1>5, AbstractSteps

\* Two disks on which a header makes the same of all blocks.
LEMMA SameRecovered ==
  ASSUME NEW h \in Seq(Block), NoTwice(h), NEW s, NEW m, NEW n,
         \A b \in Block : (\A i \in 1..Len(h) : h[i] # b) => m[b] = n[b]
  PROVE  RecoveredOf(h, s, m) = RecoveredOf(h, s, n)
  <1>1. DOMAIN h = 1..Len(h)
    BY LenProperties
  <1> QED
    BY <1>1 DEF RecoveredOf

\* What is all at home needs no header.
LEMMA AllAtHome ==
  ASSUME Types, Logs, Copied, doing \in {"clear", "erase"}
  PROVE  L!Recovered = home
  <1>1. head \in Seq(Block) /\ NoTwice(head) /\ \A i \in 1..Len(head) : home[head[i]] = slot[i]
    BY DEF Types, Logs, Copied
  <1>2. L!Recovered = RecoveredOf(head, slot, home)
    BY DEF L!Recovered, RecoveredOf
  <1>3. \A b \in Block : RecoveredOf(head, slot, home)[b] = home[b]
    <2> TAKE b \in Block
    <2>1. CASE \E i \in 1..Len(head) : head[i] = b
      BY <1>1, <2>1, RecoveredBlocks
    <2>2. CASE \A i \in 1..Len(head) : head[i] # b
      BY <1>1, <2>2, RecoveredBlocks
    <2> QED
      BY <2>1, <2>2
  <1>4. L!Recovered = [b \in Block |-> home[b]]
    BY <1>2, <1>3 DEF RecoveredOf
  <1> QED
    BY <1>4 DEF Types

\* A block that goes home from the log changes nothing a crash would leave.
LEMMA InstallRecovers ==
  ASSUME Types, Logs, doing \in {"install_trans", "recover"}, L!Install
  PROVE  L!Recovered' = L!Recovered
  <1>1. head \in Seq(Block) /\ NoTwice(head) /\ head = lh /\ doing \in Loop
    BY DEF Types, Logs, Loop
  <1>2. tail \in 1..Len(head) /\ UNCHANGED <<head, slot>>
    BY <1>1, AtTail, InstallEffect
  <1>3. \A b \in Block : (\A i \in 1..Len(head) : head[i] # b) => home'[b] = home[b]
    BY <1>1, <1>2, InstallEffect
  <1>4. L!Recovered = RecoveredOf(head, slot, home) /\ L!Recovered' = RecoveredOf(head, slot, home')
    BY <1>2 DEF L!Recovered, RecoveredOf
  <1> QED
    BY <1>1, <1>3, <1>4, SameRecovered

LEMMA RefinesCommit ==
  ASSUME Inv, L!commit
  PROVE  [L!Promise!Next]_(L!Promise!vars)
  <1>1. Types /\ Control /\ Logs /\ Pinned /\ Copied
    BY DEF Inv
  <1>2. InCall = {} /\ InCall' = InCall
    BY <1>1, InCallOther DEF Control, L!commit, L!write_log, L!write_head, L!install_trans, L!clear
  <1>3. CASE L!write_log
    <2>1. /\ head = << >> /\ UNCHANGED <<home, head, cache>> /\ ~L!Recovering /\ ~L!Recovering'
      BY <1>1, <1>3 DEF L!write_log, L!AfterLoop, Logs, L!buffers, L!Recovering
    <2>2. L!Recovered = RecoveredOf(<< >>, slot, home) /\ L!Recovered' = RecoveredOf(<< >>, slot', home)
      BY <2>1 DEF L!Recovered, RecoveredOf
    <2>3. L!Recovered' = L!Recovered
      BY <1>1, <2>2, RecoveredEmpty DEF Types
    <2>4. Contents' = Contents
      BY <2>1 DEF Contents, L!Content
    <2> QED
      BY <1>2, <2>1, <2>3, <2>4, AbstractSteps DEF Current
  <1>4. CASE L!write_head
    <2>1. /\ doing = "write_head" /\ head' = lh /\ UNCHANGED <<home, slot, cache>>
          /\ ~L!Recovering /\ ~L!Recovering'
      BY <1>4 DEF L!write_head, L!buffers, L!Recovering
    <2>2. L!Recovered' = RecoveredOf(lh, slot, home)
      BY <2>1 DEF L!Recovered, RecoveredOf
    <2>3. lh \in Seq(Block) /\ NoTwice(lh)
      BY <1>1 DEF Types, Logs
    <2>4. \A b \in Block : RecoveredOf(lh, slot, home)[b] = L!Content(b)
      <3> TAKE b \in Block
      <3>1. CASE \E i \in 1..Len(lh) : lh[i] = b
        <4>1. PICK i \in 1..Len(lh) : lh[i] = b
          BY <3>1
        <4>2. slot[i] = cache[b] /\ cache[b] # NotCached
          BY <1>1, <2>1, <4>1, LoggedIsCached DEF Copied
        <4> QED
          BY <2>3, <4>1, <4>2, RecoveredBlocks DEF L!Content
      <3>2. CASE \A i \in 1..Len(lh) : lh[i] # b
        <4>1. b \notin dirty
          BY <1>1, <2>1, <3>2 DEF Pinned
        <4> QED
          BY <1>1, <2>3, <3>2, <4>1, RecoveredBlocks, CleanContents
      <3> QED
        BY <3>1, <3>2
    <2>5. L!Recovered' = Contents
      BY <2>2, <2>4 DEF Contents, RecoveredOf
    <2>6. Contents' = Contents
      BY <2>1 DEF Contents, L!Content
    <2> QED
      BY <1>2, <2>1, <2>5, <2>6, AbstractSteps DEF Current
  <1>5. CASE L!install_trans
    <2>1. doing = "install_trans" /\ L!Install /\ ~L!Recovering /\ ~L!Recovering' /\ doing \in Loop
      BY <1>5 DEF L!install_trans, L!AfterLoop, L!Recovering, Loop
    <2>2. L!Recovered' = L!Recovered
      BY <1>1, <2>1, InstallRecovers
    <2>3. /\ tail \in 1..Len(lh) /\ lh[tail] \in Block /\ slot[tail] \in Data
          /\ Len(lh) \in Nat
      BY <1>1, <2>1, AtTail
    <2>4. slot[tail] = cache[lh[tail]] /\ slot[tail] # NotCached
      BY <1>1, <2>1, <2>3, Constants DEF Copied
    <2>5. \A b \in Block : L!Content(b)' = L!Content(b)
      BY <1>1, <2>1, <2>3, <2>4, InstallEffect DEF L!Content
    <2>6. Contents' = Contents
      BY <2>5 DEF Contents
    <2> QED
      BY <1>2, <2>1, <2>2, <2>6, AbstractSteps DEF Current
  <1>6. CASE L!clear
    <2>1. /\ doing = "clear" /\ head' = << >> /\ UNCHANGED <<home, slot, cache>>
          /\ ~L!Recovering /\ ~L!Recovering'
      BY <1>6 DEF L!clear, L!Clear, L!buffers, L!Recovering
    <2>2. L!Recovered' = RecoveredOf(<< >>, slot, home)
      BY <2>1 DEF L!Recovered, RecoveredOf
    <2>3. L!Recovered' = L!Recovered
      BY <1>1, <2>1, <2>2, RecoveredEmpty, AllAtHome DEF Types
    <2>4. Contents' = Contents
      BY <2>1 DEF Contents, L!Content
    <2> QED
      BY <1>2, <2>1, <2>3, <2>4, AbstractSteps DEF Current
  <1> QED
    BY <1>3, <1>4, <1>5, <1>6 DEF L!commit

LEMMA RefinesRecovery ==
  ASSUME Inv, L!recover_from_log
  PROVE  [L!Promise!Next]_(L!Promise!vars)
  <1>1. Types /\ Control /\ Logs /\ Pinned /\ Copied
    BY DEF Inv
  <1>2. InCall' = InCall
    BY <1>1, InCallOther
  <1>3. CASE L!read_head
    <2>1. UNCHANGED <<home, slot, head>> /\ L!Recovering /\ L!Recovering'
      BY <1>3 DEF L!read_head, L!disk, L!Recovering
    <2>2. L!Recovered' = L!Recovered
      BY <2>1 DEF L!Recovered
    <2> QED
      BY <1>2, <2>1, <2>2, AbstractSteps DEF Current
  <1>4. CASE L!recover
    <2>1. doing = "recover" /\ L!Install /\ L!Recovering /\ L!Recovering'
      BY <1>4 DEF L!recover, L!AfterLoop, L!Recovering
    <2>2. L!Recovered' = L!Recovered
      BY <1>1, <2>1, InstallRecovers
    <2> QED
      BY <1>2, <2>1, <2>2, AbstractSteps DEF Current
  <1>5. CASE L!erase
    <2>1. /\ doing = "erase" /\ head' = << >> /\ UNCHANGED <<home, slot, cache>>
          /\ L!Recovering /\ ~L!Recovering' /\ dirty = {}
      BY <1>1, <1>5 DEF L!erase, L!Clear, L!buffers, L!Recovering, Pinned
    <2>2. L!Recovered' = RecoveredOf(<< >>, slot, home)
      BY <2>1 DEF L!Recovered, RecoveredOf
    <2>3. L!Recovered' = home /\ L!Recovered = home
      BY <1>1, <2>1, <2>2, RecoveredEmpty, AllAtHome DEF Types
    <2>4. Contents = home /\ Contents' = Contents
      BY <1>1, <2>1, CleanContents DEF Contents, L!Content
    <2> QED
      BY <1>2, <2>1, <2>3, <2>4, AbstractSteps DEF Current
  <1> QED
    BY <1>3, <1>4, <1>5 DEF L!recover_from_log

LEMMA RefinesCrash ==
  ASSUME L!Crash
  PROVE  L!Promise!Next
  <1>1. L!Recovered' = L!Recovered /\ L!Recovering'
    BY DEF L!Crash, L!disk, L!Recovered, L!Recovering
  <1> QED
    BY <1>1, InCallCrash, AbstractSteps DEF Current

LEMMA RefinesStep ==
  ASSUME Inv, [L!Next]_(L!vars)
  PROVE  [L!Promise!Next]_(L!Promise!vars)
  <1>1. CASE UNCHANGED L!vars
    BY <1>1, AbstractSteps DEF L!vars, InCall, Current, Contents, L!Content, L!Recovered, L!Recovering
  <1>2. CASE L!Next
    BY <1>2, RefinesCalls, RefinesBuffers, RefinesCommit, RefinesRecovery, RefinesCrash
       DEF L!Next, L!Calls
  <1> QED
    BY <1>1, <1>2

(* The log does what its comment promises, "any sequence of writes between    *)
(* begin_op() and end_op() happens entirely or not at all" with those that    *)
(* overlap it: every step of log.c and every crash is a step of AtomicDisk.   *)
THEOREM LogIsAtomic == L!Spec => ImplementsAtomicDisk
  <1>1. L!Init => L!Promise!Init
    BY RefinesInit
  <1>2. Inv /\ [L!Next]_(L!vars) => [L!Promise!Next]_(L!Promise!vars)
    BY RefinesStep
  <1> QED
    BY <1>1, <1>2, LogConsistent, PTL DEF L!Spec, ImplementsAtomicDisk, L!ImplementsAtomicDisk, L!Promise!Spec
=============================================================================
