-------------------------- MODULE MultilevelProof --------------------------
(* Theorems about Multilevel for any number of processors, pids and slots.    *)
EXTENDS Multilevel, FiniteSetTheorems, SequenceTheorems, TLAPS

LEMMA Constants ==
  /\ MaxPid \in Nat \ {0} /\ Nproc \in Nat \ {0} /\ None \notin Pid
  /\ 1 \in Pid /\ Pid \subseteq Nat /\ IsFiniteSet(Pid)
  <1>1. MaxPid \in Nat \ {0} /\ Nproc \in Nat \ {0} /\ None \notin Pid
    BY ConstantsAssumption DEF ConstantsAssumption
  <1> QED
    BY <1>1, FS_Interval DEF Pid

-----------------------------------------------------------------------------
(* Lines of processes.                                                        *)

LEMMA LineLength ==
  ASSUME NEW s \in Seq(Pid), IsInjective(s), NEW U, IsFiniteSet(U), Range(s) \subseteq U
  PROVE  Len(s) <= Cardinality(U)
  <1>1. Len(s) \in Nat /\ s \in [1..Len(s) -> U]
    BY LenProperties DEF Range
  <1>2. s \in Injection(1..Len(s), U)
    BY <1>1 DEF Injection
  <1>3. IsFiniteSet(1..Len(s)) /\ Cardinality(1..Len(s)) = Len(s)
    BY <1>1, FS_Interval
  <1> QED
    BY <1>2, <1>3, FS_Injection

LEMMA Joined ==
  ASSUME NEW s \in Seq(Pid), NEW p \in Pid, IsInjective(s), p \notin Range(s)
  PROVE  /\ Append(s, p) \in Seq(Pid) /\ IsInjective(Append(s, p))
         /\ Range(Append(s, p)) = Range(s) \union {p}
  <1> PICK t : t = Append(s, p)
    OBVIOUS
  <1>1. /\ t \in Seq(Pid) /\ Len(t) = Len(s) + 1 /\ t[Len(s) + 1] = p /\ \A i \in 1..Len(s) : t[i] = s[i]
        /\ Len(s) \in Nat /\ DOMAIN s = 1..Len(s) /\ DOMAIN t = 1..Len(s) + 1
    BY AppendProperties, LenProperties
  <1>2. \A i \in 1..Len(s) : s[i] # p
    BY <1>1 DEF Range
  <1>3. IsInjective(t)
    BY <1>1, <1>2 DEF IsInjective
  <1>4. Range(t) = Range(s) \union {p}
    BY <1>1 DEF Range
  <1> QED
    BY <1>1, <1>3, <1>4

LEMMA UpTo ==
  ASSUME NEW n \in Nat
  PROVE  IsFiniteSet(1..n) /\ Cardinality(1..n) = n
  BY FS_Interval

\* t is s of length n without the one at i, those before it at the end.
IsTurned(t, s, n, i) ==
    /\ DOMAIN s = 1..n /\ DOMAIN t = 1..n - 1
    /\ \A j \in 1..n - 1 : t[j] = IF j <= n - i THEN s[i + j] ELSE s[j - (n - i)]

LEMMA TurnedElements ==
  ASSUME NEW n \in Nat, NEW s, NEW t, NEW i \in 1..n, IsTurned(t, s, n, i), IsInjective(s)
  PROVE  IsInjective(t) /\ Range(t) = Range(s) \ {s[i]}
  <1> USE DEF IsTurned
  <1>1. \A j, k \in 1..n : s[j] = s[k] => j = k
    BY DEF IsInjective
  <1>2. ASSUME NEW j \in 1..n - 1
        PROVE  \E k \in 1..n : k # i /\ t[j] = s[k] /\ k = IF j <= n - i THEN i + j ELSE j - (n - i)
    <2>1. CASE j <= n - i
      <3>1. i + j \in 1..n /\ i + j # i
        BY <2>1
      <3> QED
        BY <2>1, <3>1
    <2>2. CASE ~(j <= n - i)
      <3>1. j - (n - i) \in 1..n /\ j - (n - i) # i
        BY <2>2
      <3> QED
        BY <2>2, <3>1
    <2> QED
      BY <2>1, <2>2
  <1>3. IsInjective(t)
    <2> SUFFICES ASSUME NEW j \in 1..n - 1, NEW k \in 1..n - 1, t[j] = t[k] PROVE j = k
      BY DEF IsInjective
    <2>1. PICK a \in 1..n : t[j] = s[a] /\ a = IF j <= n - i THEN i + j ELSE j - (n - i)
      BY <1>2
    <2>2. PICK b \in 1..n : t[k] = s[b] /\ b = IF k <= n - i THEN i + k ELSE k - (n - i)
      BY <1>2
    <2>3. a = b
      BY <1>1, <2>1, <2>2
    <2> QED
      BY <2>1, <2>2, <2>3
  <1>4. ASSUME NEW k \in 1..n, k # i PROVE \E j \in 1..n - 1 : t[j] = s[k]
    <2>1. CASE k > i
      <3>1. k - i \in 1..n - 1 /\ k - i <= n - i /\ i + (k - i) = k
        BY <2>1
      <3>2. t[k - i] = s[k]
        BY <3>1
      <3> QED
        BY <3>1, <3>2
    <2>2. CASE ~(k > i)
      <3>1. k + (n - i) \in 1..n - 1 /\ ~(k + (n - i) <= n - i) /\ k + (n - i) - (n - i) = k
        BY <1>4, <2>2
      <3>2. t[k + (n - i)] = s[k]
        BY <3>1
      <3> QED
        BY <3>1, <3>2
    <2> QED
      BY <2>1, <2>2
  <1>5. ASSUME NEW j \in 1..n - 1 PROVE t[j] \in Range(s) \ {s[i]}
    <2>1. PICK k \in 1..n : k # i /\ t[j] = s[k]
      BY <1>2
    <2>2. s[k] \in Range(s) /\ s[k] # s[i]
      BY <1>1, <2>1 DEF Range
    <2> QED
      BY <2>1, <2>2
  <1>6. \A x \in Range(s) \ {s[i]} : \E k \in 1..n : k # i /\ x = s[k]
    BY DEF Range
  <1>7. \A x \in Range(s) \ {s[i]} : \E j \in 1..n - 1 : t[j] = x
    BY <1>4, <1>6
  <1>8. Range(t) = {t[j] : j \in 1..n - 1}
    BY DEF Range
  <1>9. Range(t) = Range(s) \ {s[i]}
    BY <1>5, <1>7, <1>8
  <1> QED
    BY <1>3, <1>9

\* The part of a line from i to j.
LEMMA PartOfLine ==
  ASSUME NEW s \in Seq(Pid), NEW i \in 1..Len(s) + 1, NEW j \in 0..Len(s), i <= j + 1
  PROVE  /\ SubSeq(s, i, j) \in Seq(Pid) /\ Len(SubSeq(s, i, j)) = j - i + 1
         /\ \A k \in 1..j - i + 1 : SubSeq(s, i, j)[k] = s[i + k - 1]
  <1>1. Len(s) \in Nat /\ \A k \in 1..Len(s) : s[k] \in Pid
    BY LenProperties, ElementOfSeq
  <1>2. \A k \in i..j : s[k] \in Pid
    BY <1>1
  <1>3. /\ SubSeq(s, i, j) \in Seq(Pid) /\ Len(SubSeq(s, i, j)) = IF i <= j THEN j - i + 1 ELSE 0
        /\ \A k \in 1..j - i + 1 : SubSeq(s, i, j)[k] = s[i + k - 1]
    BY <1>1, <1>2, SubSeqProperties
  <1>4. (IF i <= j THEN j - i + 1 ELSE 0) = j - i + 1
    BY <1>1
  <1> QED
    BY <1>3, <1>4

\* The one at i leaves, those before it go to the end.
LEMMA Turned ==
  ASSUME NEW s \in Seq(Pid), IsInjective(s), NEW i \in DOMAIN s
  PROVE  LET t == SubSeq(s, i + 1, Len(s)) \o SubSeq(s, 1, i - 1)
         IN  t \in Seq(Pid) /\ IsInjective(t) /\ Range(t) = Range(s) \ {s[i]}
  <1>0. PICK a, b, t, n : a = SubSeq(s, i + 1, Len(s)) /\ b = SubSeq(s, 1, i - 1) /\ t = a \o b /\ n = Len(s)
    OBVIOUS
  <1>1. n \in Nat /\ DOMAIN s = 1..n /\ i \in 1..n
    BY <1>0, LenProperties
  <1>2. a \in Seq(Pid) /\ Len(a) = n - i /\ \A j \in 1..n - i : a[j] = s[i + j]
    <2>1. i + 1 \in 1..n + 1 /\ n \in 0..n /\ i + 1 <= n + 1 /\ n - (i + 1) + 1 = n - i
      BY <1>1
    <2>2. /\ a \in Seq(Pid) /\ Len(a) = n - (i + 1) + 1
          /\ \A k \in 1..n - (i + 1) + 1 : a[k] = s[i + 1 + k - 1]
      BY <1>0, <2>1, PartOfLine
    <2>3. \A k \in 1..n - i : i + 1 + k - 1 = i + k
      BY <1>1
    <2> QED
      BY <2>1, <2>2, <2>3
  <1>3. b \in Seq(Pid) /\ Len(b) = i - 1 /\ \A j \in 1..i - 1 : b[j] = s[j]
    <2>1. 1 \in 1..n + 1 /\ i - 1 \in 0..n /\ 1 <= i - 1 + 1 /\ i - 1 - 1 + 1 = i - 1
      BY <1>1
    <2>2. /\ b \in Seq(Pid) /\ Len(b) = i - 1 - 1 + 1
          /\ \A k \in 1..i - 1 - 1 + 1 : b[k] = s[1 + k - 1]
      BY <1>0, <2>1, PartOfLine
    <2>3. \A k \in 1..i - 1 : 1 + k - 1 = k
      BY <1>1
    <2> QED
      BY <2>1, <2>2, <2>3
  <1>4. /\ t \in Seq(Pid) /\ DOMAIN t = 1..n - 1
        /\ \A j \in 1..n - 1 : t[j] = IF j <= n - i THEN s[i + j] ELSE s[j - (n - i)]
    <2>1. t \in Seq(Pid)
      BY <1>0, <1>2, <1>3, ConcatProperties
    <2>a. /\ Len(a \o b) = Len(a) + Len(b)
          /\ \A j \in 1..Len(a) + Len(b) : (a \o b)[j] = IF j <= Len(a) THEN a[j] ELSE b[j - Len(a)]
      BY <1>2, <1>3, ConcatProperties
    <2>2. /\ Len(t) = Len(a) + Len(b)
          /\ \A j \in 1..Len(a) + Len(b) : t[j] = IF j <= Len(a) THEN a[j] ELSE b[j - Len(a)]
      BY <1>0, <2>a
    <2>3. Len(a) + Len(b) = n - 1
      BY <1>1, <1>2, <1>3
    <2>4. DOMAIN t = 1..n - 1
      BY <2>1, <2>2, <2>3, LenProperties
    <2>5. ASSUME NEW j \in 1..n - 1
          PROVE  t[j] = IF j <= n - i THEN s[i + j] ELSE s[j - (n - i)]
      <3>1. t[j] = IF j <= n - i THEN a[j] ELSE b[j - (n - i)]
        BY <1>2, <2>2, <2>3
      <3>2. CASE j <= n - i
        <4>1. j \in 1..n - i
          BY <1>1, <3>2
        <4> QED
          BY <1>2, <3>1, <3>2, <4>1
      <3>3. CASE ~(j <= n - i)
        <4>1. j - (n - i) \in 1..i - 1
          BY <1>1, <3>3
        <4> QED
          BY <1>3, <3>1, <3>3, <4>1
      <3> QED
        BY <3>2, <3>3
    <2> QED
      BY <2>1, <2>4, <2>5
  <1>5. IsInjective(t) /\ Range(t) = Range(s) \ {s[i]}
    <2>1. IsTurned(t, s, n, i)
      BY <1>1, <1>4 DEF IsTurned
    <2> QED
      BY <1>1, <2>1, TurnedElements
  <1> QED
    BY <1>0, <1>4, <1>5

\* Nobody leaves a line without dead.
LEMMA LivingAll ==
  ASSUME NEW s \in Seq(Pid), \A i \in DOMAIN s : Live(s[i])
  PROVE  Living(s) = s
  <1>0. PICK n : n = Len(s)
    OBVIOUS
  <1>1. n \in Nat /\ DOMAIN s = 1..n /\ s \in [1..n -> Pid]
    BY <1>0, LenProperties
  <1>2. {i \in DOMAIN s : Live(s[i])} = 1..n
    BY <1>1
  <1>3. Cardinality(1..n) = n
    BY <1>1, UpTo
  <1>4. ASSUME NEW k \in 1..n PROVE Nth(1..n, k) = k
    <2>1. ASSUME NEW i \in 1..n PROVE Cardinality({j \in 1..n : j <= i}) = i
      <3>1. {j \in 1..n : j <= i} = 1..i /\ i \in Nat
        BY <1>1
      <3> QED
        BY <3>1, UpTo
    <2> QED
      BY <2>1 DEF Nth
  <1>5. Living(s) = [k \in 1..n |-> s[Nth(1..n, k)]]
    BY <1>2, <1>3 DEF Living
  <1> QED
    BY <1>1, <1>4, <1>5

-----------------------------------------------------------------------------
(* The steps.                                                                 *)

\* What the queues hold.
LEMMA QueuesHold ==
  ASSUME TypeOK, Placed
  PROVE  /\ \A q \in Pid : q \in Range(rr) <=> Waiting(q) /\ IsRR(q)
         /\ \A q \in Pid : q \in fcfs \/ q \in tmp <=> Waiting(q) /\ ~IsRR(q)
         /\ fcfs \intersect tmp = {}
         /\ Range(rr) \subseteq Pid /\ IsInjective(rr)
         /\ \A q \in Range(rr) \union fcfs \union tmp : Live(q)
  <1>1. Range(rr) \subseteq Pid
    BY RangeOfSeq DEF TypeOK
  <1>2. \A q \in Pid : Waiting(q) => IF IsRR(q) THEN q \in Range(rr) ELSE (q \in fcfs) # (q \in tmp)
    BY DEF Placed, NoLostProcess
  <1>3. /\ \A q \in Range(rr) \union fcfs \union tmp : Waiting(q)
        /\ \A q \in Range(rr) : IsRR(q)
        /\ \A q \in fcfs \union tmp : ~IsRR(q)
    BY DEF Placed, NoLostProcess, QueuesByParity
  <1>4. fcfs \subseteq Pid /\ tmp \subseteq Pid
    BY DEF TypeOK
  <1>5. \A q \in Range(rr) \union fcfs \union tmp : Live(q)
    BY <1>3 DEF Waiting, Live
  <1> QED
    BY <1>1, <1>2, <1>3, <1>4, <1>5 DEF Placed, NoLostProcess

\* The counterpart: what a step has to establish.
LEMMA PlacedNext ==
  ASSUME TypeOK',
         \A q \in Pid : q \in Range(rr)' <=> Waiting(q)' /\ IsRR(q),
         \A q \in Pid : q \in fcfs' \/ q \in tmp' <=> Waiting(q)' /\ ~IsRR(q),
         fcfs' \intersect tmp' = {}, Range(rr)' \subseteq Pid, IsInjective(rr'),
         \A p \in Pid : state'[p] = "RUNNING" <=> \E c \in Cpu : running'[c] = p,
         RunsOnce', EmbryosOwned', SlotsCounted'
  PROVE  Placed'
  <1>1. Range(rr)' \subseteq Used'
    BY DEF Waiting, Used
  <1>2. IsFiniteSet(Used')
    BY Constants, FS_Subset DEF Used
  <1>3. Len(rr') <= Cardinality(Used') /\ Len(rr') \in Nat /\ Cardinality(Used') \in Nat
    <2>1. rr' \in Seq(Pid) /\ Range(rr') \subseteq Used'
      BY <1>1 DEF TypeOK, Range
    <2> QED
      BY <1>2, <2>1, LineLength, LenProperties, FS_CardinalityType
  <1>4. Len(rr') <= Nproc
    BY <1>3, Constants DEF SlotsCounted
  <1>5. QueuesByParity'
    BY DEF QueuesByParity, TypeOK, IsRR
  <1>6. \A p \in Pid : Waiting(p)' => IF IsRR(p) THEN p \in Range(rr)' ELSE (p \in fcfs') # (p \in tmp')
    OBVIOUS
  <1>7. \A p \in Range(rr)' \union fcfs' \union tmp' : Waiting(p)'
    BY DEF TypeOK
  <1>8. NoLostProcess'
    BY <1>4, <1>6, <1>7 DEF NoLostProcess, IsRR, IsInjective
  <1> QED
    BY <1>5, <1>8 DEF Placed

\* Who is where, apart from the queues.
Held ==
    /\ state \in [Pid -> Procstate] /\ nextpid \in 2..MaxPid + 1
    /\ running \in [Cpu -> Pid \union {None}]
    /\ embryo \in [Pid -> Pid \union {None}]
    /\ \A q \in Pid : state[q] = "RUNNING" <=> \E c \in Cpu : running[c] = q
    /\ RunsOnce /\ EmbryosOwned /\ SlotsCounted

LEMMA HeldNow ==
  ASSUME TypeOK, Placed
  PROVE  Held
  BY DEF TypeOK, Placed, NoLostProcess, Held

\* A change of state of one process that is neither a new one nor an embryo.
LEMMA SameSlots ==
  ASSUME Held, NEW p \in Pid, state[p] \notin {"UNUSED", "EMBRYO"},
         NEW st \in Procstate, st # "EMBRYO", state' = [state EXCEPT ![p] = st],
         UNCHANGED <<nextpid, embryo>>
  PROVE  /\ state' \in [Pid -> Procstate] /\ nextpid' \in 2..MaxPid + 1
         /\ embryo' \in [Pid -> Pid \union {None}]
         /\ EmbryosOwned' /\ SlotsCounted'
  <1>1. state' \in [Pid -> Procstate] /\ \A q \in Pid : state'[q] = IF q = p THEN st ELSE state[q]
    BY DEF Held
  <1>2. EmbryosOwned'
    <2>1. \A q \in Pid : embryo'[q] # None => state'[embryo'[q]] = "EMBRYO"
      BY <1>1, Constants DEF Held, EmbryosOwned
    <2>2. \A q \in Pid : q >= nextpid' => state'[q] = "UNUSED"
      BY <1>1 DEF Held, EmbryosOwned
    <2> QED
      BY <2>1, <2>2 DEF Held, EmbryosOwned
  <1>3. Used' \subseteq Used
    BY <1>1 DEF Used
  <1>4. IsFiniteSet(Used)
    BY Constants, FS_Subset DEF Used
  <1>5. SlotsCounted'
    <2>1. IsFiniteSet(Used') /\ Cardinality(Used') <= Cardinality(Used)
      BY <1>3, <1>4, FS_Subset
    <2>2. Cardinality(Used') \in Nat /\ Cardinality(Used) \in Nat
      BY <1>4, <2>1, FS_CardinalityType
    <2> QED
      BY <2>1, <2>2, Constants DEF Held, SlotsCounted
  <1> QED
    BY <1>1, <1>2, <1>5 DEF Held

\* A processor takes up p.
LEMMA Dispatch ==
  ASSUME Held, NEW c \in Cpu, running[c] = None, NEW p \in Pid, Runnable(p), Run(c, p)
  PROVE  /\ Held'
         /\ \A q \in Pid : Waiting(q)' <=> Waiting(q) /\ q # p
  <1>1. /\ state' = [state EXCEPT ![p] = "RUNNING"] /\ running' = [running EXCEPT ![c] = p]
        /\ UNCHANGED <<nextpid, embryo>> /\ state[p] = "RUNNABLE"
    BY DEF Run, Runnable
  <1>2. /\ state' \in [Pid -> Procstate] /\ nextpid' \in 2..MaxPid + 1
        /\ embryo' \in [Pid -> Pid \union {None}]
        /\ EmbryosOwned' /\ SlotsCounted'
    <2>1. "RUNNING" \in Procstate /\ "RUNNING" # "EMBRYO"
      BY DEF Procstate
    <2> QED
      BY <1>1, <2>1, SameSlots
  <1>3. running' \in [Cpu -> Pid \union {None}] /\ \A d \in Cpu : running'[d] = IF d = c THEN p ELSE running[d]
    BY <1>1 DEF Held
  <1>4. \A q \in Pid : state'[q] = IF q = p THEN "RUNNING" ELSE state[q]
    BY <1>1 DEF Held
  <1>5. \A d \in Cpu : running[d] # p
    BY <1>1 DEF Held
  <1>6. \A q \in Pid : state'[q] = "RUNNING" <=> \E d \in Cpu : running'[d] = q
    BY <1>3, <1>4, Constants DEF Held
  <1>7. RunsOnce'
    BY <1>3, <1>5 DEF Held, RunsOnce
  <1>8. \A q \in Pid : Waiting(q)' <=> Waiting(q) /\ q # p
    BY <1>4 DEF Waiting
  <1> QED
    BY <1>2, <1>3, <1>6, <1>7, <1>8 DEF Held

\* The process of a processor stops in state st.
LEMMA Stopped ==
  ASSUME Held, NEW c \in Cpu, NEW p \in Pid, running[c] = p,
         NEW st \in {"RUNNABLE", "SLEEPING", "ZOMBIE"},
         state' = [state EXCEPT ![p] = st], running' = [running EXCEPT ![c] = None],
         UNCHANGED <<nextpid, embryo>>
  PROVE  /\ Held' /\ ~Waiting(p)
         /\ \A q \in Pid : Waiting(q)' <=> Waiting(q) \/ (q = p /\ st # "ZOMBIE")
  <1>1. state[p] = "RUNNING"
    BY DEF Held
  <1>2. /\ state' \in [Pid -> Procstate] /\ nextpid' \in 2..MaxPid + 1
        /\ embryo' \in [Pid -> Pid \union {None}]
        /\ EmbryosOwned' /\ SlotsCounted'
    <2>1. st \in Procstate /\ st # "EMBRYO"
      BY DEF Procstate
    <2> QED
      BY <1>1, <2>1, SameSlots
  <1>3. running' \in [Cpu -> Pid \union {None}] /\ \A d \in Cpu : running'[d] = IF d = c THEN None ELSE running[d]
    BY DEF Held
  <1>4. \A q \in Pid : state'[q] = IF q = p THEN st ELSE state[q]
    BY DEF Held
  <1>5. \A d \in Cpu : running[d] = p => d = c
    BY Constants DEF Held, RunsOnce
  <1>6. \A q \in Pid : state'[q] = "RUNNING" <=> \E d \in Cpu : running'[d] = q
    BY <1>3, <1>4, <1>5, Constants DEF Held
  <1>7. RunsOnce'
    BY <1>3 DEF Held, RunsOnce
  <1>8. ~Waiting(p) /\ \A q \in Pid : Waiting(q)' <=> Waiting(q) \/ (q = p /\ st # "ZOMBIE")
    BY <1>1, <1>4 DEF Waiting
  <1> QED
    BY <1>2, <1>3, <1>6, <1>7, <1>8 DEF Held

\* What a step has to show of the queues.
LEMMA InPlace ==
  ASSUME Held', rr' \in Seq(Pid), fcfs' \subseteq Pid, tmp' \subseteq Pid,
         \A q \in Pid : q \in Range(rr)' <=> Waiting(q)' /\ IsRR(q),
         \A q \in Pid : q \in fcfs' \/ q \in tmp' <=> Waiting(q)' /\ ~IsRR(q),
         fcfs' \intersect tmp' = {}, IsInjective(rr')
  PROVE  TypeOK' /\ Placed'
  <1>1. TypeOK'
    BY DEF TypeOK, Held
  <1>2. Range(rr)' \subseteq Pid
    BY RangeOfSeq
  <1>3. /\ \A p \in Pid : state'[p] = "RUNNING" <=> \E c \in Cpu : running'[c] = p
        /\ RunsOnce' /\ EmbryosOwned' /\ SlotsCounted'
    BY DEF Held
  <1> QED
    BY <1>1, <1>2, <1>3, PlacedNext

LEMMA RunRRStep ==
  ASSUME TypeOK, Placed, NEW c \in Cpu, RunRR(c)
  PROVE  TypeOK' /\ Placed'
  <1>1. PICK i \in DOMAIN rr :
          /\ IsTurn(i) /\ Run(c, rr[i])
          /\ rr' = SubSeq(rr, i + 1, Len(rr)) \o Living(SubSeq(rr, 1, i - 1))
    BY DEF RunRR
  <1>2. PICK p : p = rr[i]
    OBVIOUS
  <1>3. rr \in Seq(Pid) /\ p \in Range(rr) /\ p \in Pid /\ Runnable(p) /\ IsInjective(rr)
    BY <1>1, <1>2, QueuesHold DEF TypeOK, Range, IsTurn
  <1>4. Living(SubSeq(rr, 1, i - 1)) = SubSeq(rr, 1, i - 1)
    <2>1. Len(rr) \in Nat /\ i \in 1..Len(rr)
      BY <1>3, LenProperties
    <2>2. 1 \in 1..Len(rr) + 1 /\ i - 1 \in 0..Len(rr) /\ 1 <= i - 1 + 1 /\ i - 1 - 1 + 1 = i - 1
      BY <2>1
    <2>3. PICK b : b = SubSeq(rr, 1, i - 1)
      OBVIOUS
    <2>4. b \in Seq(Pid) /\ Len(b) = i - 1 - 1 + 1 /\ \A k \in 1..i - 1 - 1 + 1 : b[k] = rr[1 + k - 1]
      BY <1>3, <2>2, <2>3, PartOfLine
    <2>5. DOMAIN b = 1..i - 1
      BY <2>2, <2>4, LenProperties
    <2>6. \A k \in 1..i - 1 : k \in DOMAIN rr /\ b[k] = rr[k]
      <3>1. \A k \in 1..i - 1 : 1 + k - 1 = k /\ k \in 1..Len(rr)
        BY <2>1
      <3> QED
        BY <1>3, <2>2, <2>4, <3>1, LenProperties
    <2>7. \A k \in DOMAIN rr : Live(rr[k])
      BY QueuesHold DEF Range
    <2>8. \A k \in DOMAIN b : Live(b[k])
      BY <2>5, <2>6, <2>7
    <2> QED
      BY <2>3, <2>4, <2>8, LivingAll
  <1>5. rr' \in Seq(Pid) /\ IsInjective(rr') /\ Range(rr)' = Range(rr) \ {p}
    BY <1>1, <1>2, <1>3, <1>4, Turned
  <1>6. Held' /\ \A q \in Pid : Waiting(q)' <=> Waiting(q) /\ q # p
    BY <1>1, <1>2, <1>3, HeldNow, Dispatch DEF RunRR
  <1>7. UNCHANGED <<fcfs, tmp>> /\ fcfs \subseteq Pid /\ tmp \subseteq Pid
    BY DEF RunRR, TypeOK
  <1>8. \A q \in Pid : q \in Range(rr)' <=> Waiting(q)' /\ IsRR(q)
    BY <1>5, <1>6, QueuesHold
  <1>9. \A q \in Pid : q \in fcfs' \/ q \in tmp' <=> Waiting(q)' /\ ~IsRR(q)
    BY <1>3, <1>6, <1>7, QueuesHold
  <1> QED
    BY <1>5, <1>6, <1>7, <1>8, <1>9, QueuesHold, InPlace

\* Nobody in the line is dead.
LEMMA LineLives ==
  ASSUME TypeOK, Placed
  PROVE  Living(rr) = rr
  <1>1. \A k \in DOMAIN rr : Live(rr[k])
    BY QueuesHold DEF Range
  <1> QED
    BY <1>1, LivingAll DEF TypeOK

LEMMA RunFcfsStep ==
  ASSUME TypeOK, Placed, NEW c \in Cpu, RunFcfs(c)
  PROVE  TypeOK' /\ Placed'
  <1>1. PICK p \in fcfs :
          /\ IsFirst(p) /\ fcfs' = {q \in fcfs : q > p}
          /\ tmp' = tmp \union {q \in fcfs : q < p /\ Live(q)}
          /\ Run(c, p)
    BY DEF RunFcfs
  <1>2. rr' = rr /\ rr \in Seq(Pid) /\ fcfs \subseteq Pid /\ tmp \subseteq Pid
    BY LineLives DEF RunFcfs, TypeOK
  <1>3. Held' /\ \A q \in Pid : Waiting(q)' <=> Waiting(q) /\ q # p
    BY <1>1, <1>2, HeldNow, Dispatch DEF RunFcfs, IsFirst
  <1>4. \A q \in fcfs : Live(q) /\ ~IsRR(q)
    BY <1>2, QueuesHold
  <1>5. \A q \in Pid : q \in Range(rr)' <=> Waiting(q)' /\ IsRR(q)
    BY <1>2, <1>3, <1>4, QueuesHold
  <1>6. \A q, r \in Pid : q # r <=> q < r \/ q > r
    BY Constants
  <1>7. \A q \in Pid : q \in fcfs' \/ q \in tmp' <=> (q \in fcfs \/ q \in tmp) /\ q # p
    <2>1. p \notin tmp /\ p \in Pid /\ ~(p < p) /\ ~(p > p)
      BY <1>2, <1>6, QueuesHold
    <2> QED
      BY <1>1, <1>2, <1>4, <1>6, <2>1
  <1>8. fcfs' \intersect tmp' = {}
    <2>1. \A q \in Pid : ~(q > p /\ q < p)
      BY <1>2, Constants
    <2> QED
      BY <1>1, <1>2, <2>1, QueuesHold
  <1>9. \A q \in Pid : q \in fcfs' \/ q \in tmp' <=> Waiting(q)' /\ ~IsRR(q)
    BY <1>3, <1>7, QueuesHold
  <1>10. IsInjective(rr') /\ fcfs' \subseteq Pid /\ tmp' \subseteq Pid
    BY <1>1, <1>2, QueuesHold
  <1> QED
    BY <1>2, <1>3, <1>5, <1>8, <1>9, <1>10, InPlace

LEMMA RunNobodyStep ==
  ASSUME TypeOK, Placed, NEW c \in Cpu, RunNobody(c)
  PROVE  TypeOK' /\ Placed'
  <1>1. rr' = rr /\ rr \in Seq(Pid) /\ fcfs \subseteq Pid /\ tmp \subseteq Pid
    BY LineLives DEF RunNobody, TypeOK
  <1>2. fcfs' = fcfs \union tmp /\ tmp' = {}
    BY QueuesHold DEF RunNobody
  <1>3. Held' /\ \A q \in Pid : Waiting(q)' <=> Waiting(q)
    BY HeldNow DEF RunNobody, Held, RunsOnce, EmbryosOwned, SlotsCounted, Used, Waiting
  <1>4. \A q \in Pid : q \in Range(rr)' <=> Waiting(q)' /\ IsRR(q)
    BY <1>1, <1>3, QueuesHold
  <1>5. \A q \in Pid : q \in fcfs' \/ q \in tmp' <=> Waiting(q)' /\ ~IsRR(q)
    BY <1>2, <1>3, QueuesHold
  <1> QED
    BY <1>1, <1>2, <1>3, <1>4, <1>5, QueuesHold, InPlace

LEMMA StopStep ==
  ASSUME TypeOK, Placed, NEW c \in Cpu, running[c] # None,
         NEW st \in {"RUNNABLE", "SLEEPING", "ZOMBIE"}, Stop(c, st),
         UNCHANGED <<nextpid, embryo>>
  PROVE  TypeOK' /\ Placed'
  <1>1. PICK p \in Pid : p = running[c]
    BY DEF TypeOK
  <1>2. Held' /\ ~Waiting(p) /\ \A q \in Pid : Waiting(q)' <=> Waiting(q) \/ (q = p /\ st # "ZOMBIE")
    BY <1>1, HeldNow, Stopped DEF Stop
  <1>3. rr \in Seq(Pid) /\ fcfs \subseteq Pid /\ tmp \subseteq Pid
    BY DEF TypeOK
  <1>4. p \notin Range(rr) /\ p \notin fcfs /\ p \notin tmp
    BY <1>2, QueuesHold
  <1>5. CASE IsRR(p)
    <2>1. rr' = (IF st = "ZOMBIE" THEN rr ELSE Append(rr, p)) /\ UNCHANGED <<fcfs, tmp>>
      BY <1>1, <1>5 DEF Stop
    <2>2. /\ rr' \in Seq(Pid) /\ IsInjective(rr')
          /\ Range(rr)' = Range(rr) \union (IF st = "ZOMBIE" THEN {} ELSE {p})
      <3>1. CASE st = "ZOMBIE"
        BY <1>3, <2>1, <3>1, QueuesHold
      <3>2. CASE st # "ZOMBIE"
        BY <1>3, <1>4, <2>1, <3>2, QueuesHold, Joined
      <3> QED
        BY <3>1, <3>2
    <2>3. \A q \in Pid : q \in Range(rr)' <=> Waiting(q)' /\ IsRR(q)
      BY <1>2, <1>5, <2>2, QueuesHold
    <2>4. \A q \in Pid : q \in fcfs' \/ q \in tmp' <=> Waiting(q)' /\ ~IsRR(q)
      BY <1>2, <1>5, <2>1, QueuesHold
    <2> QED
      BY <1>2, <1>3, <2>1, <2>2, <2>3, <2>4, QueuesHold, InPlace
  <1>6. CASE ~IsRR(p)
    <2>1. /\ fcfs' = fcfs \union (IF st = "ZOMBIE" THEN {} ELSE {p}) \union tmp
          /\ tmp' = {} /\ rr' = rr
      BY <1>1, <1>6 DEF Stop
    <2>2. \A q \in Pid : q \in Range(rr)' <=> Waiting(q)' /\ IsRR(q)
      BY <1>2, <1>6, <2>1, QueuesHold
    <2>3. \A q \in Pid : q \in fcfs' \/ q \in tmp' <=> Waiting(q)' /\ ~IsRR(q)
      BY <1>2, <1>6, <2>1, QueuesHold
    <2> QED
      BY <1>2, <1>3, <2>1, <2>2, <2>3, QueuesHold, InPlace
  <1> QED
    BY <1>5, <1>6

\* A process that is nowhere enters or leaves the table, or wakes where it is.
LEMMA SameQueues ==
  ASSUME TypeOK, Placed, Held', \A q \in Pid : Waiting(q)' <=> Waiting(q),
         UNCHANGED <<rr, fcfs, tmp>>
  PROVE  TypeOK' /\ Placed'
  <1>1. rr \in Seq(Pid) /\ fcfs \subseteq Pid /\ tmp \subseteq Pid
    BY DEF TypeOK
  <1>2. \A q \in Pid : q \in Range(rr)' <=> Waiting(q)' /\ IsRR(q)
    BY QueuesHold
  <1>3. \A q \in Pid : q \in fcfs' \/ q \in tmp' <=> Waiting(q)' /\ ~IsRR(q)
    BY QueuesHold
  <1> QED
    BY <1>1, <1>2, <1>3, QueuesHold, InPlace

LEMMA wakeupStep ==
  ASSUME TypeOK, Placed, NEW p \in Pid, wakeup(p)
  PROVE  TypeOK' /\ Placed'
  <1>1. /\ Held /\ state[p] = "SLEEPING" /\ state' = [state EXCEPT ![p] = "RUNNABLE"]
        /\ UNCHANGED <<nextpid, rr, fcfs, tmp, running, embryo>>
    BY HeldNow DEF wakeup
  <1>2. /\ state' \in [Pid -> Procstate] /\ nextpid' \in 2..MaxPid + 1
        /\ embryo' \in [Pid -> Pid \union {None}]
        /\ EmbryosOwned' /\ SlotsCounted'
    BY <1>1, SameSlots DEF Procstate
  <1>3. \A q \in Pid : state'[q] = IF q = p THEN "RUNNABLE" ELSE state[q]
    BY <1>1 DEF Held
  <1>4. Held'
    BY <1>1, <1>2, <1>3 DEF Held, RunsOnce
  <1>5. \A q \in Pid : Waiting(q)' <=> Waiting(q)
    BY <1>1, <1>3 DEF Waiting
  <1> QED
    BY <1>1, <1>4, <1>5, SameQueues

LEMMA waitStep ==
  ASSUME TypeOK, Placed, NEW p \in Pid, wait(p)
  PROVE  TypeOK' /\ Placed'
  <1>1. /\ Held /\ state[p] = "ZOMBIE" /\ state' = [state EXCEPT ![p] = "UNUSED"]
        /\ UNCHANGED <<nextpid, rr, fcfs, tmp, running, embryo>>
    BY HeldNow DEF wait
  <1>2. /\ state' \in [Pid -> Procstate] /\ nextpid' \in 2..MaxPid + 1
        /\ embryo' \in [Pid -> Pid \union {None}]
        /\ EmbryosOwned' /\ SlotsCounted'
    BY <1>1, SameSlots DEF Procstate
  <1>3. \A q \in Pid : state'[q] = IF q = p THEN "UNUSED" ELSE state[q]
    BY <1>1 DEF Held
  <1>4. Held'
    BY <1>1, <1>2, <1>3 DEF Held, RunsOnce
  <1>5. \A q \in Pid : Waiting(q)' <=> Waiting(q)
    BY <1>1, <1>3 DEF Waiting
  <1> QED
    BY <1>1, <1>4, <1>5, SameQueues

LEMMA allocprocStep ==
  ASSUME TypeOK, Placed, NEW c \in Cpu, allocproc(c)
  PROVE  TypeOK' /\ Placed'
  <1>1. PICK p, np : p = running[c] /\ np = nextpid
    OBVIOUS
  <1>2. /\ Held /\ p # None /\ embryo[p] = None /\ np <= MaxPid /\ Cardinality(Used) < Nproc
        /\ state' = [state EXCEPT ![np] = "EMBRYO"] /\ embryo' = [embryo EXCEPT ![p] = np]
        /\ nextpid' = np + 1 /\ UNCHANGED <<rr, fcfs, tmp, running>>
    BY <1>1, HeldNow DEF allocproc, AtCall
  <1>3. p \in Pid /\ np \in Pid /\ state[np] = "UNUSED" /\ nextpid' \in 2..MaxPid + 1
    <2>1. np \in Pid /\ nextpid' \in 2..MaxPid + 1
      BY <1>1, <1>2, Constants DEF Held, Pid
    <2>2. np >= nextpid
      BY <1>1, <2>1, Constants
    <2> QED
      BY <1>1, <1>2, <2>1, <2>2 DEF Held, EmbryosOwned
  <1>4. /\ state' \in [Pid -> Procstate]
        /\ \A q \in Pid : state'[q] = IF q = np THEN "EMBRYO" ELSE state[q]
    BY <1>2, <1>3 DEF Held, Procstate
  <1>5. /\ embryo' \in [Pid -> Pid \union {None}]
        /\ \A q \in Pid : embryo'[q] = IF q = p THEN np ELSE embryo[q]
    BY <1>2, <1>3 DEF Held
  <1>6. EmbryosOwned'
    <2>1. \A q \in Pid : embryo'[q] # None => state'[embryo'[q]] = "EMBRYO"
      BY <1>2, <1>3, <1>4, <1>5 DEF Held, EmbryosOwned
    <2>2. \A q \in Pid : embryo[q] # np
      BY <1>2, <1>3, Constants DEF Held, EmbryosOwned
    <2>3. \A q, r \in Pid : embryo'[q] # None /\ embryo'[q] = embryo'[r] => q = r
      BY <1>2, <1>5, <2>2 DEF Held, EmbryosOwned
    <2>4. ASSUME NEW q \in Pid, q >= nextpid' PROVE state'[q] = "UNUSED"
      <3>1. q >= nextpid /\ q # np
        BY <1>1, <1>2, <1>3, <2>4, Constants
      <3> QED
        BY <1>2, <1>4, <3>1 DEF Held, EmbryosOwned
    <2> QED
      BY <2>1, <2>3, <2>4 DEF EmbryosOwned
  <1>7. SlotsCounted'
    <2>1. Used' = Used \union {np} /\ np \notin Used
      BY <1>3, <1>4 DEF Used
    <2>2. IsFiniteSet(Used)
      BY Constants, FS_Subset DEF Used
    <2>3. Cardinality(Used') = Cardinality(Used) + 1 /\ Cardinality(Used) \in Nat
      BY <2>1, <2>2, FS_AddElement, FS_CardinalityType
    <2> QED
      BY <1>2, <2>3, Constants DEF SlotsCounted
  <1>8. \A q \in Pid : state'[q] = "RUNNING" <=> \E d \in Cpu : running'[d] = q
    BY <1>2, <1>3, <1>4 DEF Held
  <1>9. Held'
    BY <1>2, <1>3, <1>4, <1>5, <1>6, <1>7, <1>8 DEF Held, RunsOnce
  <1>10. \A q \in Pid : Waiting(q)' <=> Waiting(q)
    BY <1>3, <1>4 DEF Waiting
  <1> QED
    BY <1>2, <1>9, <1>10, SameQueues

\* The state of the embryo of p becomes st.
LEMMA Finished ==
  ASSUME Held, NEW p \in Pid, NEW np \in Pid, embryo[p] = np,
         NEW st \in {"UNUSED", "RUNNABLE"},
         state' = [state EXCEPT ![np] = st], embryo' = [embryo EXCEPT ![p] = None],
         UNCHANGED <<nextpid, running>>
  PROVE  /\ Held' /\ ~Waiting(np)
         /\ \A q \in Pid : Waiting(q)' <=> Waiting(q) \/ (q = np /\ st = "RUNNABLE")
  <1>1. np # None /\ state[np] = "EMBRYO"
    BY Constants DEF Held, EmbryosOwned
  <1>2. /\ state' \in [Pid -> Procstate]
        /\ \A q \in Pid : state'[q] = IF q = np THEN st ELSE state[q]
    BY DEF Held, Procstate
  <1>3. /\ embryo' \in [Pid -> Pid \union {None}]
        /\ \A q \in Pid : embryo'[q] = IF q = p THEN None ELSE embryo[q]
    BY DEF Held
  <1>4. EmbryosOwned'
    <2>1. \A q \in Pid : embryo'[q] # None => embryo'[q] = embryo[q] /\ embryo[q] # np
      BY <1>1, <1>3 DEF Held, EmbryosOwned
    <2>2. \A q \in Pid : embryo'[q] # None => state'[embryo'[q]] = "EMBRYO"
      BY <1>2, <1>3, <2>1, Constants DEF Held, EmbryosOwned
    <2>3. \A q, r \in Pid : embryo'[q] # None /\ embryo'[q] = embryo'[r] => q = r
      BY <2>1 DEF Held, EmbryosOwned
    <2>4. \A q \in Pid : q >= nextpid => state'[q] = "UNUSED"
      BY <1>1, <1>2 DEF Held, EmbryosOwned
    <2> QED
      BY <2>2, <2>3, <2>4 DEF EmbryosOwned
  <1>5. SlotsCounted'
    <2>1. Used' \subseteq Used
      BY <1>1, <1>2 DEF Used
    <2>2. IsFiniteSet(Used)
      BY Constants, FS_Subset DEF Used
    <2>3. IsFiniteSet(Used') /\ Cardinality(Used') <= Cardinality(Used)
      BY <2>1, <2>2, FS_Subset
    <2>4. Cardinality(Used') \in Nat /\ Cardinality(Used) \in Nat
      BY <2>2, <2>3, FS_CardinalityType
    <2> QED
      BY <2>3, <2>4, Constants DEF Held, SlotsCounted
  <1>6. \A q \in Pid : state'[q] = "RUNNING" <=> \E d \in Cpu : running'[d] = q
    BY <1>1, <1>2 DEF Held
  <1>7. Held'
    BY <1>2, <1>3, <1>4, <1>5, <1>6 DEF Held, RunsOnce
  <1>8. ~Waiting(np) /\ \A q \in Pid : Waiting(q)' <=> Waiting(q) \/ (q = np /\ st = "RUNNABLE")
    BY <1>1, <1>2 DEF Waiting
  <1> QED
    BY <1>7, <1>8

LEMMA forkStep ==
  ASSUME TypeOK, Placed, NEW c \in Cpu, fork(c)
  PROVE  TypeOK' /\ Placed'
  <1>1. PICK p, np : p = running[c] /\ np = embryo[p]
    OBVIOUS
  <1>2. /\ Held /\ p \in Pid /\ np \in Pid /\ embryo[p] = np
        /\ embryo' = [embryo EXCEPT ![p] = None] /\ UNCHANGED <<nextpid, tmp, running>>
        /\ rr \in Seq(Pid) /\ fcfs \subseteq Pid /\ tmp \subseteq Pid
    BY <1>1, HeldNow DEF fork, TypeOK
  <1>3. CASE state' = [state EXCEPT ![np] = "UNUSED"] /\ UNCHANGED <<rr, fcfs>>
    <2>1. /\ Held' /\ ~Waiting(np)
          /\ \A q \in Pid : Waiting(q)' <=> Waiting(q) \/ (q = np /\ "UNUSED" = "RUNNABLE")
      BY <1>2, <1>3, Finished
    <2>2. \A q \in Pid : Waiting(q)' <=> Waiting(q)
      BY <2>1
    <2> QED
      BY <1>2, <1>3, <2>1, <2>2, SameQueues
  <1>4. CASE /\ state' = [state EXCEPT ![np] = "RUNNABLE"]
             /\ rr' = (IF IsRR(np) THEN Append(rr, np) ELSE rr)
             /\ fcfs' = (IF IsRR(np) THEN fcfs ELSE fcfs \union {np})
    <2>1. /\ Held' /\ ~Waiting(np)
          /\ \A q \in Pid : Waiting(q)' <=> Waiting(q) \/ (q = np /\ "RUNNABLE" = "RUNNABLE")
      BY <1>2, <1>4, Finished
    <2>2. \A q \in Pid : Waiting(q)' <=> Waiting(q) \/ q = np
      BY <2>1
    <2>3. np \notin Range(rr) /\ np \notin fcfs /\ np \notin tmp
      BY <1>2, <2>1, QueuesHold
    <2>4. /\ rr' \in Seq(Pid) /\ IsInjective(rr')
          /\ Range(rr)' = Range(rr) \union (IF IsRR(np) THEN {np} ELSE {})
      <3>1. CASE IsRR(np)
        BY <1>2, <1>4, <2>3, <3>1, QueuesHold, Joined
      <3>2. CASE ~IsRR(np)
        BY <1>2, <1>4, <3>2, QueuesHold
      <3> QED
        BY <3>1, <3>2
    <2>5. \A q \in Pid : q \in Range(rr)' <=> Waiting(q)' /\ IsRR(q)
      BY <2>2, <2>4, QueuesHold
    <2>6. \A q \in Pid : q \in fcfs' \/ q \in tmp' <=> Waiting(q)' /\ ~IsRR(q)
      BY <1>2, <1>4, <2>2, QueuesHold
    <2>7. fcfs' \subseteq Pid /\ tmp' \subseteq Pid /\ fcfs' \intersect tmp' = {}
      BY <1>2, <1>4, <2>3, QueuesHold
    <2> QED
      BY <2>1, <2>4, <2>5, <2>6, <2>7, InPlace
  <1> QED
    BY <1>1, <1>3, <1>4 DEF fork

-----------------------------------------------------------------------------
(* The invariant.                                                             *)

LEMMA Initially ==
  ASSUME Init
  PROVE  TypeOK /\ Placed
  <1>1. /\ \A p \in Pid : state[p] = IF p = 1 THEN "RUNNABLE" ELSE "UNUSED"
        /\ nextpid = 2 /\ rr = << >> /\ fcfs = {1} /\ tmp = {}
        /\ \A c \in Cpu : running[c] = None
        /\ \A p \in Pid : embryo[p] = None
    BY DEF Init
  <1>2. rr \in Seq(Pid) /\ Len(rr) = 0 /\ DOMAIN rr = {}
    BY <1>1
  <1>3. TypeOK
    <2>1. 2 \in 2..MaxPid + 1
      BY Constants
    <2> QED
      BY <1>1, <1>2, <2>1, Constants DEF Init, TypeOK, Procstate
  <1>4. Range(rr) = {} /\ IsInjective(rr) /\ Len(rr) <= Nproc
    BY <1>2, Constants DEF Range, IsInjective
  <1>5. ~IsRR(1)
    BY DEF IsRR
  <1>6. \A p \in Pid : Waiting(p) <=> p = 1
    BY <1>1 DEF Waiting
  <1>7. NoLostProcess
    <2>1. \A p \in Pid : Waiting(p) => IF IsRR(p) THEN p \in Range(rr) ELSE (p \in fcfs) # (p \in tmp)
      BY <1>1, <1>5, <1>6
    <2>2. \A p \in Range(rr) \union fcfs \union tmp : Waiting(p)
      BY <1>1, <1>4, <1>6, Constants
    <2>3. \A p \in Pid : state[p] = "RUNNING" <=> \E c \in Cpu : running[c] = p
      BY <1>1, Constants
    <2> QED
      BY <1>4, <2>1, <2>2, <2>3 DEF NoLostProcess
  <1>8. QueuesByParity
    BY <1>1, <1>4, <1>5 DEF QueuesByParity
  <1>9. RunsOnce /\ EmbryosOwned
    <2>1. ASSUME NEW p \in Pid, p >= 2 PROVE p # 1
      BY <2>1, Constants
    <2> QED
      BY <1>1, <2>1 DEF RunsOnce, EmbryosOwned
  <1>10. SlotsCounted
    <2>1. Used = {1}
      BY <1>1, Constants DEF Used
    <2>2. Cardinality({1}) = 1
      BY FS_Singleton
    <2>3. 1 <= Nproc
      BY Constants
    <2> QED
      BY <2>1, <2>2, <2>3 DEF SlotsCounted
  <1> QED
    BY <1>3, <1>7, <1>8, <1>9, <1>10 DEF Placed

LEMMA Inductive ==
  ASSUME TypeOK, Placed, [Next]_vars
  PROVE  TypeOK' /\ Placed'
  <1>1. CASE UNCHANGED vars
    BY <1>1 DEF vars, TypeOK, Placed, NoLostProcess, QueuesByParity, RunsOnce, EmbryosOwned,
                SlotsCounted, Used, Waiting
  <1>2. CASE Next
    <2>1. ASSUME NEW c \in Cpu, RunRR(c) PROVE TypeOK' /\ Placed'
      BY <2>1, RunRRStep
    <2>2. ASSUME NEW c \in Cpu, RunFcfs(c) PROVE TypeOK' /\ Placed'
      BY <2>2, RunFcfsStep
    <2>3. ASSUME NEW c \in Cpu, RunNobody(c) PROVE TypeOK' /\ Placed'
      BY <2>3, RunNobodyStep
    <2>4. ASSUME NEW c \in Cpu, yield(c) PROVE TypeOK' /\ Placed'
      BY <2>4, StopStep DEF yield
    <2>5. ASSUME NEW c \in Cpu, sleep(c) PROVE TypeOK' /\ Placed'
      BY <2>5, StopStep DEF sleep, AtCall
    <2>6. ASSUME NEW c \in Cpu, exit(c) PROVE TypeOK' /\ Placed'
      BY <2>6, StopStep DEF exit, AtCall
    <2>7. ASSUME NEW c \in Cpu, allocproc(c) PROVE TypeOK' /\ Placed'
      BY <2>7, allocprocStep
    <2>8. ASSUME NEW c \in Cpu, fork(c) PROVE TypeOK' /\ Placed'
      BY <2>8, forkStep
    <2>9. ASSUME NEW p \in Pid, wakeup(p) \/ wait(p) PROVE TypeOK' /\ Placed'
      BY <2>9, wakeupStep, waitStep
    <2> QED
      BY <1>2, <2>1, <2>2, <2>3, <2>4, <2>5, <2>6, <2>7, <2>8, <2>9 DEF Next, Schedule
  <1> QED
    BY <1>1, <1>2

LEMMA Invariant == Spec => [](TypeOK /\ Placed)
  <1>1. Init => TypeOK /\ Placed
    BY Initially
  <1>2. TypeOK /\ Placed /\ [Next]_vars => (TypeOK /\ Placed)'
    BY Inductive
  <1> QED
    BY <1>1, <1>2, PTL DEF Spec

\* The variables keep their types, whatever the processors do: pids stay in
\* the table, the line of the even ones a sequence of pids.
THEOREM TypeCorrect == Spec => []TypeOK
  BY Invariant, PTL

\* scheduler takes processes out of both queues, parks some in tmp and puts
\* them back after the process it ran has stopped, with other processors doing
\* the same: whoever waits is in one of these places and in one only, nobody
\* dead or running is in any, a running process is on a processor, and the
\* line never grows beyond the NPROC places it has.
THEOREM NobodyIsLost == Spec => []NoLostProcess
  <1>1. TypeOK /\ Placed => NoLostProcess
    BY DEF Placed
  <1> QED
    BY <1>1, Invariant, PTL

-----------------------------------------------------------------------------
(* Who is dispatched.                                                         *)

\* Only the two ways into swtch give a processor a process.
LEMMA Dispatches ==
  ASSUME TypeOK, Next, NEW c \in Cpu, NEW p \in Pid, Dispatched(c, p), ~IsRR(p), Placed
  PROVE  NobodyInRR /\ p \in fcfs /\ IsFirst(p)
  <1>1. running[c] = None /\ running'[c] = p /\ p # None
    BY DEF Dispatched
  <1>2. ASSUME NEW d \in Cpu, NEW q, running' = [running EXCEPT ![d] = q]
        PROVE  q = None \/ q = p
    BY <1>1, <1>2 DEF TypeOK
  <1>3. ASSUME NEW d \in Cpu, RunRR(d) PROVE FALSE
    <2>1. PICK i \in DOMAIN rr : IsTurn(i) /\ Run(d, rr[i])
      BY <1>3 DEF RunRR
    <2>2. rr[i] \in Range(rr)
      BY DEF Range
    <2>3. rr[i] \in Pid /\ IsRR(rr[i])
      BY <2>2, QueuesHold
    <2>4. rr[i] = p
      BY <1>2, <2>1, <2>3, Constants DEF Run
    <2> QED
      BY <2>3, <2>4
  <1>4. ASSUME NEW d \in Cpu, RunFcfs(d) PROVE NobodyInRR /\ p \in fcfs /\ IsFirst(p)
    <2>1. PICK q \in fcfs : IsFirst(q) /\ Run(d, q)
      BY <1>4 DEF RunFcfs
    <2>2. q \in Pid
      BY DEF TypeOK
    <2>3. q = p
      BY <1>2, <2>1, <2>2, Constants DEF Run
    <2> QED
      BY <1>4, <2>1, <2>3 DEF RunFcfs
  <1>5. ASSUME NEW d \in Cpu, NEW st, Stop(d, st) PROVE FALSE
    <2>1. running' = [running EXCEPT ![d] = None]
      BY <1>5 DEF Stop
    <2>2. running'[c] = None
      BY <1>1, <2>1 DEF TypeOK
    <2> QED
      BY <1>1, <2>2
  <1>6. ASSUME UNCHANGED running PROVE FALSE
    BY <1>1, <1>6
  <1> QED
    BY <1>3, <1>4, <1>5, <1>6 DEF Next, Schedule, RunNobody, yield, sleep, exit, allocproc, fork,
                                  wakeup, wait

\* A process with an odd pid is dispatched only while no process with an even
\* pid is RUNNABLE: the line holds all of those, and scheduler looks through
\* the whole of it before it turns to the heap.
THEOREM RoundRobinGoesFirst == Spec => FcfsOnlyWithoutRR
  <1>1. ASSUME TypeOK, Placed, [Next]_vars
        PROVE  [\A c \in Cpu, p, q \in Pid :
                   Dispatched(c, p) /\ ~IsRR(p) /\ IsRR(q) => ~Runnable(q)]_vars
    <2> SUFFICES ASSUME Next, NEW c \in Cpu, NEW p \in Pid, NEW q \in Pid,
                        Dispatched(c, p), ~IsRR(p), IsRR(q)
                 PROVE  ~Runnable(q)
      BY <1>1
    <2>1. NobodyInRR
      BY <1>1, Dispatches
    <2>2. Runnable(q) => q \in Range(rr)
      BY <1>1, QueuesHold DEF Waiting, Runnable
    <2> QED
      BY <2>1, <2>2 DEF NobodyInRR, Range
  <1> QED
    BY <1>1, Invariant, PTL DEF Spec, FcfsOnlyWithoutRR

-----------------------------------------------------------------------------
(* Who is passed over.                                                        *)

\* Whoever is parked is so on account of a process with a larger pid, which
\* still runs: any fcfs process that stops brings back all that are parked.
ParkedAreSmaller == \A q \in tmp : RunsBefore(q)

LEMMA StillRuns ==
  ASSUME TypeOK, NEW d \in Cpu, NEW p, NEW q \in Pid, RunsBefore(q),
         running' = [running EXCEPT ![d] = p],
         running[d] = None \/ IsRR(running[d])
  PROVE  RunsBefore(q)'
  BY DEF TypeOK, RunsBefore

LEMMA ParkedStop ==
  ASSUME TypeOK, ParkedAreSmaller, NEW d \in Cpu, running[d] # None, NEW st, Stop(d, st)
  PROVE  ParkedAreSmaller'
  <1>1. CASE IsRR(running[d])
    <2>1. tmp' = tmp /\ running' = [running EXCEPT ![d] = None]
      BY <1>1 DEF Stop
    <2> QED
      BY <1>1, <2>1, StillRuns DEF ParkedAreSmaller, TypeOK
  <1>2. CASE ~IsRR(running[d])
    BY <1>2 DEF Stop, ParkedAreSmaller
  <1> QED
    BY <1>1, <1>2

LEMMA ParkedStep ==
  ASSUME TypeOK, Placed, ParkedAreSmaller, [Next]_vars
  PROVE  ParkedAreSmaller'
  <1>1. ASSUME UNCHANGED <<tmp, running>> PROVE ParkedAreSmaller'
    BY <1>1 DEF ParkedAreSmaller, RunsBefore
  <1>2. ASSUME NEW d \in Cpu, RunRR(d) PROVE ParkedAreSmaller'
    <2>1. PICK p : /\ tmp' = tmp /\ running[d] = None
                   /\ running' = [running EXCEPT ![d] = p]
      BY <1>2 DEF RunRR, Run
    <2> QED
      BY <2>1, StillRuns DEF ParkedAreSmaller, TypeOK
  <1>3. ASSUME NEW d \in Cpu, RunFcfs(d) PROVE ParkedAreSmaller'
    <2>1. PICK p \in fcfs : /\ tmp' = tmp \union {q \in fcfs : q < p /\ Live(q)}
                            /\ Run(d, p)
      BY <1>3 DEF RunFcfs
    <2>2. running[d] = None /\ running' = [running EXCEPT ![d] = p]
      BY <1>3, <2>1 DEF RunFcfs, Run
    <2>3. ASSUME NEW q \in tmp PROVE RunsBefore(q)'
      BY <2>2, <2>3, StillRuns DEF ParkedAreSmaller, TypeOK
    <2>4. p \in Pid /\ ~IsRR(p) /\ p # None
      BY QueuesHold, Constants DEF TypeOK
    <2>5. ASSUME NEW q \in fcfs, q < p PROVE RunsBefore(q)'
      BY <2>2, <2>4, <2>5 DEF RunsBefore, TypeOK
    <2> QED
      BY <2>1, <2>3, <2>5 DEF ParkedAreSmaller
  <1>4. ASSUME NEW d \in Cpu, RunNobody(d) PROVE ParkedAreSmaller'
    BY <1>4 DEF RunNobody, ParkedAreSmaller
  <1>5. ASSUME NEW d \in Cpu, yield(d) \/ sleep(d) \/ exit(d) PROVE ParkedAreSmaller'
    BY <1>5, ParkedStop DEF yield, sleep, exit, AtCall
  <1>6. ASSUME NEW d \in Cpu, allocproc(d) \/ fork(d) PROVE ParkedAreSmaller'
    BY <1>1, <1>6 DEF allocproc, fork
  <1>7. ASSUME NEW p \in Pid, wakeup(p) \/ wait(p) PROVE ParkedAreSmaller'
    BY <1>1, <1>7 DEF wakeup, wait
  <1>8. CASE UNCHANGED vars
    BY <1>1, <1>8 DEF vars
  <1> QED
    BY <1>2, <1>3, <1>4, <1>5, <1>6, <1>7, <1>8 DEF Next, Schedule

LEMMA Parked == Spec => [](TypeOK /\ Placed /\ ParkedAreSmaller)
  <1>1. Init => ParkedAreSmaller
    BY DEF Init, ParkedAreSmaller
  <1> QED
    BY <1>1, Invariant, ParkedStep, PTL DEF Spec

\* A runnable process with a smaller pid is in tmp, for in the heap it would
\* have been chosen.
LEMMA PassedOver ==
  ASSUME TypeOK, Placed, ParkedAreSmaller, Next,
         NEW c \in Cpu, NEW p \in Pid, NEW q \in Pid,
         Dispatched(c, p), ~IsRR(p), ~IsRR(q), Runnable(q), q < p
  PROVE  RunsBefore(q)
  <1>1. IsFirst(p)
    BY Dispatches
  <1>2. q \notin fcfs
    BY <1>1, Constants DEF IsFirst, Pid
  <1>3. q \in fcfs \/ q \in tmp
    BY DEF Placed, NoLostProcess, Waiting, Runnable
  <1> QED
    BY <1>2, <1>3 DEF ParkedAreSmaller

\* scheduler sets the smaller pids that sleep aside in tmp before it runs a
\* process of the heap, and they may wake there.  However many processors do
\* so at a time, and however the processes stop: one that is runnable is passed
\* over, in tmp or in the heap, only while an fcfs process with a larger pid
\* runs that was chosen before it woke.
THEOREM PassedOverWhileParked == Spec => PassedOverOnlyWhileParked
  <1>1. ASSUME TypeOK, Placed, ParkedAreSmaller, [Next]_vars
        PROVE  [\A c \in Cpu, p, q \in Pid :
                   Dispatched(c, p) /\ ~IsRR(p) /\ ~IsRR(q) /\ Runnable(q) /\ q < p
                   => RunsBefore(q)]_vars
    BY <1>1, PassedOver
  <1> QED
    BY <1>1, Parked, PTL DEF Spec, PassedOverOnlyWhileParked

\* With one processor nobody runs while it chooses, so nobody is in tmp, and
\* the order README.md:10 gives holds without exception.
THEOREM SmallerPidFirst ==
  ASSUME \A c, d \in Cpu : c = d
  PROVE  Spec => SmallestPidFirst
  <1>1. ASSUME TypeOK, Placed, ParkedAreSmaller, [Next]_vars
        PROVE  [\A c \in Cpu, p, q \in Pid :
                   Dispatched(c, p) /\ ~IsRR(p) /\ ~IsRR(q) /\ Runnable(q) => p <= q]_vars
    <2> SUFFICES ASSUME Next, NEW c \in Cpu, NEW p \in Pid, NEW q \in Pid,
                        Dispatched(c, p), ~IsRR(p), ~IsRR(q), Runnable(q)
                 PROVE  ~(q < p)
      BY <1>1, Constants
    <2>1. ~RunsBefore(q)
      BY DEF RunsBefore, Dispatched
    <2> QED
      BY <1>1, <2>1, PassedOver
  <1> QED
    BY <1>1, Parked, PTL DEF Spec, SmallestPidFirst

=============================================================================
