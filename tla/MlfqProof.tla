----------------------------- MODULE MlfqProof -----------------------------
(* Theorems about Mlfq for any number of slots, processors, levels, quanta    *)
(* and boost periods.                                                         *)
EXTENDS MlfqQuantum, TLAPS

-----------------------------------------------------------------------------
(* Type correctness: the values of the variables never leave their ranges; in *)
(* particular a demotion never names a level the MLFQ does not have.          *)

LEMMA Constants ==
  /\ InitProc \in Proc /\ None \notin Proc /\ BootCpu \in Cpu
  /\ K \in Nat \ {0} /\ BoostPeriod \in Nat \ {0} /\ 0 \in Priority /\ Priority \subseteq Int
  /\ Quantum \in [Level -> Nat \ {0}] /\ 0 \in Level
  BY ConstantsAssumption DEF ConstantsAssumption, Level

LEMMA TypeInit == Init => TypeOK
  <1> SUFFICES ASSUME Init PROVE TypeOK
    OBVIOUS
  <1>1. qtime \in [Proc -> Int] /\ qlevel \in [Proc -> Level]
    BY Constants DEF Init
  <1>2. queue \in [Level -> SUBSET Proc] /\ ticks \in 0..BoostPeriod - 1
    BY Constants DEF Init
  <1>3. boost \in BOOLEAN /\ inTimer \in BOOLEAN
    BY DEF Init
  <1> QED
    BY <1>1, <1>2, <1>3, Constants DEF Init, TypeOK, Procstate

LEMMA PutBackType ==
  ASSUME TypeOK, NEW c \in Cpu, running[c] \in Proc, NEW st, NEW level, PutBack(c, st, level)
  PROVE  queue' \in [Level -> SUBSET Proc] /\ tmp' \subseteq Proc
         /\ running' \in [Cpu -> Proc \union {None}]
  BY DEF PutBack, TypeOK

LEMMA BoostType ==
  ASSUME TypeOK, NEW me \in Proc \union {None}, priority_boost(me)
  PROVE  /\ qtime' \in [Proc -> Int] /\ qlevel' \in [Proc -> Level]
         /\ queue' \in [Level -> SUBSET Proc] /\ tmp' \subseteq Proc
         /\ cproc' \in [Level -> Proc \union {None}]
  <1>1. 0 \in Level /\ Quantum[0] \in Int
    BY Constants DEF Level
  <1> QED
    BY <1>1 DEF priority_boost, TypeOK, Below

LEMMA ForgetType ==
  ASSUME TypeOK, NEW p \in Proc, ForgetPlace(p)
  PROVE  /\ qtime' \in [Proc -> Int] /\ qlevel' \in [Proc -> Level]
         /\ cproc' \in [Level -> Proc \union {None}]
  BY Constants DEF ForgetPlace, TypeOK, Level

LEMMA AwakenType ==
  ASSUME TypeOK, NEW W, Awaken(W)
  PROVE  state' \in [Proc -> Procstate] /\ chan' \in [Proc -> Channel \union {None}]
  BY DEF Awaken, TypeOK, Procstate

LEMMA ScheduleType ==
  ASSUME TypeOK, NEW c \in Cpu, Schedule(c)
  PROVE  TypeOK'
  <1>1. ASSUME NEW l \in Level, Resume(c, l) PROVE TypeOK'
    BY <1>1 DEF Resume, Resumable, Switch, TypeOK, Procstate, timeVars
  <1>2. ASSUME NEW l \in Level, Choose(c, l) PROVE TypeOK'
    BY <1>2 DEF Choose, Switch, TypeOK, Procstate, timeVars
  <1>3. ASSUME IdleBoost(c) PROVE TypeOK'
    BY <1>3, BoostType DEF IdleBoost, TypeOK, timeVars
  <1> QED
    BY <1>1, <1>2, <1>3 DEF Schedule

LEMMA ChargeType ==
  ASSUME TypeOK, NEW p \in Proc, Charge(p)
  PROVE  qtime' \in [Proc -> Int] /\ qlevel' \in [Proc -> Level] /\ boost' \in BOOLEAN
  <1>1. CASE boost
    BY <1>1 DEF Charge, TypeOK
  <1>2. CASE ~boost /\ qtime[p] <= 0 /\ qlevel[p] < K - 1
    <2>1. qlevel[p] + 1 \in Level
      BY <1>2, Constants DEF TypeOK, Level
    <2>2. Quantum[qlevel[p] + 1] \in Int
      BY <2>1, Constants
    <2> QED
      BY <1>2, <2>1, <2>2 DEF Charge, TypeOK
  <1>3. CASE ~boost /\ ~(qtime[p] <= 0 /\ qlevel[p] < K - 1)
    BY <1>3 DEF Charge, TypeOK
  <1> QED
    BY <1>1, <1>2, <1>3

LEMMA TimerType ==
  ASSUME TypeOK, Tick \/ \E c \in Cpu : Preempt(c)
  PROVE  TypeOK'
  <1>1. CASE Tick
    <2>1. ticks' \in 0..BoostPeriod - 1
      BY <1>1, Constants DEF Tick, TypeOK
    <2>2. running[BootCpu] \in Proc \union {None}
      BY Constants DEF TypeOK
    <2>3. state' \in [Proc -> Procstate] /\ chan' \in [Proc -> Channel \union {None}]
      BY <1>1, AwakenType DEF Tick
    <2>4. CASE ticks' = 0
      BY <1>1, <2>1, <2>2, <2>3, <2>4, BoostType DEF Tick, TypeOK
    <2>5. CASE ticks' # 0
      BY <1>1, <2>1, <2>2, <2>3, <2>5 DEF Tick, TypeOK, queueVars
    <2> QED
      BY <2>4, <2>5
  <1>2. ASSUME NEW c \in Cpu, Preempt(c) PROVE TypeOK'
    <2>1. running[c] \in Proc
      BY <1>2 DEF Preempt, TypeOK
    <2>2. PutBack(c, state', qlevel')
      BY <1>2 DEF Preempt
    <2>3. queue' \in [Level -> SUBSET Proc] /\ tmp' \subseteq Proc
          /\ running' \in [Cpu -> Proc \union {None}]
      BY <2>1, <2>2, PutBackType
    <2>4. qtime' \in [Proc -> Int] /\ qlevel' \in [Proc -> Level] /\ boost' \in BOOLEAN
      BY <1>2, <2>1, ChargeType DEF Preempt
    <2> QED
      BY <1>2, <2>1, <2>3, <2>4 DEF Preempt, TypeOK, Procstate
  <1> QED
    BY <1>1, <1>2

LEMMA CallType ==
  ASSUME TypeOK, NEW c \in Cpu, Call(c)
  PROVE  TypeOK'
  <1> DEFINE me == running[c]
  <1>0. me \in Proc
    BY DEF Call, TypeOK, sys_yield, yield, sys_sleep, IoSleep, kill, setpriority, allocproc,
           ForkFails, ForkCommits, exit, WaitReaps, WaitSleeps, AtCall, InProcess
  <1>p. \A st, lev : PutBack(c, st, lev) =>
           /\ queue' \in [Level -> SUBSET Proc] /\ tmp' \subseteq Proc
           /\ running' \in [Cpu -> Proc \union {None}]
    BY <1>0, PutBackType
  <1>1. CASE sys_yield(c)
    BY <1>0, <1>1, ForgetType DEF sys_yield, TypeOK, timeVars
  <1>2. CASE yield(c)
    BY <1>0, <1>2, <1>p DEF yield, TypeOK, Procstate, timeVars
  <1>3. CASE sys_sleep(c)
    <2>1. /\ qtime' \in [Proc -> Int] /\ qlevel' \in [Proc -> Level]
          /\ cproc' \in [Level -> Proc \union {None}]
      BY <1>0, <1>3, ForgetType DEF sys_sleep
    <2> QED
      BY <1>0, <1>3, <1>p, <2>1 DEF sys_sleep, sleep, TypeOK, Procstate, Channel, timeVars
  <1>4. CASE IoSleep(c)
    BY <1>0, <1>4, <1>p DEF IoSleep, sleep, TypeOK, Procstate, Channel, timeVars
  <1>5. ASSUME NEW p \in Proc, kill(c, p) PROVE TypeOK'
    BY <1>5, AwakenType DEF kill, TypeOK, queueVars, timeVars
  <1>6. ASSUME NEW p \in Proc, NEW pr \in Priority, setpriority(c, p, pr) PROVE TypeOK'
    BY <1>6 DEF setpriority, TypeOK, queueVars, timeVars
  <1>7. ASSUME NEW p \in Proc, allocproc(c, p) PROVE TypeOK'
    <2>1. Quantum[0] \in Int
      BY Constants
    <2> QED
      BY <1>0, <1>7, <2>1, Constants DEF allocproc, TypeOK, Procstate, queueVars, timeVars
  <1>8. CASE ForkFails(c)
    BY <1>0, <1>8 DEF ForkFails, TypeOK, Procstate, queueVars, timeVars
  <1>9. CASE ForkCommits(c)
    BY <1>0, <1>9 DEF ForkCommits, TypeOK, Procstate, timeVars
  <1>10. CASE exit(c)
    <2>1. parent' \in [Proc -> Proc \union {None}]
      BY <1>10, Constants DEF exit, Heir, TypeOK
    <2> QED
      BY <1>0, <1>10, <1>p, <2>1 DEF exit, TypeOK, Procstate
  <1>11. ASSUME NEW p \in Proc, WaitReaps(c, p) PROVE TypeOK'
    BY <1>11 DEF WaitReaps, TypeOK, Procstate, queueVars, timeVars
  <1>12. CASE WaitSleeps(c)
    BY <1>0, <1>12, <1>p DEF WaitSleeps, sleep, TypeOK, Procstate, Channel, timeVars
  <1> QED
    BY <1>1, <1>2, <1>3, <1>4, <1>5, <1>6, <1>7, <1>8, <1>9, <1>10, <1>11, <1>12 DEF Call

LEMMA TypeStep == TypeOK /\ [Next]_vars => TypeOK'
  <1> SUFFICES ASSUME TypeOK, [Next]_vars PROVE TypeOK'
    OBVIOUS
  <1>1. CASE Tick \/ \E c \in Cpu : Preempt(c)
    BY <1>1, TimerType
  <1>2. CASE IoWakeup
    BY <1>2, AwakenType DEF IoWakeup, TypeOK, queueVars, timeVars
  <1>3. ASSUME NEW c \in Cpu, Schedule(c) \/ Call(c) PROVE TypeOK'
    BY <1>3, ScheduleType, CallType
  <1>4. CASE UNCHANGED vars
    BY <1>4 DEF TypeOK, vars, procVars, queueVars, timeVars
  <1> QED
    BY <1>1, <1>2, <1>3, <1>4 DEF Next

(* Every state the scheduler reaches is well typed, however many levels it is *)
(* built with.                                                                *)
THEOREM TypeCorrect == Spec => []TypeOK
  BY TypeInit, TypeStep, PTL DEF Spec
-----------------------------------------------------------------------------
(* Placement is inductive.  Which processes wait, and which run, is all it    *)
(* needs to know of state; the lemmas follow the helpers of the model.        *)

LEMMA PlacementInit == Init => Placement
  <1> SUFFICES ASSUME Init PROVE Placement
    OBVIOUS
  <1>1. QueuedInPlace /\ ParkedInPlace /\ WaitingIsSomewhere
    BY Constants DEF Init, QueuedInPlace, ParkedInPlace, WaitingIsSomewhere, Waiting
  <1>2. ProcessorsAgree /\ EmbryoHasOneOwner /\ ParkedOnlyWhileRunning
    BY DEF Init, ProcessorsAgree, EmbryoHasOneOwner, ParkedOnlyWhileRunning
  <1> QED
    BY <1>1, <1>2 DEF Placement

\* A step that moves nobody: it may wake a process, free or bury one that does
\* not wait, move a running one to another level, and forget a cproc.
LEMMA PlacementStays ==
  ASSUME TypeOK, Placement,
         \A p \in Proc : Waiting(p)' <=> Waiting(p),
         \A p \in Proc : state'[p] \in {"RUNNING", "EMBRYO"} \/ state[p] \in {"RUNNING", "EMBRYO"}
                            => state'[p] = state[p],
         \A p \in Proc : Waiting(p) => qlevel'[p] = qlevel[p],
         \A l \in Level : cproc'[l] \in {cproc[l], None},
         UNCHANGED <<embryo, queue, tmp, running>>
  PROVE  Placement'
  <1>1. QueuedInPlace'
    BY DEF Placement, QueuedInPlace, TypeOK
  <1>2. ParkedInPlace'
    BY Constants DEF Placement, ParkedInPlace, TypeOK
  <1>3. WaitingIsSomewhere'
    BY DEF Placement, WaitingIsSomewhere
  <1>4. ProcessorsAgree' /\ EmbryoHasOneOwner' /\ ParkedOnlyWhileRunning'
    BY DEF Placement, ProcessorsAgree, EmbryoHasOneOwner, ParkedOnlyWhileRunning, TypeOK
  <1> QED
    BY <1>1, <1>2, <1>3, <1>4 DEF Placement

\* A process is chosen: it leaves its level, and S is parked.
LEMMA PlacementSwitch ==
  ASSUME TypeOK, Placement, NEW c \in Cpu, NEW l \in Level, NEW p \in queue[l],
         NEW S \in SUBSET (queue[l] \ {p}), running[c] = None,
         Switch(c, p, l, S, S)
  PROVE  Placement'
  <1>0. p \in Proc /\ qlevel[p] = l /\ Waiting(p)
    BY DEF TypeOK, Placement, QueuedInPlace
  <1>1. \A q \in Proc : q # p => state'[q] = state[q] /\ (Waiting(q)' <=> Waiting(q))
    BY <1>0 DEF Switch, TypeOK, Waiting
  <1>2. state'[p] = "RUNNING" /\ ~Waiting(p)'
    BY <1>0 DEF Switch, TypeOK, Waiting
  <1>3. QueuedInPlace'
    BY <1>0, <1>1, <1>2 DEF Switch, TypeOK, Placement, QueuedInPlace
  <1>4. ParkedInPlace'
    BY <1>0, <1>1, <1>2 DEF Switch, TypeOK, Placement, ParkedInPlace, QueuedInPlace
  <1>5. WaitingIsSomewhere'
    BY <1>0, <1>1, <1>2 DEF Switch, TypeOK, Placement, WaitingIsSomewhere
  <1>6. ProcessorsAgree'
    BY <1>0, <1>1, <1>2, Constants DEF Switch, TypeOK, Placement, ProcessorsAgree, Waiting
  <1>7. EmbryoHasOneOwner'
    BY <1>0, <1>1, <1>2 DEF Switch, TypeOK, Placement, EmbryoHasOneOwner, Waiting
  <1>8. ParkedOnlyWhileRunning'
    BY <1>0, Constants DEF Switch, TypeOK, ParkedOnlyWhileRunning
  <1> QED
    BY <1>3, <1>4, <1>5, <1>6, <1>7, <1>8 DEF Placement

\* A boost brings everybody in a queue or in tmp to level 0.
LEMMA PlacementBoost ==
  ASSUME TypeOK, Placement, NEW me \in Proc \union {None}, priority_boost(me),
         \A p \in Proc : Waiting(p)' <=> Waiting(p),
         \A p \in Proc : state'[p] \in {"RUNNING", "EMBRYO"} \/ state[p] \in {"RUNNING", "EMBRYO"}
                            => state'[p] = state[p],
         UNCHANGED <<embryo, running>>
  PROVE  Placement'
  <1>0. 0 \in Level
    BY Constants
  <1>1. \A l \in Level : \A p \in queue'[l] : l = 0 /\ p \in queue[0] \union Below \union tmp
    BY DEF priority_boost
  <1>2. \A p \in queue[0] \union Below \union tmp :
            p \in Proc /\ Waiting(p) /\ p \in queue'[0]
    BY <1>0 DEF priority_boost, Placement, QueuedInPlace, ParkedInPlace, Below, TypeOK, Waiting
  <1>3. \A p \in queue[0] \union Below \union tmp : qlevel'[p] = 0
    BY <1>0, <1>2 DEF priority_boost, Placement, QueuedInPlace, TypeOK
  <1>4. QueuedInPlace' /\ ParkedInPlace'
    BY <1>1, <1>2, <1>3 DEF QueuedInPlace, ParkedInPlace, priority_boost
  <1>5. WaitingIsSomewhere'
    <2> SUFFICES ASSUME NEW p \in Proc, Waiting(p) PROVE p \in queue'[qlevel'[p]]
      BY DEF WaitingIsSomewhere
    <2>1. p \in queue[qlevel[p]] \/ p \in tmp
      BY DEF Placement, WaitingIsSomewhere
    <2>2. p \in queue[0] \union Below \union tmp
      BY <2>1, <1>0 DEF Below, TypeOK
    <2> QED
      BY <2>2, <1>2, <1>3
  <1>6. ProcessorsAgree' /\ EmbryoHasOneOwner' /\ ParkedOnlyWhileRunning'
    BY DEF Placement, ProcessorsAgree, EmbryoHasOneOwner, ParkedOnlyWhileRunning, TypeOK,
           priority_boost
  <1> QED
    BY <1>4, <1>5, <1>6 DEF Placement

\* The process on c stops, and all that is parked goes back to its level.
LEMMA PlacementPutBack ==
  ASSUME TypeOK, TypeOK', Placement, NEW c \in Cpu, NEW me \in Proc, running[c] = me,
         PutBack(c, state', qlevel'),
         \A p \in Proc \ {me} : /\ Waiting(p)' <=> Waiting(p)
                                /\ state'[p] \in {"RUNNING", "EMBRYO"} \/ state[p] \in {"RUNNING", "EMBRYO"}
                                       => state'[p] = state[p]
                                /\ qlevel'[p] = qlevel[p],
         state'[me] \in {"RUNNABLE", "SLEEPING", "ZOMBIE"},
         UNCHANGED embryo
  PROVE  Placement'
  <1>0. state[me] = "RUNNING" /\ ~Waiting(me) /\ (Waiting(me)' <=> state'[me] # "ZOMBIE")
    BY Constants DEF Placement, ProcessorsAgree, Waiting
  <1>1. \A l \in Level : me \notin queue[l]
    BY <1>0 DEF Placement, QueuedInPlace
  <1>2. me \notin tmp
    BY <1>0 DEF Placement, ParkedInPlace
  <1>3. \A p \in tmp : p \in Proc \ {me} /\ Waiting(p) /\ Waiting(p)'
    BY <1>2 DEF Placement, ParkedInPlace, TypeOK
  <1>4. \A l \in Level : queue'[l] = queue[l] \union {p \in tmp : qlevel[p] = l}
                                    \union {p \in {me} : Waiting(p)' /\ qlevel'[p] = l}
    <2>1. \A p \in tmp : state'[p] # "UNUSED" /\ qlevel'[p] = qlevel[p]
      BY <1>3 DEF Waiting
    <2>2. state'[me] # "UNUSED"
      OBVIOUS
    <2> QED
      BY <1>0, <2>1, <2>2 DEF PutBack
  <1>5. tmp' = {} /\ running' = [running EXCEPT ![c] = None]
    BY DEF PutBack
  <1>6. QueuedInPlace'
    <2> SUFFICES ASSUME NEW l \in Level, NEW p \in queue'[l] PROVE Waiting(p)' /\ qlevel'[p] = l
      BY DEF QueuedInPlace
    <2>1. CASE p \in queue[l]
      BY <2>1, <1>1 DEF Placement, QueuedInPlace, TypeOK
    <2>2. CASE p \in tmp /\ qlevel[p] = l
      BY <2>2, <1>3
    <2>3. CASE p = me /\ Waiting(p)' /\ qlevel'[p] = l
      BY <2>3
    <2> QED
      BY <1>4, <2>1, <2>2, <2>3
  <1>7. ParkedInPlace' /\ ParkedOnlyWhileRunning'
    BY <1>5 DEF ParkedInPlace, ParkedOnlyWhileRunning
  <1>8. WaitingIsSomewhere'
    <2> SUFFICES ASSUME NEW p \in Proc, Waiting(p)' PROVE p \in queue'[qlevel'[p]]
      BY DEF WaitingIsSomewhere
    <2>1. qlevel'[p] \in Level
      BY DEF TypeOK
    <2>2. CASE p = me
      BY <2>1, <2>2, <1>4
    <2>3. CASE p # me
      <3>1. Waiting(p) /\ qlevel'[p] = qlevel[p]
        BY <2>3
      <3> QED
        BY <2>1, <3>1, <1>4 DEF Placement, WaitingIsSomewhere
    <2> QED
      BY <2>2, <2>3
  <1>9. ProcessorsAgree'
    <2>1. \A d \in Cpu : running'[d] = IF d = c THEN None ELSE running[d]
      BY <1>5 DEF TypeOK
    <2>2. \A d \in Cpu : running'[d] # None => running[d] \in Proc \ {me} /\ d # c
      BY <2>1 DEF Placement, ProcessorsAgree, TypeOK
    <2>3. \A d \in Cpu : running'[d] # None => state'[running'[d]] = "RUNNING"
      BY <2>1, <2>2 DEF Placement, ProcessorsAgree
    <2>4. ASSUME NEW p \in Proc, state'[p] = "RUNNING" PROVE \E d \in Cpu : running'[d] = p
      <3>1. p # me /\ state[p] = "RUNNING"
        BY <2>4
      <3>2. PICK d \in Cpu : running[d] = p
        BY <3>1 DEF Placement, ProcessorsAgree
      <3> QED
        BY <2>1, <3>1, <3>2
    <2>5. \A d, e \in Cpu : running'[d] # None /\ running'[d] = running'[e] => d = e
      BY <2>1, <2>2 DEF Placement, ProcessorsAgree
    <2> QED
      BY <2>3, <2>4, <2>5 DEF ProcessorsAgree
  <1>10. EmbryoHasOneOwner'
    BY <1>0 DEF Placement, EmbryoHasOneOwner, TypeOK
  <1> QED
    BY <1>6, <1>7, <1>8, <1>9, <1>10 DEF Placement

LEMMA PlacementSchedule ==
  ASSUME TypeOK, Placement, NEW c \in Cpu, Schedule(c)
  PROVE  Placement'
  <1>1. ASSUME NEW l \in Level, Resume(c, l) PROVE Placement'
    <2>1. PICK S \in SUBSET queue[l] :
             PoppedBefore(cproc[l], l, S) /\ Switch(c, cproc[l], l, S, S)
      BY <1>1 DEF Resume
    <2>2. S \in SUBSET (queue[l] \ {cproc[l]}) /\ cproc[l] \in queue[l] /\ running[c] = None
      BY <1>1, <2>1 DEF Resume, PoppedBefore
    <2> QED
      BY <2>1, <2>2, PlacementSwitch
  <1>2. ASSUME NEW l \in Level, Choose(c, l) PROVE Placement'
    <2>1. PICK p \in queue[l], S \in SUBSET {q \in queue[l] : ~CanRun(q)} :
             /\ CanRun(p)
             /\ Switch(c, p, l, S, {q \in S : state[q] \notin {"UNUSED", "ZOMBIE"}})
      BY <1>2 DEF Choose
    <2>2. \A q \in S : state[q] \notin {"UNUSED", "ZOMBIE"}
      BY <2>1 DEF Placement, QueuedInPlace, Waiting
    <2>3. {q \in S : state[q] \notin {"UNUSED", "ZOMBIE"}} = S
      BY <2>2
    <2>4. S \in SUBSET (queue[l] \ {p}) /\ running[c] = None
      BY <1>2, <2>1 DEF Choose
    <2> QED
      BY <2>1, <2>3, <2>4, PlacementSwitch
  <1>3. CASE IdleBoost(c)
    <2>1. priority_boost(None) /\ UNCHANGED <<state, embryo, running>>
      BY <1>3 DEF IdleBoost
    <2>2. \A q \in Proc : Waiting(q)' <=> Waiting(q)
      BY <2>1 DEF Waiting
    <2>3. None \in Proc \union {None}
      OBVIOUS
    <2> QED
      BY <2>1, <2>2, <2>3, PlacementBoost
  <1> QED
    BY <1>1, <1>2, <1>3 DEF Schedule
LEMMA PlacementTimer ==
  ASSUME TypeOK, TypeOK', Placement, Tick \/ \E c \in Cpu : Preempt(c)
  PROVE  Placement'
  <1>1. CASE Tick
    <2>1. \A p \in Proc : Waiting(p)' <=> Waiting(p)
      BY <1>1 DEF Tick, Awaken, Sleepers, Waiting, TypeOK
    <2>2. \A p \in Proc : state'[p] \in {"RUNNING", "EMBRYO"} \/ state[p] \in {"RUNNING", "EMBRYO"}
                            => state'[p] = state[p]
      BY <1>1 DEF Tick, Awaken, Sleepers, TypeOK
    <2>3. CASE ticks' = 0
      <3>1. running[BootCpu] \in Proc \union {None}
        BY Constants DEF TypeOK
      <3> QED
        BY <1>1, <2>1, <2>2, <2>3, <3>1, PlacementBoost DEF Tick
    <2>4. CASE ticks' # 0
      BY <1>1, <2>1, <2>2, <2>4, PlacementStays DEF Tick, queueVars
    <2> QED
      BY <2>3, <2>4
  <1>2. ASSUME NEW c \in Cpu, Preempt(c) PROVE Placement'
    <2> DEFINE me == running[c]
    <2>1. me \in Proc /\ PutBack(c, state', qlevel') /\ UNCHANGED embryo
      BY <1>2 DEF Preempt, TypeOK
    <2>2. \A p \in Proc \ {me} : state'[p] = state[p] /\ qlevel'[p] = qlevel[p]
      BY <1>2, <2>1 DEF Preempt, Charge, TypeOK
    <2>3. state'[me] = "RUNNABLE"
      BY <1>2, <2>1 DEF Preempt, TypeOK
    <2> QED
      BY <2>1, <2>2, <2>3, PlacementPutBack DEF Waiting
  <1> QED
    BY <1>1, <1>2
LEMMA PlacementFork ==
  ASSUME TypeOK, Placement, NEW c \in Cpu,
         (\E np \in Proc : allocproc(c, np)) \/ ForkFails(c) \/ ForkCommits(c)
  PROVE  Placement'
  <1> DEFINE me == running[c]
  <1>0. me \in Proc /\ state[me] = "RUNNING"
    BY DEF allocproc, ForkFails, ForkCommits, AtCall, InProcess, TypeOK, Placement, ProcessorsAgree
  <1>1. ASSUME NEW np \in Proc, allocproc(c, np) PROVE Placement'
    <2>1. state[np] = "UNUSED" /\ state'[np] = "EMBRYO" /\ embryo[me] = None
          /\ embryo' = [embryo EXCEPT ![me] = np]
      BY <1>1 DEF allocproc, AtCall, TypeOK
    <2>2. \A p \in Proc : p # np => state'[p] = state[p] /\ qlevel'[p] = qlevel[p]
      BY <1>1 DEF allocproc, TypeOK
    <2>3. \A p \in Proc : Waiting(p)' <=> Waiting(p)
      BY <2>1, <2>2 DEF Waiting
    <2>4. \A p \in Proc : Waiting(p) => p # np
      BY <2>1 DEF Waiting
    <2>5. UNCHANGED <<queue, cproc, tmp, running>>
      BY <1>1 DEF allocproc, queueVars
    <2>6. QueuedInPlace'
      BY <2>2, <2>3, <2>4, <2>5 DEF Placement, QueuedInPlace, TypeOK
    <2>7. ParkedInPlace'
      BY <2>2, <2>3, <2>4, <2>5 DEF Placement, ParkedInPlace, TypeOK
    <2>10. WaitingIsSomewhere'
      BY <2>2, <2>3, <2>4, <2>5 DEF Placement, WaitingIsSomewhere
    <2>8. ProcessorsAgree' /\ ParkedOnlyWhileRunning'
      BY <2>1, <2>2, <2>5 DEF Placement, ProcessorsAgree, ParkedOnlyWhileRunning, TypeOK
    <2>9. EmbryoHasOneOwner'
      BY <1>0, <2>1, <2>2, Constants DEF Placement, EmbryoHasOneOwner, TypeOK
    <2> QED
      BY <2>6, <2>7, <2>8, <2>9, <2>10 DEF Placement
  <1>2. CASE ForkFails(c)
    <2>1. PICK np \in Proc :
             /\ np = embryo[me] /\ state[np] = "EMBRYO"
             /\ state' = [state EXCEPT ![np] = "UNUSED"]
             /\ embryo' = [embryo EXCEPT ![me] = None]
      BY <1>0, <1>2 DEF ForkFails, TypeOK, Placement, EmbryoHasOneOwner
    <2>2. UNCHANGED <<qlevel, queue, cproc, tmp, running>>
      BY <1>2 DEF ForkFails, queueVars
    <2>3. \A p \in Proc : Waiting(p)' <=> Waiting(p)
      BY <2>1 DEF Waiting, TypeOK
    <2>4. QueuedInPlace' /\ ParkedInPlace' /\ WaitingIsSomewhere'
      BY <2>2, <2>3 DEF Placement, QueuedInPlace, ParkedInPlace, WaitingIsSomewhere, TypeOK
    <2>5. ProcessorsAgree' /\ ParkedOnlyWhileRunning'
      BY <2>1, <2>2 DEF Placement, ProcessorsAgree, ParkedOnlyWhileRunning, TypeOK
    <2>6. EmbryoHasOneOwner'
      BY <1>0, <2>1, Constants DEF Placement, EmbryoHasOneOwner, TypeOK
    <2> QED
      BY <2>4, <2>5, <2>6 DEF Placement
  <1>3. CASE ForkCommits(c)
    <2>1. PICK np \in Proc :
             /\ np = embryo[me] /\ state[np] = "EMBRYO"
             /\ state' = [state EXCEPT ![np] = "RUNNABLE"]
             /\ embryo' = [embryo EXCEPT ![me] = None]
      BY <1>0, <1>3 DEF ForkCommits, TypeOK, Placement, EmbryoHasOneOwner
    <2>2. /\ queue' = [queue EXCEPT ![qlevel[np]] = @ \union {np}]
          /\ UNCHANGED <<qlevel, cproc, tmp, running>>
      BY <1>3, <2>1 DEF ForkCommits
    <2>3. \A p \in Proc : p # np => (Waiting(p)' <=> Waiting(p))
      BY <2>1 DEF Waiting, TypeOK
    <2>4. Waiting(np)' /\ ~Waiting(np)
      BY <2>1 DEF Waiting, TypeOK
    <2>5. QueuedInPlace' /\ WaitingIsSomewhere'
      BY <2>1, <2>2, <2>3, <2>4 DEF Placement, QueuedInPlace, WaitingIsSomewhere, TypeOK
    <2>6. ParkedInPlace'
      BY <2>1, <2>2, <2>3, <2>4 DEF Placement, ParkedInPlace, TypeOK
    <2>7. ProcessorsAgree' /\ ParkedOnlyWhileRunning'
      BY <2>1, <2>2 DEF Placement, ProcessorsAgree, ParkedOnlyWhileRunning, TypeOK
    <2>8. EmbryoHasOneOwner'
      BY <1>0, <2>1, Constants DEF Placement, EmbryoHasOneOwner, TypeOK
    <2> QED
      BY <2>5, <2>6, <2>7, <2>8 DEF Placement
  <1> QED
    BY <1>1, <1>2, <1>3

LEMMA PlacementCall ==
  ASSUME TypeOK, TypeOK', Placement, NEW c \in Cpu, Call(c)
  PROVE  Placement'
  <1> DEFINE me == running[c]
  <1>0. me \in Proc
    BY DEF Call, TypeOK, sys_yield, yield, sys_sleep, IoSleep, kill, setpriority, allocproc,
           ForkFails, ForkCommits, exit, WaitReaps, WaitSleeps, AtCall, InProcess
  <1>1. state[me] = "RUNNING"
    BY <1>0, Constants DEF Placement, ProcessorsAgree
  <1>2. CASE sys_yield(c)
    <2>1. UNCHANGED <<state, embryo, queue, tmp, running>>
      BY <1>2 DEF sys_yield
    <2>2. \A p \in Proc : Waiting(p) => qlevel'[p] = qlevel[p]
      BY <1>0, <1>1, <1>2 DEF sys_yield, ForgetPlace, Waiting, TypeOK
    <2>3. \A l \in Level : cproc'[l] \in {cproc[l], None}
      BY <1>2 DEF sys_yield, ForgetPlace, TypeOK
    <2> QED
      BY <2>1, <2>2, <2>3, PlacementStays DEF Waiting
  <1>3. CASE yield(c) \/ sys_sleep(c) \/ IoSleep(c) \/ WaitSleeps(c)
    <2>1. PutBack(c, state', qlevel') /\ UNCHANGED embryo
      BY <1>3 DEF yield, sys_sleep, IoSleep, WaitSleeps, sleep
    <2>2. \A p \in Proc \ {me} : state'[p] = state[p] /\ qlevel'[p] = qlevel[p]
      BY <1>0, <1>3 DEF yield, sys_sleep, IoSleep, WaitSleeps, sleep, ForgetPlace, TypeOK
    <2>3. state'[me] \in {"RUNNABLE", "SLEEPING", "ZOMBIE"}
      BY <1>0, <1>3 DEF yield, sys_sleep, IoSleep, WaitSleeps, sleep, TypeOK
    <2> QED
      BY <1>0, <2>1, <2>2, <2>3, PlacementPutBack DEF Waiting
  <1>4. CASE exit(c)
    <2>1. PutBack(c, state', qlevel') /\ UNCHANGED embryo /\ UNCHANGED qlevel
      BY <1>4 DEF exit
    <2>2. \A p \in Proc \ {me} :
             /\ Waiting(p)' <=> Waiting(p)
             /\ state'[p] \in {"RUNNING", "EMBRYO"} \/ state[p] \in {"RUNNING", "EMBRYO"}
                    => state'[p] = state[p]
      BY <1>4 DEF exit, Woken, Sleepers, Waiting, TypeOK
    <2>3. state'[me] = "ZOMBIE"
      BY <1>0, <1>4 DEF exit, TypeOK
    <2> QED
      BY <1>0, <2>1, <2>2, <2>3, PlacementPutBack
  <1>5. ASSUME NEW p \in Proc, NEW pr \in Priority,
               kill(c, p) \/ setpriority(c, p, pr) \/ WaitReaps(c, p)
        PROVE  Placement'
    <2>1. UNCHANGED <<qlevel, embryo, queue, cproc, tmp, running>>
      BY <1>5 DEF kill, setpriority, WaitReaps, queueVars
    <2>2. \A q \in Proc :
             /\ Waiting(q)' <=> Waiting(q)
             /\ state'[q] \in {"RUNNING", "EMBRYO"} \/ state[q] \in {"RUNNING", "EMBRYO"}
                    => state'[q] = state[q]
      BY <1>5 DEF kill, setpriority, WaitReaps, Awaken, Dead, Waiting, TypeOK
    <2> QED
      BY <2>1, <2>2, PlacementStays
  <1> QED
    BY <1>2, <1>3, <1>4, <1>5, PlacementFork, Constants DEF Call

LEMMA PlacementStep == TypeOK /\ Placement /\ [Next]_vars => Placement'
  <1> SUFFICES ASSUME TypeOK, Placement, [Next]_vars PROVE Placement'
    OBVIOUS
  <1>0. TypeOK'
    BY TypeStep
  <1>1. CASE Tick \/ \E c \in Cpu : Preempt(c)
    BY <1>0, <1>1, PlacementTimer
  <1>2. ASSUME NEW c \in Cpu, Schedule(c) \/ Call(c) PROVE Placement'
    BY <1>0, <1>2, PlacementSchedule, PlacementCall
  <1>3. CASE IoWakeup \/ UNCHANGED vars
    <2>1. UNCHANGED <<qlevel, embryo, queue, cproc, tmp, running>>
      BY <1>3 DEF IoWakeup, vars, procVars, queueVars
    <2>2. \A q \in Proc :
             /\ Waiting(q)' <=> Waiting(q)
             /\ state'[q] \in {"RUNNING", "EMBRYO"} \/ state[q] \in {"RUNNING", "EMBRYO"}
                    => state'[q] = state[q]
      BY <1>3 DEF IoWakeup, vars, procVars, Awaken, Sleepers, Waiting, TypeOK
    <2> QED
      BY <2>1, <2>2, PlacementStays
  <1> QED
    BY <1>1, <1>2, <1>3 DEF Next

LEMMA PlacementInvariant == Spec => [](TypeOK /\ Placement)
  BY TypeInit, TypeStep, PlacementInit, PlacementStep, PTL DEF Spec

-----------------------------------------------------------------------------
(* No process is lost or scheduled twice, for every number of slots and       *)
(* processors.                                                                *)
THEOREM NobodyIsLost == Spec => []NoLostProcess
  <1>1. TypeOK /\ Placement => NoLostProcess
    <2> SUFFICES ASSUME TypeOK, Placement PROVE NoLostProcess
      OBVIOUS
    <2>1. ASSUME NEW p \in Proc, Waiting(p) PROVE (p \in Queued) # (p \in tmp)
      <3>1. p \in Queued => p \in queue[qlevel[p]]
        BY DEF Queued, Placement, QueuedInPlace
      <3>2. p \in tmp => p \notin Queued
        BY <3>1 DEF Placement, ParkedInPlace
      <3>3. p \notin tmp => p \in Queued
        BY <2>1 DEF Queued, Placement, WaitingIsSomewhere, TypeOK
      <3> QED
        BY <3>2, <3>3
    <2>2. \A p \in Queued \union tmp : Waiting(p)
      BY DEF Queued, Placement, QueuedInPlace, ParkedInPlace
    <2>3. \A p \in Proc : (state[p] = "RUNNING") <=> \E c \in Cpu : running[c] = p
      BY Constants DEF Placement, ProcessorsAgree
    <2>4. \A c, d \in Cpu : running[c] = running[d] /\ running[c] # None => c = d
      BY DEF Placement, ProcessorsAgree
    <2> QED
      BY <2>1, <2>2, <2>3, <2>4 DEF NoLostProcess
  <1> QED
    BY <1>1, PlacementInvariant, PTL

(* A process in a queue is in the queue of its level.                         *)
THEOREM QueuesKeepLevel == Spec => []LevelAgrees
  <1>1. Placement => LevelAgrees
    BY DEF Placement, QueuedInPlace, LevelAgrees
  <1> QED
    BY <1>1, PlacementInvariant, PTL

(* The unbounded search for the previous process always finds it.             *)
THEOREM ResumeTerminates == Spec => []ResumeFinds
  <1>1. TypeOK /\ Placement => ResumeFinds
    BY DEF Placement, ParkedInPlace, WaitingIsSomewhere, Waiting, ResumeFinds, Resumable, TypeOK
  <1> QED
    BY <1>1, PlacementInvariant, PTL

(* Processes are parked only while a process runs that will bring them back.  *)
THEOREM ParkedComeBack == Spec => []ParkedOnlyWhileRunning
  BY PlacementInvariant, PTL DEF Placement

(* A slot taken by fork and not yet a process belongs to one fork.            *)
THEOREM SlotsHaveOneOwner == Spec => []EmbryoHasOneOwner
  BY PlacementInvariant, PTL DEF Placement

-----------------------------------------------------------------------------
(* Family is inductive over the states that are well typed and well placed.   *)

LEMMA FamilyInit == Init => Family
  BY Constants DEF Init, Family, NoDeadChildUnnoticed

\* A step in which nobody changes parents, dies, or goes to sleep in wait.
LEMMA FamilyStays ==
  ASSUME Family,
         UNCHANGED parent,
         \A p \in Proc : state'[p] = "ZOMBIE" => state[p] = "ZOMBIE",
         \A p \in Proc : state'[p] = "SLEEPING" /\ chan'[p] = "child" =>
                            state[p] = "SLEEPING" /\ chan[p] = "child",
         state'[InitProc] \in {"SLEEPING", "RUNNABLE", "RUNNING"}
  PROVE  Family'
  <1>1. \A p \in Proc : Dead(p)' \subseteq Dead(p)
    BY DEF Dead, Child
  <1> QED
    BY <1>1 DEF Family, NoDeadChildUnnoticed

LEMMA FamilyAwaken ==
  ASSUME TypeOK, Family, UNCHANGED parent, NEW W \in SUBSET Proc, Awaken(W)
  PROVE  Family'
  <1>1. \A p \in Proc : state'[p] = (IF p \in W THEN "RUNNABLE" ELSE state[p])
                        /\ chan'[p] = (IF p \in W THEN None ELSE chan[p])
    BY DEF Awaken
  <1>2. state'[InitProc] \in {"SLEEPING", "RUNNABLE", "RUNNING"}
    BY <1>1, Constants DEF Family
  <1> QED
    BY <1>1, <1>2, FamilyStays

LEMMA FamilySchedule ==
  ASSUME TypeOK, Placement, Family, NEW c \in Cpu, Schedule(c)
  PROVE  Family'
  <1>1. ASSUME NEW l \in Level, NEW p \in Proc, NEW S, NEW T, Switch(c, p, l, S, T)
        PROVE  Family'
    <2>1. \A q \in Proc : state'[q] = IF q = p THEN "RUNNING" ELSE state[q]
      BY <1>1 DEF Switch, TypeOK
    <2>2. UNCHANGED <<parent, chan>>
      BY <1>1 DEF Switch
    <2>3. state'[InitProc] \in {"SLEEPING", "RUNNABLE", "RUNNING"}
      BY <2>1, Constants DEF Family
    <2> QED
      BY <2>1, <2>2, <2>3, FamilyStays
  <1>2. ASSUME NEW l \in Level, Resume(c, l) PROVE Family'
    BY <1>1, <1>2 DEF Resume, TypeOK
  <1>3. ASSUME NEW l \in Level, Choose(c, l) PROVE Family'
    BY <1>1, <1>3 DEF Choose, TypeOK
  <1>4. CASE IdleBoost(c)
    <2>1. UNCHANGED <<state, parent, chan>>
      BY <1>4 DEF IdleBoost
    <2> QED
      BY <2>1, FamilyStays DEF Family
  <1> QED
    BY <1>2, <1>3, <1>4 DEF Schedule

LEMMA FamilyTimer ==
  ASSUME TypeOK, Placement, Family, Tick \/ \E c \in Cpu : Preempt(c)
  PROVE  Family'
  <1>1. CASE Tick
    BY <1>1, FamilyAwaken DEF Tick, Sleepers
  <1>2. ASSUME NEW c \in Cpu, Preempt(c) PROVE Family'
    <2> DEFINE me == running[c]
    <2>1. me \in Proc /\ UNCHANGED <<parent, chan>>
      BY <1>2 DEF Preempt, TypeOK
    <2>2. \A q \in Proc : state'[q] = IF q = me THEN "RUNNABLE" ELSE state[q]
      BY <1>2, <2>1 DEF Preempt, TypeOK
    <2>3. state'[InitProc] \in {"SLEEPING", "RUNNABLE", "RUNNING"}
      BY <2>2, Constants DEF Family
    <2> QED
      BY <2>1, <2>2, <2>3, FamilyStays
  <1> QED
    BY <1>1, <1>2

LEMMA FamilyFork ==
  ASSUME TypeOK, Placement, Family, NEW c \in Cpu,
         (\E np \in Proc : allocproc(c, np)) \/ ForkFails(c) \/ ForkCommits(c)
  PROVE  Family'
  <1> DEFINE me == running[c]
  <1>0. me \in Proc /\ state[me] = "RUNNING"
    BY DEF allocproc, ForkFails, ForkCommits, AtCall, InProcess, TypeOK, Placement, ProcessorsAgree
  <1>1. ASSUME NEW np \in Proc, NEW st \in {"EMBRYO", "UNUSED"}, state[np] \in {"UNUSED", "EMBRYO"},
               state' = [state EXCEPT ![np] = st], UNCHANGED <<parent, chan>>
        PROVE  Family'
    <2>1. \A q \in Proc : state'[q] = IF q = np THEN st ELSE state[q]
      BY <1>1 DEF TypeOK
    <2>2. state'[InitProc] \in {"SLEEPING", "RUNNABLE", "RUNNING"}
      BY <1>1, <2>1, Constants DEF Family
    <2> QED
      BY <1>1, <2>1, <2>2, FamilyStays
  <1>2. CASE \E np \in Proc : allocproc(c, np)
    BY <1>1, <1>2 DEF allocproc
  <1>3. embryo[me] # None => embryo[me] \in Proc /\ state[embryo[me]] = "EMBRYO"
    BY <1>0 DEF TypeOK, Placement, EmbryoHasOneOwner
  <1>4. CASE ForkFails(c)
    BY <1>1, <1>3, <1>4 DEF ForkFails
  <1>5. CASE ForkCommits(c)
    <2> DEFINE np == embryo[me]
    <2>1. np \in Proc /\ state[np] = "EMBRYO" /\ UNCHANGED chan
      BY <1>3, <1>5 DEF ForkCommits
    <2>2. \A q \in Proc : state'[q] = IF q = np THEN "RUNNABLE" ELSE state[q]
      BY <1>5, <2>1 DEF ForkCommits, TypeOK
    <2>3. \A q \in Proc : parent'[q] = IF q = np THEN me ELSE parent[q]
      BY <1>5, <2>1 DEF ForkCommits, TypeOK
    <2>4. np # InitProc /\ np # me
      BY <1>0, <2>1 DEF Family
    <2>5. \A p \in Proc : Dead(p)' \subseteq Dead(p)
      BY <2>2, <2>3 DEF Dead, Child
    <2>6. NoDeadChildUnnoticed'
      BY <2>1, <2>2, <2>5 DEF Family, NoDeadChildUnnoticed
    <2> QED
      BY <2>2, <2>3, <2>4, <2>6, Constants DEF Family
  <1> QED
    BY <1>2, <1>4, <1>5

\* The parent sleeps in wait and is woken, or it does not sleep there; the
\* children that are dead already wake init.
LEMMA FamilyExit ==
  ASSUME TypeOK, Placement, Family, NEW c \in Cpu, exit(c)
  PROVE  Family'
  <1> DEFINE me == running[c]
  <1>0. me \in Proc /\ me # InitProc /\ state[me] = "RUNNING" /\ me # None
    BY DEF exit, TypeOK, Placement, ProcessorsAgree
  <1>1. \A q \in Proc : parent'[q] = IF parent[q] = me THEN InitProc ELSE parent[q]
    BY DEF exit, Heir
  <1>2. \A q \in Proc : state'[q] = IF q = me THEN "ZOMBIE"
                                    ELSE IF q \in Woken(me) THEN "RUNNABLE" ELSE state[q]
    BY DEF exit
  <1>3. \A q \in Proc : chan'[q] = IF q \in Woken(me) THEN None ELSE chan[q]
    BY DEF exit
  <1>4. state'[InitProc] \in {"SLEEPING", "RUNNABLE", "RUNNING"} /\ parent'[InitProc] = None
    BY <1>0, <1>1, <1>2, Constants DEF Family
  <1>5. \A p \in Proc : parent'[p] # p
    BY <1>0, <1>1, <1>4, Constants DEF Family
  <1>6. ASSUME NEW p \in Proc, state'[p] = "SLEEPING", chan'[p] = "child", NEW q \in Dead(p)'
        PROVE  FALSE
    <2>1. p # me /\ p \notin Woken(me) /\ state[p] = "SLEEPING" /\ chan[p] = "child"
      BY <1>2, <1>3, <1>6
    <2>2. p # parent[me] /\ (p = InitProc => ~\E d \in Proc : parent[d] = me /\ state[d] = "ZOMBIE")
      BY <2>1 DEF Woken, Sleepers
    <2>3. q \in Proc /\ parent'[q] = p /\ state'[q] = "ZOMBIE"
      BY <1>6 DEF Dead, Child
    <2>4. parent[me] # me
      BY <1>0 DEF Family
    <2>5. q # me
      BY <1>0, <1>1, <2>2, <2>3, <2>4
    <2>6. state[q] = "ZOMBIE"
      BY <1>2, <2>3, <2>5
    <2>7. CASE parent[q] = me
      BY <1>1, <2>2, <2>3, <2>6, <2>7
    <2>8. CASE parent[q] # me
      <3>1. q \in Dead(p)
        BY <1>1, <2>3, <2>6, <2>8 DEF Dead, Child
      <3> QED
        BY <2>1, <3>1 DEF Family, NoDeadChildUnnoticed
    <2> QED
      BY <2>7, <2>8
  <1>7. NoDeadChildUnnoticed'
    BY <1>6 DEF NoDeadChildUnnoticed
  <1> QED
    BY <1>4, <1>5, <1>7 DEF Family

LEMMA FamilyCall ==
  ASSUME TypeOK, Placement, Family, NEW c \in Cpu, Call(c)
  PROVE  Family'
  <1> DEFINE me == running[c]
  <1>0. me \in Proc
    BY DEF Call, TypeOK, sys_yield, yield, sys_sleep, IoSleep, kill, setpriority, allocproc,
           ForkFails, ForkCommits, exit, WaitReaps, WaitSleeps, AtCall, InProcess
  <1>1. CASE sys_yield(c) \/ \E p \in Proc, pr \in Priority : setpriority(c, p, pr)
    <2>1. UNCHANGED <<state, parent, chan>>
      BY <1>1 DEF sys_yield, setpriority
    <2> QED
      BY <2>1, FamilyStays DEF Family
  <1>2. CASE yield(c) \/ sys_sleep(c) \/ IoSleep(c)
    <2>1. UNCHANGED parent
      BY <1>2 DEF yield, sys_sleep, IoSleep, sleep
    <2>2. PICK st \in {"RUNNABLE", "SLEEPING"} :
             \A q \in Proc : state'[q] = IF q = me THEN st ELSE state[q]
      BY <1>0, <1>2 DEF yield, sys_sleep, IoSleep, sleep, TypeOK
    <2>3. \A q \in Proc : state'[q] = "SLEEPING" /\ chan'[q] = "child" =>
                             state[q] = "SLEEPING" /\ chan[q] = "child"
      BY <1>0, <1>2 DEF yield, sys_sleep, IoSleep, sleep, TypeOK
    <2>4. state'[InitProc] \in {"SLEEPING", "RUNNABLE", "RUNNING"}
      BY <2>2, Constants DEF Family
    <2> QED
      BY <2>1, <2>2, <2>3, <2>4, FamilyStays
  <1>3. ASSUME NEW p \in Proc, kill(c, p) PROVE Family'
    BY <1>3, FamilyAwaken DEF kill
  <1>4. ASSUME NEW p \in Proc, WaitReaps(c, p) PROVE Family'
    <2>1. state[p] = "ZOMBIE" /\ p # InitProc
      BY <1>4 DEF WaitReaps, Dead, Family
    <2>2. \A q \in Proc : /\ state'[q] = (IF q = p THEN "UNUSED" ELSE state[q])
                          /\ parent'[q] = (IF q = p THEN None ELSE parent[q])
                          /\ chan'[q] = chan[q]
      BY <1>4 DEF WaitReaps, TypeOK
    <2>3. \A q \in Proc : Dead(q)' \subseteq Dead(q)
      BY <2>2 DEF Dead, Child
    <2>4. NoDeadChildUnnoticed'
      BY <2>2, <2>3 DEF Family, NoDeadChildUnnoticed
    <2> QED
      BY <2>1, <2>2, <2>4, Constants DEF Family
  <1>5. CASE WaitSleeps(c)
    <2>1. Dead(me) = {} /\ UNCHANGED parent
      BY <1>5 DEF WaitSleeps, sleep
    <2>2. \A q \in Proc : /\ state'[q] = (IF q = me THEN "SLEEPING" ELSE state[q])
                          /\ chan'[q] = (IF q = me THEN "child" ELSE chan[q])
      BY <1>0, <1>5 DEF WaitSleeps, sleep, TypeOK
    <2>3. \A q \in Proc : Dead(q)' \subseteq Dead(q)
      BY <2>1, <2>2 DEF Dead, Child
    <2>4. NoDeadChildUnnoticed'
      BY <2>1, <2>2, <2>3 DEF Family, NoDeadChildUnnoticed
    <2> QED
      BY <2>1, <2>2, <2>4, Constants DEF Family
  <1> QED
    BY <1>1, <1>2, <1>3, <1>4, <1>5, FamilyFork, FamilyExit DEF Call

LEMMA FamilyStep == TypeOK /\ Placement /\ Family /\ [Next]_vars => Family'
  <1> SUFFICES ASSUME TypeOK, Placement, Family, [Next]_vars PROVE Family'
    OBVIOUS
  <1>1. CASE Tick \/ \E c \in Cpu : Preempt(c)
    BY <1>1, FamilyTimer
  <1>2. CASE IoWakeup
    BY <1>2, FamilyAwaken DEF IoWakeup, Sleepers
  <1>3. ASSUME NEW c \in Cpu, Schedule(c) \/ Call(c) PROVE Family'
    BY <1>3, FamilySchedule, FamilyCall
  <1>4. CASE UNCHANGED vars
    BY <1>4, FamilyStays DEF vars, procVars, Family
  <1> QED
    BY <1>1, <1>2, <1>3, <1>4 DEF Next

(* No wake-up of wait() is lost, for any number of slots and processors: who  *)
(* sleeps there has no dead child, whichever process exits and whoever it     *)
(* leaves its children to.                                                    *)
THEOREM WaitersAreWoken == Spec => []NoDeadChildUnnoticed
  <1>1. Family => NoDeadChildUnnoticed
    BY DEF Family
  <1> QED
    BY <1>1, PlacementInvariant, FamilyInit, FamilyStep, PTL DEF Spec

-----------------------------------------------------------------------------
(* The orders of the scheduler, on one processor: with two, what one of them  *)
(* has parked the other cannot choose, and what runs on the other the boot    *)
(* processor does not raise.                                                  *)

\* Only the scheduler of a processor that runs nothing dispatches to it.
LEMMA Dispatches ==
  ASSUME TypeOK, NEW c \in Cpu, NEW p \in Proc, [Next]_vars, Dispatched(c, p)
  PROVE  \E l \in Level : (Resume(c, l) /\ p = cproc[l]) \/
            (/\ ~Resumable(l) /\ IsClevel(l) /\ CanRun(p) /\ p \in queue[l]
             /\ \E S \in SUBSET {q \in queue[l] : ~CanRun(q)} : PoppedBefore(p, l, S))
  <1> DEFINE Leaves(d) == running' = [running EXCEPT ![d] = None]
  <1>0. running[c] = None /\ running'[c] = p /\ p # None
    BY DEF Dispatched
  <1>1. running' # running /\ \A d \in Cpu : ~Leaves(d)
    BY <1>0 DEF TypeOK
  <1>2. ~Tick /\ ~IoWakeup /\ ~UNCHANGED vars
    BY <1>1 DEF Tick, IoWakeup, vars
  <1>3. \A d \in Cpu : ~Preempt(d)
    BY <1>1 DEF Preempt, PutBack
  <1>4. \A d \in Cpu : ~Call(d)
    BY <1>1 DEF Call, sys_yield, yield, sys_sleep, IoSleep, sleep, PutBack, kill, setpriority,
                allocproc, ForkFails, ForkCommits, exit, WaitReaps, WaitSleeps
  <1>5. PICK d \in Cpu, l \in Level : Resume(d, l) \/ Choose(d, l)
    BY <1>1, <1>2, <1>3, <1>4 DEF Next, Schedule, IdleBoost
  <1>6. \A q, S, T : Switch(d, q, l, S, T) => d = c /\ q = p
    BY <1>0 DEF Switch, TypeOK
  <1>7. CASE Resume(d, l)
    BY <1>6, <1>7 DEF Resume
  <1>8. CASE Choose(d, l)
    BY <1>6, <1>8 DEF Choose
  <1> QED
    BY <1>5, <1>7, <1>8

\* With nothing parked, who can run is in the queue of its level.
LEMMA RunnableIsQueued ==
  ASSUME TypeOK, Placement, Cpu = {BootCpu}, NEW c \in Cpu, running[c] = None,
         NEW q \in Proc, CanRun(q)
  PROVE  q \in queue[qlevel[q]] /\ qlevel[q] \in LevelsWithWork
  <1>1. tmp = {}
    BY DEF Placement, ParkedOnlyWhileRunning
  <1> QED
    BY <1>1 DEF CanRun, Placement, WaitingIsSomewhere, Waiting, LevelsWithWork, TypeOK

LEMMA DispatchedLevel ==
  ASSUME TypeOK, Placement, NEW c \in Cpu, NEW p \in Proc, [Next]_vars, Dispatched(c, p)
  PROVE  /\ IsClevel(qlevel[p]) /\ p \in queue[qlevel[p]] /\ running[c] = None
         /\ p = cproc[qlevel[p]] \/
            \E S \in SUBSET {q \in queue[qlevel[p]] : ~CanRun(q)} : PoppedBefore(p, qlevel[p], S)
  <1>1. PICK l \in Level : (Resume(c, l) /\ p = cproc[l]) \/
            (/\ ~Resumable(l) /\ IsClevel(l) /\ CanRun(p) /\ p \in queue[l]
             /\ \E S \in SUBSET {q \in queue[l] : ~CanRun(q)} : PoppedBefore(p, l, S))
    BY Dispatches
  <1>2. IsClevel(l) /\ p \in queue[l]
    BY <1>1 DEF Resume
  <1>3. qlevel[p] = l
    BY <1>2 DEF Placement, QueuedInPlace
  <1> QED
    BY <1>1, <1>2, <1>3 DEF Dispatched

(* The queues are served from the lowest number up: with one processor, who   *)
(* is switched to is of the lowest level that has somebody who could run.     *)
THEOREM LevelsInOrder ==
  ASSUME Cpu = {BootCpu} PROVE Spec => LowestLevelFirst
  <1>1. TypeOK /\ Placement /\ [Next]_vars =>
          [\A c \in Cpu, p, q \in Proc :
              Dispatched(c, p) /\ CanRun(q) => qlevel[p] <= qlevel[q]]_vars
    <2> SUFFICES ASSUME TypeOK, Placement, [Next]_vars, NEW c \in Cpu, NEW p \in Proc,
                        NEW q \in Proc, Dispatched(c, p), CanRun(q)
                 PROVE  qlevel[p] <= qlevel[q]
      OBVIOUS
    <2>1. IsClevel(qlevel[p]) /\ running[c] = None
      BY DispatchedLevel
    <2>2. qlevel[q] \in LevelsWithWork
      BY <2>1, RunnableIsQueued
    <2> QED
      BY <2>1, <2>2 DEF IsClevel
  <1> QED
    BY <1>1, PlacementInvariant, PTL DEF Spec, LowestLevelFirst

(* Within a level the larger priority goes first, unless the process the      *)
(* level ran last goes on.                                                    *)
THEOREM PrioritiesInOrder ==
  ASSUME Cpu = {BootCpu} PROVE Spec => LargestPriorityFirstUnlessResumed
  <1>1. TypeOK /\ Placement /\ [Next]_vars =>
          [\A c \in Cpu, p, q \in Proc :
              Dispatched(c, p) /\ CanRun(q) /\ qlevel[q] = qlevel[p] =>
                 priority[q] <= priority[p] \/ p = cproc[qlevel[p]]]_vars
    <2> SUFFICES ASSUME TypeOK, Placement, [Next]_vars, NEW c \in Cpu, NEW p \in Proc,
                        NEW q \in Proc, Dispatched(c, p), CanRun(q), qlevel[q] = qlevel[p],
                        p # cproc[qlevel[p]]
                 PROVE  priority[q] <= priority[p]
      OBVIOUS
    <2>1. running[c] = None
      BY DispatchedLevel
    <2>2. PICK S \in SUBSET {r \in queue[qlevel[p]] : ~CanRun(r)} : PoppedBefore(p, qlevel[p], S)
      BY DispatchedLevel
    <2>3. q \in queue[qlevel[p]]
      BY <2>1, RunnableIsQueued
    <2>4. ~(priority[q] > priority[p])
      BY <2>2, <2>3 DEF PoppedBefore
    <2>5. priority[q] \in Int /\ priority[p] \in Int
      BY Constants DEF TypeOK
    <2> QED
      BY <2>4, <2>5
  <1> QED
    BY <1>1, PlacementInvariant, PTL DEF Spec, LargestPriorityFirstUnlessResumed

(* When the period of the boost has passed, every process that waits or runs  *)
(* is raised to level 0.                                                      *)
THEOREM BoostRaises ==
  ASSUME Cpu = {BootCpu} PROVE Spec => BoostRaisesAll
  <1>1. TypeOK /\ Placement /\ [Next]_vars =>
          [ticks' # ticks /\ ticks' = 0 =>
             \A p \in Proc : Waiting(p) \/ state[p] = "RUNNING" => qlevel'[p] = 0]_vars
    <2> SUFFICES ASSUME TypeOK, Placement, [Next]_vars, ticks' # ticks, ticks' = 0,
                        NEW p \in Proc, Waiting(p) \/ state[p] = "RUNNING"
                 PROVE  qlevel'[p] = 0
      OBVIOUS
    <2>1. Tick
      <3>1. \A c \in Cpu : ~Preempt(c) /\ ~Schedule(c)
        BY DEF Preempt, Schedule, Resume, Choose, Switch, IdleBoost, timeVars
      <3>2. \A c \in Cpu : ~Call(c)
        BY DEF Call, sys_yield, yield, sys_sleep, IoSleep, sleep, kill, setpriority, allocproc,
               ForkFails, ForkCommits, exit, WaitReaps, WaitSleeps, timeVars
      <3>3. ~IoWakeup /\ ~UNCHANGED vars
        BY DEF IoWakeup, vars, timeVars
      <3> QED
        BY <3>1, <3>2, <3>3 DEF Next
    <2>2. priority_boost(running[BootCpu])
      BY <2>1 DEF Tick
    <2>3. qlevel'[p] = IF p \in Below \union tmp \union {running[BootCpu]} THEN 0 ELSE qlevel[p]
      BY <2>2 DEF priority_boost
    <2>4. CASE state[p] = "RUNNING"
      <3>1. running[BootCpu] = p
        BY <2>4 DEF Placement, ProcessorsAgree
      <3> QED
        BY <2>3, <3>1
    <2>5. CASE Waiting(p)
      <3>1. p \in queue[qlevel[p]] \/ p \in tmp
        BY <2>5 DEF Placement, WaitingIsSomewhere
      <3>2. qlevel[p] \in Level
        BY DEF TypeOK
      <3> QED
        BY <2>3, <3>1, <3>2 DEF Below
    <2> QED
      BY <2>4, <2>5
  <1> QED
    BY <1>1, PlacementInvariant, PTL DEF Spec, BoostRaisesAll

-----------------------------------------------------------------------------
(* The account of ticks.                                                      *)

Same(p)  == qlevel'[p] = qlevel[p] /\ qtime'[p] = qtime[p]
Fresh(p) == qlevel'[p] = 0 /\ qtime'[p] = Quantum[0]

\* A step that charges nobody leaves a process its account or opens a new one.
LEMMA UnchargedSettles ==
  ASSUME TypeOK, AccountsSettled, Account({}),
         \A p \in Proc : Same(p) \/ Fresh(p),
         \A p \in Proc : state[p] = "UNUSED" => state'[p] = "UNUSED" \/ Fresh(p)
  PROVE  AccountsSettled'
  <1>0. Quantum[0] \in Nat \ {0} /\ K \in Nat
    BY Constants
  <1>1. spent' \in [Proc -> Nat]
    BY DEF Account, AccountsSettled
  <1>2. ASSUME NEW p \in Proc PROVE (Settled(p) \/ Unused(p))'
    <2>0. /\ qlevel[p] \in Level /\ qtime[p] \in Int /\ spent[p] \in Nat
          /\ Quantum[qlevel[p]] \in Nat
      BY Constants DEF TypeOK, AccountsSettled
    <2>1. spent'[p] = IF NewQuantum(p) THEN 0 ELSE spent[p]
      BY DEF Account
    <2>2. CASE Same(p) /\ (state[p] = "UNUSED" => state'[p] = "UNUSED")
      <3>1. spent'[p] = spent[p]
        BY <2>0, <2>1, <2>2 DEF Same, NewQuantum
      <3> QED
        BY <2>2, <3>1 DEF AccountsSettled, Settled, Unused, Same
    <2>3. CASE Fresh(p)
      <3>1. CASE NewQuantum(p)
        BY <1>0, <2>0, <2>1, <2>3, <3>1 DEF Settled, Fresh
      <3>2. CASE ~NewQuantum(p)
        <4>1. qlevel[p] = 0 /\ qtime[p] >= Quantum[0]
          BY <1>0, <2>0, <2>3, <3>2 DEF NewQuantum, Fresh
        <4>2. ~Unused(p)
          BY <1>0, <4>1 DEF Unused
        <4>3. spent[p] + qtime[p] = Quantum[0]
          BY <4>1, <4>2 DEF AccountsSettled, Settled
        <4>4. spent[p] = 0 /\ spent'[p] = 0
          BY <1>0, <2>0, <2>1, <3>2, <4>1, <4>3
        <4> QED
          BY <1>0, <2>3, <4>4 DEF Settled, Fresh
      <3> QED
        BY <3>1, <3>2
    <2> QED
      BY <2>2, <2>3
  <1> QED
    BY <1>1, <1>2 DEF AccountsSettled

\* A boost touches only who waits, is parked, or runs on the processor.
LEMMA BoostIsFresh ==
  ASSUME TypeOK, Placement, NEW me \in Proc \union {None}, priority_boost(me), NEW p \in Proc
  PROVE  Same(p) \/ Fresh(p)
  <1>1. /\ qtime'[p] = (IF p \in Queued \union tmp \union {me} THEN Quantum[0] ELSE qtime[p])
        /\ qlevel'[p] = (IF p \in Below \union tmp \union {me} THEN 0 ELSE qlevel[p])
    BY DEF priority_boost
  <1>2. CASE p \in Below \union tmp \union {me}
    BY <1>1, <1>2 DEF Fresh, Below, Queued
  <1>3. CASE p \in Queued /\ p \notin Below \union tmp \union {me}
    <2>1. qlevel[p] = 0
      BY <1>3 DEF Queued, Below, Placement, QueuedInPlace
    <2> QED
      BY <1>1, <1>3, <2>1 DEF Fresh
  <1>4. CASE p \notin Queued \union Below \union tmp \union {me}
    BY <1>1, <1>4 DEF Same
  <1> QED
    BY <1>2, <1>3, <1>4

LEMMA ForgetIsFresh ==
  ASSUME TypeOK, NEW me \in Proc, ForgetPlace(me), NEW p \in Proc
  PROVE  Same(p) \/ Fresh(p)
  BY DEF ForgetPlace, Same, Fresh, TypeOK

LEMMA CallSettles ==
  ASSUME TypeOK, Placement, AccountsSettled, NEW c \in Cpu, Call(c), Account({})
  PROVE  AccountsSettled'
  <1> DEFINE me == running[c]
  <1>0. me \in Proc
    BY DEF Call, TypeOK, sys_yield, yield, sys_sleep, IoSleep, kill, setpriority, allocproc,
           ForkFails, ForkCommits, exit, WaitReaps, WaitSleeps, AtCall, InProcess
  <1>1. state[me] = "RUNNING"
    BY <1>0, Constants DEF Placement, ProcessorsAgree
  <1>2. CASE sys_yield(c) \/ sys_sleep(c)
    <2>1. \A p \in Proc : Same(p) \/ Fresh(p)
      BY <1>0, <1>2, ForgetIsFresh DEF sys_yield, sys_sleep
    <2>2. \A p \in Proc : state[p] = "UNUSED" => state'[p] = "UNUSED"
      BY <1>0, <1>1, <1>2 DEF sys_yield, sys_sleep, sleep, TypeOK
    <2> QED
      BY <2>1, <2>2, UnchargedSettles
  <1>3. ASSUME NEW np \in Proc, allocproc(c, np) PROVE AccountsSettled'
    <2>1. Fresh(np) /\ \A p \in Proc : p # np => Same(p) /\ state'[p] = state[p]
      BY <1>3 DEF allocproc, Same, Fresh, TypeOK
    <2> QED
      BY <2>1, UnchargedSettles
  <1>4. CASE ~(sys_yield(c) \/ sys_sleep(c) \/ \E np \in Proc : allocproc(c, np))
    <2>1. \A p \in Proc : Same(p)
      BY <1>4 DEF Call, Same, yield, IoSleep, sleep, kill, setpriority, ForkFails, ForkCommits,
                  exit, WaitReaps, WaitSleeps
    <2>2. embryo[me] # None => state[embryo[me]] = "EMBRYO"
      BY <1>0 DEF Placement, EmbryoHasOneOwner
    <2>3. CASE yield(c) \/ IoSleep(c) \/ WaitSleeps(c)
      BY <1>0, <1>1, <2>1, <2>3, UnchargedSettles DEF yield, IoSleep, WaitSleeps, sleep, TypeOK
    <2>4. CASE \E p \in Proc, pr \in Priority : kill(c, p) \/ setpriority(c, p, pr)
      BY <2>1, <2>4, UnchargedSettles DEF kill, setpriority, Awaken
    <2>5. CASE ForkFails(c) \/ ForkCommits(c)
      BY <1>0, <2>1, <2>2, <2>5, UnchargedSettles DEF ForkFails, ForkCommits, TypeOK
    <2>6. CASE exit(c)
      BY <1>0, <1>1, <2>1, <2>6, UnchargedSettles DEF exit, Woken, Sleepers, TypeOK
    <2>7. CASE \E p \in Proc : WaitReaps(c, p)
      BY <2>1, <2>7, UnchargedSettles DEF WaitReaps, TypeOK
    <2> QED
      BY <1>4, <2>3, <2>4, <2>5, <2>6, <2>7, Constants DEF Call
  <1> QED
    BY <1>2, <1>3, <1>4

LEMMA TickSettles ==
  ASSUME TypeOK, Placement, AccountsSettled, Tick, Account({})
  PROVE  AccountsSettled'
  <1>1. \A p \in Proc : state[p] = "UNUSED" => state'[p] = "UNUSED"
    BY DEF Tick, Awaken, Sleepers
  <1>2. running[BootCpu] \in Proc \union {None}
    BY Constants DEF TypeOK
  <1>3. \A p \in Proc : Same(p) \/ Fresh(p)
    BY <1>2, BoostIsFresh DEF Tick, Same
  <1> QED
    BY <1>1, <1>3, UnchargedSettles

LEMMA ScheduleSettles ==
  ASSUME TypeOK, Placement, AccountsSettled, NEW c \in Cpu, Schedule(c), Account({})
  PROVE  AccountsSettled'
  <1>1. ASSUME NEW l \in Level, NEW p \in queue[l], NEW S, NEW T, Switch(c, p, l, S, T)
        PROVE  AccountsSettled'
    <2>1. Waiting(p)
      BY <1>1 DEF Placement, QueuedInPlace
    <2>2. \A q \in Proc : Same(q) /\ (state[q] = "UNUSED" => state'[q] = "UNUSED")
      BY <1>1, <2>1 DEF Switch, Same, Waiting, TypeOK
    <2> QED
      BY <2>2, UnchargedSettles
  <1>2. CASE IdleBoost(c)
    BY <1>2, BoostIsFresh, UnchargedSettles DEF IdleBoost
  <1> QED
    BY <1>1, <1>2 DEF Schedule, Resume, Choose

LEMMA PreemptSettles ==
  ASSUME TypeOK, Placement, AccountsSettled, NEW c \in Cpu, Preempt(c),
         Account(IF boost THEN {} ELSE {running[c]})
  PROVE  AccountsSettled'
  <1>0. PICK me \in Proc : me = running[c] /\ state[me] = "RUNNING" /\ Charge(me)
    BY DEF Preempt, TypeOK, Placement, ProcessorsAgree
  <1>1. \A p \in Proc : state'[p] = IF p = me THEN "RUNNABLE" ELSE state[p]
    BY <1>0 DEF Preempt, TypeOK
  <1>2. CASE boost
    <2>1. Account({}) /\ \A p \in Proc : Same(p)
      BY <1>0, <1>2 DEF Charge, Same
    <2> QED
      BY <1>0, <1>1, <2>1, UnchargedSettles
  <1>3. CASE ~boost
    <2>0. /\ qlevel[me] \in Level /\ qtime[me] \in Int /\ spent[me] \in Nat
          /\ Quantum[qlevel[me]] \in Nat /\ K \in Nat
      BY <1>0, Constants DEF TypeOK, AccountsSettled
    <2>1. spent' = [p \in Proc |-> IF NewQuantum(p) THEN 0
                                   ELSE IF p \in {me} THEN spent[p] + 1 ELSE spent[p]]
      BY <1>0, <1>3 DEF Account
    <2>2. \A p \in Proc : p # me => Same(p)
      BY <1>0, <1>3 DEF Charge, Same, TypeOK
    <2>3. \A p \in Proc : p # me => spent'[p] = spent[p]
      BY <2>1, <2>2 DEF NewQuantum, Same, TypeOK
    <2>4. \A p \in Proc : p # me => (Settled(p) \/ Unused(p))'
      BY <1>1, <2>2, <2>3 DEF AccountsSettled, Settled, Unused, Same
    <2>5. Settled(me)
      BY <1>0 DEF AccountsSettled, Unused
    <2>6. ASSUME qtime[me] <= 0 /\ qlevel[me] < K - 1 PROVE Settled(me)'
      <3>1. qlevel[me] + 1 \in Level
        BY <2>0, <2>6 DEF Level
      <3>2. Quantum[qlevel[me] + 1] \in Nat
        BY <3>1, Constants
      <3>3. qlevel'[me] = qlevel[me] + 1 /\ qtime'[me] = Quantum[qlevel[me] + 1]
        BY <1>0, <1>3, <2>6 DEF Charge, TypeOK
      <3>4. qlevel'[me] # qlevel[me]
        BY <2>0, <3>3 DEF Level
      <3>5. spent'[me] = 0
        BY <1>0, <2>1, <3>4 DEF NewQuantum
      <3>6. spent'[me] + qtime'[me] = Quantum[qlevel'[me]] /\ qtime'[me] >= 0
        BY <3>2, <3>3, <3>5
      <3> QED
        BY <3>6 DEF Settled
    <2>7. ASSUME ~(qtime[me] <= 0 /\ qlevel[me] < K - 1) PROVE Settled(me)'
      <3>1. qlevel'[me] = qlevel[me] /\ qtime'[me] = qtime[me] - 1
        BY <1>0, <1>3, <2>7 DEF Charge, TypeOK
      <3>2. spent'[me] = spent[me] + 1
        BY <1>0, <2>0, <2>1, <3>1 DEF NewQuantum
      <3>3. spent'[me] + qtime'[me] = Quantum[qlevel'[me]]
        BY <2>0, <2>5, <3>1, <3>2 DEF Settled
      <3>4. qlevel'[me] < K - 1 => qtime'[me] >= 0
        BY <2>0, <2>7, <3>1 DEF Level
      <3> QED
        BY <3>3, <3>4 DEF Settled
    <2>8. spent' \in [Proc -> Nat]
      BY <2>1 DEF AccountsSettled
    <2> QED
      BY <2>4, <2>6, <2>7, <2>8 DEF AccountsSettled
  <1> QED
    BY <1>2, <1>3

LEMMA SettledInit == QInit => AccountsSettled
  <1> SUFFICES ASSUME QInit PROVE AccountsSettled
    OBVIOUS
  <1>1. Quantum[0] \in Nat
    BY Constants
  <1>2. Settled(InitProc)
    BY <1>1, Constants DEF QInit, Init, Settled
  <1>3. \A p \in Proc : p # InitProc => Unused(p)
    BY DEF QInit, Init, Unused
  <1> QED
    BY <1>2, <1>3 DEF QInit, AccountsSettled

LEMMA SettledStep ==
  TypeOK /\ Placement /\ AccountsSettled /\ [QNext]_qvars => AccountsSettled' /\ [Next]_vars
  <1> SUFFICES ASSUME TypeOK, Placement, AccountsSettled, [QNext]_qvars
               PROVE  AccountsSettled' /\ [Next]_vars
    OBVIOUS
  <1>1. [Next]_vars
    BY DEF QNext, qvars, Next
  <1>2. CASE UNCHANGED qvars
    BY <1>1, <1>2 DEF qvars, vars, procVars, AccountsSettled, Settled, Unused
  <1>3. CASE IoWakeup /\ Account({})
    BY <1>1, <1>3, UnchargedSettles DEF IoWakeup, Awaken, Sleepers, Same
  <1>4. CASE Tick /\ Account({})
    BY <1>1, <1>4, TickSettles
  <1>5. ASSUME NEW c \in Cpu, Schedule(c) \/ Call(c), Account({}) PROVE AccountsSettled'
    BY <1>5, ScheduleSettles, CallSettles
  <1>6. ASSUME NEW c \in Cpu, Preempt(c), Account(IF boost THEN {} ELSE {running[c]})
        PROVE  AccountsSettled'
    BY <1>6, PreemptSettles
  <1> QED
    BY <1>1, <1>2, <1>3, <1>4, <1>5, <1>6 DEF QNext

LEMMA SettledInvariant == QSpec => [](TypeOK /\ Placement /\ AccountsSettled)
  <1>1. QInit => TypeOK /\ Placement /\ AccountsSettled
    BY TypeInit, PlacementInit, SettledInit DEF QInit
  <1>2. TypeOK /\ Placement /\ AccountsSettled /\ [QNext]_qvars
           => (TypeOK /\ Placement /\ AccountsSettled)'
    BY SettledStep, TypeStep, PlacementStep
  <1> QED
    BY <1>1, <1>2, PTL DEF QSpec

(* A process goes down one level at a time, and only after as many timer      *)
(* interrupts as its quantum has ticks were charged to it, whatever it did in *)
(* between, and on any number of processors: the next interrupt demotes it.   *)
THEOREM QuantumIsUsedUp == QSpec => DemotedAfterWholeQuantum
  <1>1. TypeOK /\ Placement /\ AccountsSettled /\ [QNext]_qvars =>
          [\A p \in Proc : Demoted(p) =>
              qlevel'[p] = qlevel[p] + 1 /\ spent[p] = Quantum[qlevel[p]]]_qvars
    <2> SUFFICES ASSUME TypeOK, Placement, AccountsSettled, QNext, NEW p \in Proc, Demoted(p)
                 PROVE  qlevel'[p] = qlevel[p] + 1 /\ spent[p] = Quantum[qlevel[p]]
      OBVIOUS
    <2>0. qlevel[p] \in Level /\ K \in Nat
      BY Constants DEF TypeOK
    <2>1. ~Same(p) /\ ~Fresh(p)
      BY <2>0 DEF Demoted, Same, Fresh, Level
    <2>2. ~Tick
      <3>1. running[BootCpu] \in Proc \union {None}
        BY Constants DEF TypeOK
      <3> QED
        BY <2>1, <3>1, BoostIsFresh DEF Tick, Same
    <2>3. ASSUME NEW c \in Cpu, Schedule(c) PROVE FALSE
      BY <2>1, <2>3, BoostIsFresh DEF Schedule, Resume, Choose, Switch, IdleBoost, Same
    <2>4. ASSUME NEW c \in Cpu, Call(c) PROVE FALSE
      <3>1. running[c] \in Proc
        BY <2>4 DEF Call, TypeOK, sys_yield, yield, sys_sleep, IoSleep, kill, setpriority, allocproc,
               ForkFails, ForkCommits, exit, WaitReaps, WaitSleeps, AtCall, InProcess
      <3>2. ~sys_yield(c) /\ ~sys_sleep(c)
        BY <2>1, <3>1, ForgetIsFresh DEF sys_yield, sys_sleep
      <3>3. \A np \in Proc : ~allocproc(c, np)
        BY <2>1 DEF allocproc, Same, Fresh, TypeOK
      <3>4. UNCHANGED <<qlevel, qtime>>
        BY <2>4, <3>2, <3>3 DEF Call, yield, IoSleep, sleep, kill, setpriority, ForkFails,
                                ForkCommits, exit, WaitReaps, WaitSleeps
      <3> QED
        BY <2>1, <3>4 DEF Same
    <2>5. PICK c \in Cpu : Preempt(c)
      BY <2>1, <2>2, <2>3, <2>4 DEF QNext, IoWakeup, Same
    <2>6. running[c] \in Proc /\ Charge(running[c]) /\ state[running[c]] = "RUNNING"
      BY <2>5 DEF Preempt, TypeOK, Placement, ProcessorsAgree
    <2>7. p = running[c] /\ qtime[p] <= 0 /\ qlevel[p] < K - 1 /\ qlevel'[p] = qlevel[p] + 1
      BY <2>0, <2>6 DEF Charge, Demoted, TypeOK, Level
    <2>8. Settled(p) /\ qtime[p] \in Int /\ spent[p] \in Nat
      BY <2>6, <2>7 DEF AccountsSettled, Unused, TypeOK
    <2>9. Quantum[qlevel[p]] \in Nat
      BY <2>0, Constants
    <2> QED
      BY <2>7, <2>8, <2>9 DEF Settled
  <1> QED
    BY <1>1, SettledInvariant, PTL DEF QSpec, DemotedAfterWholeQuantum
=============================================================================
