-------------------------------- MODULE Mlfq --------------------------------
(* The MLFQ scheduler of ML&MLFQ_Scheduler/xv6-public: the process table and  *)
(* the queues of proc.c, the timer interrupt of trap.c and the system calls   *)
(* of sysproc.c that touch them.                                              *)
(*                                                                            *)
(* Each action is one critical section under ptable.lock.  The lock is held   *)
(* from scheduler() across swtch until the chosen process releases it, and    *)
(* from the sched() of a process until its scheduler has put it back, so      *)
(* "choose and switch to" and "stop and put back" are one step each.  The     *)
(* code resets cproc in sys_yield and sys_sleep and boosts from the timer     *)
(* without that lock; on one processor interrupts are off inside every        *)
(* critical section, so they cannot fall into one and are steps too.  That    *)
(* they can fall into a critical section of another processor is not modelled *)
(* (README.md, "What is not modelled").                                       *)
(*                                                                            *)
(* A level's heap is a set here: HeapQueue shows that deq returns an entry of *)
(* the largest priority, and ties are left open.  The killed flag is left     *)
(* out: a killed process leaves wait and sleep and exits, which any process   *)
(* may do here.                                                               *)
EXTENDS Integers, FiniteSets

CONSTANTS Proc,         \* the slots of ptable
          InitProc,     \* the slot userinit takes
          Cpu, BootCpu, \* processors; the one with cpuid() 0 counts ticks
          K,            \* MLFQ_K
          Quantum,      \* time quantum by level: 2*i+4 in the code
          BoostPeriod,  \* ticks between two boosts: 100 in the code
          Priority,     \* 0..10 in the code
          None

Level == 0..K - 1

ASSUME ConstantsAssumption ==
    /\ InitProc \in Proc
    /\ BootCpu \in Cpu
    /\ K \in Nat \ {0}
    /\ Quantum \in [Level -> Nat \ {0}]
    /\ BoostPeriod \in Nat \ {0}
    /\ Priority \subseteq Int
    /\ 0 \in Priority
    /\ None \notin Proc

VARIABLES
    state,      \* procstate of every slot
    parent,     \* p->parent, None for a null pointer
    chan,       \* what a process sleeps on, None when it does not sleep
    priority, qlevel, qtime,
    embryo,     \* the slot a process has allocated in a fork not yet finished
    yielding,   \* processes between the resets of sys_yield and its yield()
    queue,      \* who is in mlfq[l]
    cproc,      \* mlfq[l].cproc, None for &dummy
    tmp,        \* processes parked in tmp
    running,    \* c->proc
    ticks,      \* modulo BoostPeriod: only ticks % 100 is read here
    boost,      \* trap.c's flag
    inTimer     \* the boot processor is past wakeup(&ticks) in trap()

procVars  == <<state, parent, chan, priority, qlevel, qtime, embryo, yielding>>
queueVars == <<queue, cproc, tmp>>
timeVars  == <<ticks, boost, inTimer>>
vars == <<procVars, queueVars, running, timeVars>>

Procstate == {"UNUSED", "EMBRYO", "SLEEPING", "RUNNABLE", "RUNNING", "ZOMBIE"}
Channel == {"ticks", "child", "io"}

\* userinit has run, no scheduler() has started its loop.
Init ==
    /\ state = [p \in Proc |-> IF p = InitProc THEN "RUNNABLE" ELSE "UNUSED"]
    /\ parent = [p \in Proc |-> None]
    /\ chan = [p \in Proc |-> None]
    /\ priority = [p \in Proc |-> 0]
    /\ qlevel = [p \in Proc |-> 0]
    /\ qtime = [p \in Proc |-> IF p = InitProc THEN Quantum[0] ELSE 0]
    /\ embryo = [p \in Proc |-> None]
    /\ yielding = {}
    /\ queue = [l \in Level |-> IF l = 0 THEN {InitProc} ELSE {}]
    /\ cproc = [l \in Level |-> None]
    /\ tmp = {}
    /\ running = [c \in Cpu |-> None]
    /\ ticks = 0
    /\ boost = FALSE
    /\ inTimer = FALSE

-----------------------------------------------------------------------------
(* priority_boost *)

Queued == {p \in Proc : \E l \in Level : p \in queue[l]}
Below  == {p \in Proc : \E l \in Level \ {0} : p \in queue[l]}

priority_boost_OthersOnly(me) ==                      \* seeded fault
    /\ qtime' = [p \in Proc |-> IF p \in Queued \union tmp THEN Quantum[0] ELSE qtime[p]]
    /\ qlevel' = [p \in Proc |-> IF p \in Below \union tmp THEN 0 ELSE qlevel[p]]
    /\ queue' = [l \in Level |->
                    IF l = 0 THEN queue[0] \union {p \in Below \union tmp : state[p] # "UNUSED"}
                    ELSE {}]
    /\ cproc' = [l \in Level |-> None]
    /\ tmp' = {}

\* me is myproc(): the process on the processor that boosts, or None.  Who is
\* already at level 0 keeps its place; the others are enqueued there.
priority_boost(me) ==
    /\ qtime' = [p \in Proc |-> IF p \in Queued \union tmp \union {me}
                                THEN Quantum[0] ELSE qtime[p]]
    /\ qlevel' = [p \in Proc |-> IF p \in Below \union tmp \union {me}
                                 THEN 0 ELSE qlevel[p]]
    /\ queue' = [l \in Level |->
                    IF l = 0 THEN queue[0] \union {p \in Below \union tmp : state[p] # "UNUSED"}
                    ELSE {}]
    /\ cproc' = [l \in Level |-> None]
    /\ tmp' = {}

-----------------------------------------------------------------------------
(* scheduler(): choosing a process *)

CanRun(p) == state[p] = "RUNNABLE" /\ qtime[p] >= 0

LevelsWithWork == {l \in Level : \E p \in queue[l] : CanRun(p)}

IsClevel_Last(l) == l \in LevelsWithWork /\ \A k \in LevelsWithWork : k <= l   \* seeded fault

\* clevel: the first level with somebody who can run.
IsClevel(l) == l \in LevelsWithWork /\ \A k \in LevelsWithWork : l <= k

\* The process this level ran last is still runnable here with quantum left.
Resumable(l) ==
    /\ cproc[l] # None
    /\ qtime[cproc[l]] > 0
    /\ state[cproc[l]] = "RUNNABLE"
    /\ qlevel[cproc[l]] = l

PoppedBefore_Any(p, l, S) == S \subseteq queue[l] \ {p}         \* seeded fault

\* Who leaves the heap before p does: all that are larger, of the equals any.
PoppedBefore(p, l, S) ==
    /\ S \subseteq {q \in queue[l] \ {p} : priority[q] >= priority[p]}
    /\ {q \in queue[l] : priority[q] > priority[p]} \subseteq S

Switch_KeepTmp(c, p, l, popped, parked) ==            \* seeded fault
    /\ queue' = [queue EXCEPT ![l] = @ \ (popped \union {p})]
    /\ tmp' = parked
    /\ cproc' = [cproc EXCEPT ![l] = p]
    /\ running' = [running EXCEPT ![c] = p]
    /\ state' = [state EXCEPT ![p] = "RUNNING"]
    /\ UNCHANGED <<parent, chan, priority, qlevel, qtime, embryo, yielding, timeVars>>
Switch_FirstCproc(c, p, l, popped, parked) ==         \* seeded fault
    /\ queue' = [queue EXCEPT ![l] = @ \ (popped \union {p})]
    /\ tmp' = tmp \union parked
    /\ cproc' = [cproc EXCEPT ![l] = IF @ = None THEN p ELSE @]
    /\ running' = [running EXCEPT ![c] = p]
    /\ state' = [state EXCEPT ![p] = "RUNNING"]
    /\ UNCHANGED <<parent, chan, priority, qlevel, qtime, embryo, yielding, timeVars>>

Switch(c, p, l, popped, parked) ==
    /\ queue' = [queue EXCEPT ![l] = @ \ (popped \union {p})]
    /\ tmp' = tmp \union parked
    /\ cproc' = [cproc EXCEPT ![l] = p]
    /\ running' = [running EXCEPT ![c] = p]
    /\ state' = [state EXCEPT ![p] = "RUNNING"]
    /\ UNCHANGED <<parent, chan, priority, qlevel, qtime, embryo, yielding, timeVars>>

\* Deq until the previous process comes out; the others are parked in tmp.
Resume(c, l) ==
    /\ running[c] = None
    /\ IsClevel(l)
    /\ Resumable(l)
    /\ cproc[l] \in queue[l]
    /\ \E S \in SUBSET queue[l] :
          /\ PoppedBefore(cproc[l], l, S)
          /\ Switch(c, cproc[l], l, S, S)

\* Deq until somebody can run; who cannot is parked in tmp, the dead dropped.
Choose(c, l) ==
    /\ running[c] = None
    /\ IsClevel(l)
    /\ ~Resumable(l)
    /\ \E p \in queue[l], S \in SUBSET {q \in queue[l] : ~CanRun(q)} :
          /\ CanRun(p)
          /\ PoppedBefore(p, l, S)
          /\ Switch(c, p, l, S, {q \in S : state[q] \notin {"UNUSED", "ZOMBIE"}})

\* clevel is -1: nobody in a queue can run.
IdleBoost(c) ==
    /\ running[c] = None
    /\ LevelsWithWork = {}
    /\ priority_boost(None)
    /\ UNCHANGED <<state, parent, chan, priority, embryo, yielding, running, timeVars>>

-----------------------------------------------------------------------------
(* Stopping: sched() and the rest of the loop of scheduler() *)

PutBack_OldLevel(c, st, level) ==                     \* seeded fault
    LET back == tmp \union {p \in {running[c]} : st[p] \notin {"UNUSED", "ZOMBIE"}}
    IN  /\ queue' = [l \in Level |->
                        queue[l] \union {p \in back : qlevel[p] = l /\ st[p] # "UNUSED"}]
        /\ tmp' = {}
        /\ running' = [running EXCEPT ![c] = None]

\* The process on c has changed to st and stops: it goes to the queue of its
\* level unless it is dead, and so does everybody in tmp.
PutBack(c, st, level) ==
    LET back == tmp \union {p \in {running[c]} : st[p] \notin {"UNUSED", "ZOMBIE"}}
    IN  /\ queue' = [l \in Level |->
                        queue[l] \union {p \in back : level[p] = l /\ st[p] # "UNUSED"}]
        /\ tmp' = {}
        /\ running' = [running EXCEPT ![c] = None]

\* A process can take a step of its own: it is on c and c is not in trap().
InProcess(c) == running[c] # None /\ ~(c = BootCpu /\ inTimer)

\* ... and is not in the middle of fork or sys_yield.
AtCall(c) == InProcess(c) /\ running[c] \notin yielding /\ embryo[running[c]] = None

-----------------------------------------------------------------------------
(* The timer interrupt *)

\* A sleeper leaves its channel as it wakes; in the code it clears p->chan when
\* it next runs, and nobody looks at p->chan in between.
Awaken(W) ==
    /\ state' = [p \in Proc |-> IF p \in W THEN "RUNNABLE" ELSE state[p]]
    /\ chan' = [p \in Proc |-> IF p \in W THEN None ELSE chan[p]]

Sleepers(ch) == {p \in Proc : state[p] = "SLEEPING" /\ chan[p] = ch}

\* The boot processor counts the tick, boosts every BoostPeriod-th time, and
\* wakes who sleeps on ticks; a process that was interrupted goes on in trap().
Tick ==
    /\ ~inTimer
    /\ ticks' = (ticks + 1) % BoostPeriod
    /\ IF ticks' = 0
       THEN /\ priority_boost(running[BootCpu])
            /\ boost' = TRUE
       ELSE UNCHANGED <<qtime, qlevel, queueVars, boost>>
    /\ Awaken(Sleepers("ticks"))
    /\ inTimer' = (running[BootCpu] # None)
    /\ UNCHANGED <<parent, priority, embryo, yielding, running>>

\* The seeded faults of Charge: when a level is used up, and what follows.
Charge_WithBound(p, spentUp, demotes) ==
    IF boost THEN boost' = FALSE /\ UNCHANGED <<qtime, qlevel>>
    ELSE /\ UNCHANGED boost
         /\ IF spentUp THEN demotes
            ELSE qtime' = [qtime EXCEPT ![p] = @ - 1] /\ UNCHANGED qlevel
Charge_OneEarly(p) ==                                 \* seeded fault
    Charge_WithBound(p, qtime[p] <= 1 /\ qlevel[p] < K - 1,
        /\ qlevel' = [qlevel EXCEPT ![p] = @ + 1]
        /\ qtime' = [qtime EXCEPT ![p] = Quantum[qlevel[p] + 1]])
Charge_SameLevel(p) ==                                \* seeded fault
    Charge_WithBound(p, qtime[p] <= 0 /\ qlevel[p] < K - 1,
        /\ UNCHANGED qlevel
        /\ qtime' = [qtime EXCEPT ![p] = Quantum[qlevel[p]]])

\* The timer on any processor takes the process off it: for a boost, for a
\* tick of its quantum, or with the quantum used up to the next level.
Charge(p) ==
    IF boost THEN /\ boost' = FALSE
                  /\ UNCHANGED <<qtime, qlevel>>
    ELSE /\ IF qtime[p] <= 0 /\ qlevel[p] < K - 1
            THEN /\ qlevel' = [qlevel EXCEPT ![p] = @ + 1]
                 /\ qtime' = [qtime EXCEPT ![p] = Quantum[qlevel[p] + 1]]
            ELSE /\ qtime' = [qtime EXCEPT ![p] = @ - 1]
                 /\ UNCHANGED qlevel
         /\ UNCHANGED boost

Preempt(c) ==
    /\ running[c] # None
    /\ c = BootCpu => inTimer
    /\ Charge(running[c])
    /\ state' = [state EXCEPT ![running[c]] = "RUNNABLE"]
    /\ PutBack(c, state', qlevel')
    /\ inTimer' = IF c = BootCpu THEN FALSE ELSE inTimer
    /\ UNCHANGED <<parent, chan, priority, embryo, yielding, cproc, ticks>>

-----------------------------------------------------------------------------
(* System calls *)

\* What sys_yield and sys_sleep do to the caller's place in the queues.
ForgetPlace(p) ==
    /\ cproc' = [cproc EXCEPT ![qlevel[p]] = None]
    /\ qtime' = [qtime EXCEPT ![p] = Quantum[0]]
    /\ qlevel' = [qlevel EXCEPT ![p] = 0]

sys_yield(c) ==
    /\ AtCall(c)
    /\ ForgetPlace(running[c])
    /\ yielding' = yielding \union {running[c]}
    /\ UNCHANGED <<state, parent, chan, priority, embryo, queue, tmp, running, timeVars>>

\* The yield() at the end of sys_yield; the timer may have come in between.
yield(c) ==
    /\ InProcess(c)
    /\ running[c] \in yielding
    /\ yielding' = yielding \ {running[c]}
    /\ state' = [state EXCEPT ![running[c]] = "RUNNABLE"]
    /\ PutBack(c, state', qlevel)
    /\ UNCHANGED <<parent, chan, priority, qlevel, qtime, embryo, cproc, timeVars>>

sleep(c, ch) ==
    /\ state' = [state EXCEPT ![running[c]] = "SLEEPING"]
    /\ chan' = [chan EXCEPT ![running[c]] = ch]
    /\ PutBack(c, state', qlevel')
    /\ UNCHANGED <<parent, priority, embryo, yielding, timeVars>>

\* One round of the loop of sys_sleep; the caller may take another when woken.
sys_sleep(c) ==
    /\ AtCall(c)
    /\ ForgetPlace(running[c])
    /\ sleep(c, "ticks")

\* Any other sleep: on a pipe, the console, a buffer, the log, an inode.
IoSleep(c) ==
    /\ AtCall(c)
    /\ UNCHANGED <<qtime, qlevel, cproc>>
    /\ sleep(c, "io")

IoWakeup ==
    /\ Awaken(Sleepers("io"))
    /\ UNCHANGED <<parent, priority, qlevel, qtime, embryo, yielding,
                   queueVars, running, timeVars>>

\* kill wakes whoever it names out of any sleep.
kill(c, p) ==
    /\ AtCall(c)
    /\ Awaken({p} \intersect {q \in Proc : state[q] = "SLEEPING"})
    /\ UNCHANGED <<parent, priority, qlevel, qtime, embryo, yielding,
                   queueVars, running, timeVars>>

\* A slot without a parent is let through: the code reads p->parent->pid
\* through a null pointer there, which finds whatever lies at that address.
\* The rebuild of the heap is the identity on a set.
setpriority(c, p, pr) ==
    /\ AtCall(c)
    /\ parent[p] \in {running[c], None}
    /\ priority' = [priority EXCEPT ![p] = pr]
    /\ UNCHANGED <<state, parent, chan, qlevel, qtime, embryo, yielding,
                   queueVars, running, timeVars>>

-----------------------------------------------------------------------------
(* fork, exit and wait *)

\* fork takes a slot first; parent, memory and files follow without the lock.
allocproc(c, np) ==
    /\ AtCall(c)
    /\ state[np] = "UNUSED"
    /\ state' = [state EXCEPT ![np] = "EMBRYO"]
    /\ priority' = [priority EXCEPT ![np] = 0]
    /\ qlevel' = [qlevel EXCEPT ![np] = 0]
    /\ qtime' = [qtime EXCEPT ![np] = Quantum[0]]
    /\ embryo' = [embryo EXCEPT ![running[c]] = np]
    /\ UNCHANGED <<parent, chan, yielding, queueVars, running, timeVars>>

ForkFails_KeepsSlot(c) ==                             \* seeded fault
    /\ InProcess(c)
    /\ embryo[running[c]] # None
    /\ embryo' = [embryo EXCEPT ![running[c]] = None]
    /\ UNCHANGED <<state, parent, chan, priority, qlevel, qtime, yielding, queueVars,
                   running, timeVars>>

\* No memory for the stack (in allocproc) or for the pages (copyuvm).
ForkFails(c) ==
    /\ InProcess(c)
    /\ embryo[running[c]] # None
    /\ state' = [state EXCEPT ![embryo[running[c]]] = "UNUSED"]
    /\ embryo' = [embryo EXCEPT ![running[c]] = None]
    /\ UNCHANGED <<parent, chan, priority, qlevel, qtime, yielding, queueVars,
                   running, timeVars>>

ForkCommits(c) ==
    LET np == embryo[running[c]]
    IN  /\ InProcess(c)
        /\ np # None
        /\ parent' = [parent EXCEPT ![np] = running[c]]
        /\ state' = [state EXCEPT ![np] = "RUNNABLE"]
        /\ queue' = [queue EXCEPT ![qlevel[np]] = @ \union {np}]
        /\ embryo' = [embryo EXCEPT ![running[c]] = None]
        /\ UNCHANGED <<chan, priority, qlevel, qtime, yielding, cproc, tmp,
                       running, timeVars>>

Woken_HeirOnly(me) ==                                 \* seeded fault
    {q \in Sleepers("child") : q = InitProc /\ \E p \in Proc : parent[p] = me /\ state[p] = "ZOMBIE"}

\* Who waits for the process is woken, its children go to init, and init is
\* woken when one of them is dead already.  trap() may exit a killed process.
Woken(me) ==
    {q \in Sleepers("child") :
        q = parent[me] \/ (q = InitProc /\ \E p \in Proc : parent[p] = me /\ state[p] = "ZOMBIE")}

Heir(p, me) == IF parent[p] = me THEN InitProc ELSE parent[p]

exit(c) ==
    LET me == running[c]
    IN  /\ me \notin {None, InitProc}
        /\ me \notin yielding /\ embryo[me] = None
        /\ parent' = [p \in Proc |-> Heir(p, me)]
        /\ state' = [p \in Proc |-> IF p = me THEN "ZOMBIE"
                                    ELSE IF p \in Woken(me) THEN "RUNNABLE" ELSE state[p]]
        /\ chan' = [p \in Proc |-> IF p \in Woken(me) THEN None ELSE chan[p]]
        /\ PutBack(c, state', qlevel)
        /\ inTimer' = IF c = BootCpu THEN FALSE ELSE inTimer
        /\ UNCHANGED <<priority, qlevel, qtime, embryo, yielding, cproc, ticks, boost>>

Child(me) == {p \in Proc : parent[p] = me}
Dead(me)  == {p \in Child(me) : state[p] = "ZOMBIE"}

\* The code reaps the dead child that comes first in the table; here any.
WaitReaps(c, p) ==
    /\ AtCall(c)
    /\ p \in Dead(running[c])
    /\ state' = [state EXCEPT ![p] = "UNUSED"]
    /\ parent' = [parent EXCEPT ![p] = None]
    /\ UNCHANGED <<chan, priority, qlevel, qtime, embryo, yielding, queueVars,
                   running, timeVars>>

WaitSleeps(c) ==
    /\ AtCall(c)
    /\ Child(running[c]) # {} /\ Dead(running[c]) = {}
    /\ UNCHANGED <<qtime, qlevel, cproc>>
    /\ sleep(c, "child")

-----------------------------------------------------------------------------
Schedule(c) == (\E l \in Level : Resume(c, l) \/ Choose(c, l)) \/ IdleBoost(c)

Call(c) ==
    \/ sys_yield(c) \/ yield(c) \/ sys_sleep(c) \/ IoSleep(c)
    \/ \E p \in Proc : kill(c, p)
    \/ \E p \in Proc, pr \in Priority : setpriority(c, p, pr)
    \/ \E p \in Proc : allocproc(c, p)
    \/ ForkFails(c) \/ ForkCommits(c)
    \/ exit(c)
    \/ \E p \in Proc : WaitReaps(c, p)
    \/ WaitSleeps(c)

Next == Tick \/ IoWakeup \/ \E c \in Cpu : Schedule(c) \/ Preempt(c) \/ Call(c)

Spec == Init /\ [][Next]_vars

-----------------------------------------------------------------------------
TypeOK ==
    /\ state \in [Proc -> Procstate]
    /\ parent \in [Proc -> Proc \union {None}]
    /\ chan \in [Proc -> Channel \union {None}]
    /\ priority \in [Proc -> Priority]
    /\ qlevel \in [Proc -> Level]
    /\ qtime \in [Proc -> Int]
    /\ embryo \in [Proc -> Proc \union {None}]
    /\ yielding \subseteq Proc
    /\ queue \in [Level -> SUBSET Proc]
    /\ cproc \in [Level -> Proc \union {None}]
    /\ tmp \subseteq Proc
    /\ running \in [Cpu -> Proc \union {None}]
    /\ ticks \in 0..BoostPeriod - 1
    /\ boost \in BOOLEAN
    /\ inTimer \in BOOLEAN

Waiting(p) == state[p] \in {"RUNNABLE", "SLEEPING"}

(* A process that waits, for the processor or for an event, is in exactly one *)
(* queue or parked in tmp, a running one is on exactly one processor and in   *)
(* no queue, and a slot that is free, embryonic or dead is in none: nobody is *)
(* lost by the scheduler or scheduled twice, although every stop, wake-up,    *)
(* fork and boost moves processes by a code path of its own.                  *)
NoLostProcess ==
    /\ \A p \in Proc : Waiting(p) => (p \in Queued) # (p \in tmp)
    /\ \A p \in Queued \union tmp : Waiting(p)
    /\ \A p \in Proc : (state[p] = "RUNNING") <=> \E c \in Cpu : running[c] = p
    /\ \A c, d \in Cpu : running[c] = running[d] /\ running[c] # None => c = d

(* A process in a queue is in the queue of its own qlevel, which is where     *)
(* increase_priority looks for it when setpriority rewrites its key.          *)
LevelAgrees == \A l \in Level : \A p \in queue[l] : qlevel[p] = l

(* The search "find previous process" in scheduler() stops: whenever its test *)
(* on cproc holds, the previous process is in the queue that is searched.     *)
(* Nothing in the loop would end it otherwise.                                *)
ResumeFinds == \A l \in Level : Resumable(l) => cproc[l] \in queue[l]

(* Processes are parked in tmp only while some process runs, whose scheduler  *)
(* will bring them back when it stops.                                        *)
ParkedOnlyWhileRunning == tmp # {} => \E c \in Cpu : running[c] # None

(* No wake-up of wait() is lost: who sleeps there has no dead child, although *)
(* children die, and are handed to init, on any processor.                    *)
NoDeadChildUnnoticed ==
    \A p \in Proc : state[p] = "SLEEPING" /\ chan[p] = "child" => Dead(p) = {}

(* An embryonic slot belongs to exactly one unfinished fork, which will       *)
(* commit it or give it back.                                                 *)
EmbryoHasOneOwner ==
    /\ \A p \in Proc : embryo[p] # None => state[embryo[p]] = "EMBRYO"
    /\ \A p, q \in Proc : embryo[p] # None /\ embryo[p] = embryo[q] => p = q
    /\ \A np \in Proc : state[np] = "EMBRYO" => \E p \in Proc : embryo[p] = np

(* The inductive form of NoLostProcess, LevelAgrees and ResumeFinds: where    *)
(* every process is, and that nobody parked is the cproc of its level.        *)
QueuedInPlace == \A l \in Level : \A p \in queue[l] : Waiting(p) /\ qlevel[p] = l
ParkedInPlace ==
    \A p \in tmp : Waiting(p) /\ p \notin queue[qlevel[p]] /\ cproc[qlevel[p]] # p
WaitingIsSomewhere == \A p \in Proc : Waiting(p) => p \in queue[qlevel[p]] \/ p \in tmp
ProcessorsAgree ==
    /\ \A c \in Cpu : running[c] # None => state[running[c]] = "RUNNING"
    /\ \A p \in Proc : state[p] = "RUNNING" => \E c \in Cpu : running[c] = p
    /\ \A c, d \in Cpu : running[c] # None /\ running[c] = running[d] => c = d

Placement ==
    /\ QueuedInPlace /\ ParkedInPlace /\ WaitingIsSomewhere
    /\ ProcessorsAgree /\ EmbryoHasOneOwner /\ ParkedOnlyWhileRunning

(* The inductive form of NoDeadChildUnnoticed: init never exits, so it is     *)
(* there to inherit, and no process is its own parent, so who dies is a child *)
(* of somebody else who is woken for it.                                      *)
Family ==
    /\ state[InitProc] \in {"SLEEPING", "RUNNABLE", "RUNNING"}
    /\ parent[InitProc] = None
    /\ \A p \in Proc : parent[p] # p
    /\ NoDeadChildUnnoticed

-----------------------------------------------------------------------------
Dispatched(c, p) == p # None /\ running[c] = None /\ running'[c] = p

(* The queues are served from the lowest number up (README: "the lower the    *)
(* number of the queue, the higher its priority"): whoever is switched to, no *)
(* process of a lower level could have run.                                   *)
LowestLevelFirst ==
    [][\A c \in Cpu, p, q \in Proc :
          Dispatched(c, p) /\ CanRun(q) => qlevel[p] <= qlevel[q]]_vars

(* Within a level the larger priority goes first, except that the process the *)
(* level ran last goes on until its quantum is used up.                       *)
LargestPriorityFirstUnlessResumed ==
    [][\A c \in Cpu, p, q \in Proc :
          Dispatched(c, p) /\ CanRun(q) /\ qlevel[q] = qlevel[p] =>
             priority[q] <= priority[p] \/ p = cproc[qlevel[p]]]_vars

(* README: when 100 ticks have passed "all processes" are raised to L0.       *)
BoostRaisesAll ==
    [][ticks' # ticks /\ ticks' = 0 =>
          \A p \in Proc : Waiting(p) \/ state[p] = "RUNNING" =>
             qlevel'[p] = 0]_vars
=============================================================================
