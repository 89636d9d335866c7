----------------------------- MODULE Multilevel -----------------------------
(* The MULTILEVEL scheduler of ML&MLFQ_Scheduler/xv6-public/proc.c: processes *)
(* with an even pid take turns in the circular queue rr, those with an odd    *)
(* pid wait in the heap fcfs and run only when nobody in rr can.              *)
(*                                                                            *)
(* As in Mlfq an action is one critical section under ptable.lock.  A process *)
(* is its pid here: pids are never reused, and what the queues hold is never  *)
(* dead (NoLostProcess), so no pointer in a queue outlives its slot.  The     *)
(* circular queue is a sequence and the heap a set of which the smallest pid  *)
(* leaves first (HeapQueue implements PriorityBag).  Parents and wait() are   *)
(* those of Mlfq and left out: a dead process is reaped at any time.          *)
EXTENDS Integers, FiniteSets, Sequences, Functions

CONSTANTS Cpu,
          MaxPid,       \* bound on nextpid, for model checking
          Nproc,        \* NPROC: slots of the table
          None

Pid == 1..MaxPid

ASSUME ConstantsAssumption ==
    /\ MaxPid \in Nat \ {0}
    /\ Nproc \in Nat \ {0}
    /\ None \notin Pid

VARIABLES state, nextpid,
          rr,           \* the line of processes with an even pid
          fcfs,         \* who is in the heap of processes with an odd pid
          tmp,          \* odd processes a scheduler took out and has to put back
          running,      \* c->proc
          embryo        \* pids of forks not yet finished, by the forking process

vars == <<state, nextpid, rr, fcfs, tmp, running, embryo>>

Procstate == {"UNUSED", "EMBRYO", "SLEEPING", "RUNNABLE", "RUNNING", "ZOMBIE"}

IsRR(p) == p % 2 = 0
Runnable(p) == state[p] = "RUNNABLE"
Live(p) == state[p] \notin {"UNUSED", "ZOMBIE"}
Used == {p \in Pid : state[p] # "UNUSED"}

\* userinit: the first process has pid 1 and so belongs to fcfs.
Init ==
    /\ state = [p \in Pid |-> IF p = 1 THEN "RUNNABLE" ELSE "UNUSED"]
    /\ nextpid = 2
    /\ rr = << >>
    /\ fcfs = {1}
    /\ tmp = {}
    /\ running = [c \in Cpu |-> None]
    /\ embryo = [p \in Pid |-> None]

-----------------------------------------------------------------------------
(* scheduler() *)

Nth(S, k) == CHOOSE i \in S : Cardinality({j \in S : j <= i}) = k

\* Those of a line that are not dead, in order.
Living(s) ==
    LET at == {i \in DOMAIN s : Live(s[i])}
    IN  [k \in 1..Cardinality(at) |-> s[Nth(at, k)]]

Run(c, p) ==
    /\ running' = [running EXCEPT ![c] = p]
    /\ state' = [state EXCEPT ![p] = "RUNNING"]
    /\ UNCHANGED <<nextpid, embryo>>

\* The first in line that can run.
IsTurn(i) == i \in DOMAIN rr /\ Runnable(rr[i]) /\ \A j \in 1..i - 1 : ~Runnable(rr[j])

RunRR_DropsBlocked(c) ==                              \* seeded fault
    /\ running[c] = None
    /\ \E i \in DOMAIN rr :
          /\ IsTurn(i)
          /\ rr' = SubSeq(rr, i + 1, Len(rr))
          /\ Run(c, rr[i])
    /\ UNCHANGED <<fcfs, tmp>>

\* Those before it that cannot run go to the end of the line.
RunRR(c) ==
    /\ running[c] = None
    /\ \E i \in DOMAIN rr :
          /\ IsTurn(i)
          /\ rr' = SubSeq(rr, i + 1, Len(rr)) \o Living(SubSeq(rr, 1, i - 1))
          /\ Run(c, rr[i])
    /\ UNCHANGED <<fcfs, tmp>>

NobodyInRR_Front == \A i \in DOMAIN rr : i = 1 => ~Runnable(rr[i])   \* seeded fault

\* cnt >= rr.qsize: the whole line was turned round and nobody could run.
NobodyInRR == \A i \in DOMAIN rr : ~Runnable(rr[i])

\* Smaller pids that cannot run are parked in tmp while p runs.
IsFirst(p) == Runnable(p) /\ \A q \in fcfs : Runnable(q) => p <= q

RunFcfs(c) ==
    /\ running[c] = None
    /\ NobodyInRR
    /\ \E p \in fcfs :
          /\ IsFirst(p)
          /\ fcfs' = {q \in fcfs : q > p}
          /\ tmp' = tmp \union {q \in fcfs : q < p /\ Live(q)}
          /\ Run(c, p)
    /\ rr' = Living(rr)

\* Nobody can run at all: the heap goes through tmp and back.
RunNobody(c) ==
    /\ running[c] = None
    /\ NobodyInRR
    /\ \A p \in fcfs : ~Runnable(p)
    /\ fcfs' = {p \in fcfs : Live(p)} \union tmp
    /\ tmp' = {}
    /\ rr' = Living(rr)
    /\ UNCHANGED <<state, nextpid, running, embryo>>

Stop_ToFront(c, st) ==                                \* seeded fault
    LET p == running[c]
        back == IF st = "ZOMBIE" THEN {} ELSE {p}
    IN  /\ state' = [state EXCEPT ![p] = st]
        /\ running' = [running EXCEPT ![c] = None]
        /\ IF IsRR(p)
           THEN /\ rr' = IF st = "ZOMBIE" THEN rr ELSE <<p>> \o rr
                /\ UNCHANGED <<fcfs, tmp>>
           ELSE /\ fcfs' = fcfs \union back \union tmp
                /\ tmp' = {}
                /\ UNCHANGED rr

Stop_KeepsTmp(c, st) ==                               \* seeded fault
    LET p == running[c]
        back == IF st = "ZOMBIE" THEN {} ELSE {p}
    IN  /\ state' = [state EXCEPT ![p] = st]
        /\ running' = [running EXCEPT ![c] = None]
        /\ IF IsRR(p)
           THEN /\ rr' = IF st = "ZOMBIE" THEN rr ELSE Append(rr, p)
                /\ UNCHANGED fcfs
           ELSE /\ fcfs' = fcfs \union back
                /\ UNCHANGED rr
        /\ UNCHANGED tmp

\* The process on c has changed its state to st and its scheduler goes on: it
\* is put back unless it died, and an fcfs one brings back those in tmp.
Stop(c, st) ==
    LET p == running[c]
        back == IF st = "ZOMBIE" THEN {} ELSE {p}
    IN  /\ state' = [state EXCEPT ![p] = st]
        /\ running' = [running EXCEPT ![c] = None]
        /\ IF IsRR(p)
           THEN /\ rr' = IF st = "ZOMBIE" THEN rr ELSE Append(rr, p)
                /\ UNCHANGED <<fcfs, tmp>>
           ELSE /\ fcfs' = fcfs \union back \union tmp
                /\ tmp' = {}
                /\ UNCHANGED rr

-----------------------------------------------------------------------------
(* What the running process does *)

\* The timer on every tick, or sys_yield.
yield(c) ==
    /\ running[c] # None
    /\ Stop(c, "RUNNABLE")
    /\ UNCHANGED <<nextpid, embryo>>

AtCall(c) == running[c] # None /\ embryo[running[c]] = None

sleep(c) ==
    /\ AtCall(c)
    /\ Stop(c, "SLEEPING")
    /\ UNCHANGED <<nextpid, embryo>>

exit(c) ==
    /\ AtCall(c)
    /\ running[c] # 1
    /\ Stop(c, "ZOMBIE")
    /\ UNCHANGED <<nextpid, embryo>>

wakeup(p) ==
    /\ state[p] = "SLEEPING"
    /\ state' = [state EXCEPT ![p] = "RUNNABLE"]
    /\ UNCHANGED <<nextpid, rr, fcfs, tmp, running, embryo>>

wait(p) ==
    /\ state[p] = "ZOMBIE"
    /\ state' = [state EXCEPT ![p] = "UNUSED"]
    /\ UNCHANGED <<nextpid, rr, fcfs, tmp, running, embryo>>

allocproc(c) ==
    /\ AtCall(c)
    /\ nextpid <= MaxPid
    /\ Cardinality(Used) < Nproc
    /\ state' = [state EXCEPT ![nextpid] = "EMBRYO"]
    /\ embryo' = [embryo EXCEPT ![running[c]] = nextpid]
    /\ nextpid' = nextpid + 1
    /\ UNCHANGED <<rr, fcfs, tmp, running>>

\* fork goes on: out of memory, or the child enters the queue of its parity.
fork(c) ==
    /\ running[c] # None
    /\ embryo[running[c]] # None
    /\ LET np == embryo[running[c]]
       IN  \/ /\ state' = [state EXCEPT ![np] = "UNUSED"]
              /\ UNCHANGED <<rr, fcfs>>
           \/ /\ state' = [state EXCEPT ![np] = "RUNNABLE"]
              /\ rr' = IF IsRR(np) THEN Append(rr, np) ELSE rr
              /\ fcfs' = IF IsRR(np) THEN fcfs ELSE fcfs \union {np}
    /\ embryo' = [embryo EXCEPT ![running[c]] = None]
    /\ UNCHANGED <<nextpid, tmp, running>>

-----------------------------------------------------------------------------
Schedule(c) == RunRR(c) \/ RunFcfs(c) \/ RunNobody(c)

Next ==
    \/ \E c \in Cpu : \/ Schedule(c) \/ yield(c) \/ sleep(c) \/ exit(c)
                      \/ allocproc(c) \/ fork(c)
    \/ \E p \in Pid : wakeup(p) \/ wait(p)

Spec == Init /\ [][Next]_vars

\* scheduler() loops for ever, and the timer takes every process off its
\* processor in the end.
Fairness == \A c \in Cpu : WF_vars(Schedule(c)) /\ WF_vars(yield(c))

FairSpec == Spec /\ Fairness

-----------------------------------------------------------------------------
TypeOK ==
    /\ state \in [Pid -> Procstate]
    /\ nextpid \in 2..MaxPid + 1
    /\ rr \in Seq(Pid)
    /\ fcfs \subseteq Pid /\ tmp \subseteq Pid
    /\ running \in [Cpu -> Pid \union {None}]
    /\ embryo \in [Pid -> Pid \union {None}]

Waiting(p) == state[p] \in {"RUNNABLE", "SLEEPING"}

(* Whoever waits is in exactly one place, in the queue of its parity or, if   *)
(* odd, parked in tmp; whoever runs is on one processor; nobody else is       *)
(* anywhere.  rr has room for every process, so its silent drop of a newcomer *)
(* when full never comes into play.                                           *)
NoLostProcess ==
    /\ \A p \in Pid : Waiting(p) =>
          IF IsRR(p) THEN p \in Range(rr) ELSE (p \in fcfs) # (p \in tmp)
    /\ \A p \in Range(rr) \union fcfs \union tmp : Waiting(p)
    /\ \A p \in Pid : state[p] = "RUNNING" <=> \E c \in Cpu : running[c] = p
    /\ IsInjective(rr) /\ Len(rr) <= Nproc

(* The inductive form of it: also a queue holds one parity only, no process   *)
(* runs on two processors, a fork owns the slot it has allocated, and slots   *)
(* are counted.                                                               *)
QueuesByParity == /\ \A p \in Range(rr) : IsRR(p)
                  /\ \A p \in fcfs \union tmp : ~IsRR(p)
RunsOnce == \A c, d \in Cpu : running[c] # None /\ running[c] = running[d] => c = d
EmbryosOwned ==
    /\ \A p \in Pid : embryo[p] # None => state[embryo[p]] = "EMBRYO"
    /\ \A p, q \in Pid : embryo[p] # None /\ embryo[p] = embryo[q] => p = q
    /\ \A p \in Pid : p >= nextpid => state[p] = "UNUSED"
SlotsCounted == Cardinality(Used) <= Nproc
Placed == NoLostProcess /\ QueuesByParity /\ RunsOnce /\ EmbryosOwned /\ SlotsCounted

Dispatched(c, p) == p # None /\ running[c] = None /\ running'[c] = p

(* README: the fcfs queue is looked at only when no round-robin process is    *)
(* RUNNABLE; on any number of processors, and wherever the runnable ones      *)
(* stand in the line.                                                         *)
FcfsOnlyWithoutRR ==
    [][\A c \in Cpu, p, q \in Pid :
          Dispatched(c, p) /\ ~IsRR(p) /\ IsRR(q) => ~Runnable(q)]_vars

(* README.md:10: among the fcfs processes the one with the smaller pid is     *)
(* scheduled first.  So it is on one processor.  On several, one that a       *)
(* scheduler has parked in tmp and that wakes there is out of the others'     *)
(* sight, and a larger pid is dispatched before it.                           *)
SmallestPidFirst ==
    [][\A c \in Cpu, p, q \in Pid :
          Dispatched(c, p) /\ ~IsRR(p) /\ ~IsRR(q) /\ Runnable(q) => p <= q]_vars

\* Chosen before q could run, and still running.
RunsBefore(q) == \E d \in Cpu : running[d] # None /\ ~IsRR(running[d]) /\ q < running[d]

(* What is left of it on several processors: wherever a runnable fcfs process *)
(* with a smaller pid is, in the heap or in tmp, it is passed over only while *)
(* another processor runs an fcfs process that was chosen before it woke; no  *)
(* stop, exit or idle search leaves it in tmp for longer.                     *)
PassedOverOnlyWhileParked ==
    [][\A c \in Cpu, p, q \in Pid :
          Dispatched(c, p) /\ ~IsRR(p) /\ ~IsRR(q) /\ Runnable(q) /\ q < p
          => RunsBefore(q)]_vars

(* Round robin starves nobody: a runnable process with an even pid is run,    *)
(* however the others sleep, wake, yield, fork and die.                       *)
RoundRobinRuns ==
    \A p \in Pid : IsRR(p) /\ Runnable(p) ~> state[p] = "RUNNING"
=============================================================================
