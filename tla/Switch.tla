------------------------------- MODULE Switch --------------------------------
(* What the other modules take for granted: spin locks (spinlock.c), the      *)
(* interrupt flag, the switch between a process and the scheduler of its      *)
(* processor, and sleep and wakeup built on them (proc.c, trap.c and          *)
(* sysproc.c of Users/xv6-public; those of Process_Management do the same).   *)
(*                                                                            *)
(* Granularity: a step is what a processor does from one acquire, release or  *)
(* switch to the next.  Inside acquire the processor spins, with interrupts   *)
(* off, which is a state of its own.  Where interrupts are on, the timer may  *)
(* interrupt, and its handler runs on the stack of who was interrupted.       *)
(* Other interrupts take a lock and wake sleepers as the timer does and yield *)
(* to nobody; they are left out.                                              *)
EXTENDS Integers, FiniteSets

CONSTANTS Proc, InitProc, Cpu, BootCpu, None,
          Victim               \* the slots that kill names (bound)

ConstantsAssumption ==
    /\ InitProc \in Proc
    /\ BootCpu \in Cpu
    /\ Proc \intersect Cpu = {}
    /\ None \notin Proc \union Cpu
    /\ "ticks" \notin Proc             \* where a process may sleep
    /\ Victim \subseteq Proc \ {InitProc}

VARIABLES
    owner,      \* lk->cpu of each lock, None when it is not locked
    spinning,   \* the processors in the loop of acquire
    iflag,      \* the processors with interrupts enabled
    ncli, intena,           \* struct cpu; intena as a set of processors
    proc,       \* c->proc, None for a null pointer
    pc,         \* where a process, or the scheduler of a processor, is
    trap,       \* where it is in the handler of an interrupt, "none" outside
    saved,      \* the processes in sched() whose local intena is not 0
    state, parent, chan,
    killed, kstack,         \* the processes with p->killed, with a stack
    np,         \* the slot a process has taken in fork
    early       \* the processes in sys_sleep for which ticks - ticks0 < n

locks == <<owner, spinning>>
cpuVars == <<iflag, ncli, intena, proc>>
threads == <<pc, trap, saved>>
procVars == <<state, parent, chan, killed, kstack, np, early>>
vars == <<locks, cpuVars, threads, procVars>>

\* Where acquire is called, and for which lock.
Wants ==
    [sys_sleep |-> "ticks", sleepAgain |-> "ticks", tick |-> "ticks",
     sleep |-> "ptable", wakeup |-> "ptable", wait |-> "ptable", exit |-> "ptable",
     allocproc |-> "ptable", fork |-> "ptable", kill |-> "ptable", yield |-> "ptable",
     scheduler |-> "ptable"]

\* Where release is called, for which lock, and what comes after it.
Drops ==
    [slept     |-> [lock |-> "ptable", next |-> "sleepAgain"],
     sleepDone |-> [lock |-> "ticks",  next |-> "sysret"],
     found     |-> [lock |-> "ptable", next |-> "copyuvm"],
     done      |-> [lock |-> "ptable", next |-> "sysret"],
     yielded   |-> [lock |-> "ptable", next |-> "iret"],
     woken     |-> [lock |-> "ptable", next |-> "ticked"],
     ticked    |-> [lock |-> "ticks",  next |-> "trapEnd"],
     round     |-> [lock |-> "ptable", next |-> "loop"],
     forkret   |-> [lock |-> "ptable", next |-> "trapret"]]

Lock == {"ptable", "ticks"}

\* The calls of sched(), and where each goes on afterwards.
Resumes ==
    [sleepSwtch |-> "slept", waitSwtch |-> "waitScan", yieldSwtch |-> "yielded",
     exitSwtch |-> "zombie"]

\* main() has started the scheduler of each processor; userinit has run.
Init ==
    /\ owner = [k \in Lock |-> None] /\ spinning = {}
    /\ iflag = {} /\ ncli = [c \in Cpu |-> 0] /\ intena = {}
    /\ proc = [c \in Cpu |-> None]
    /\ pc = [t \in Proc \union Cpu |-> IF t \in Cpu THEN "loop" ELSE "forkret"]
    /\ trap = [t \in Proc \union Cpu |-> "none"]
    /\ saved = {}
    /\ state = [p \in Proc |-> IF p = InitProc THEN "RUNNABLE" ELSE "UNUSED"]
    /\ parent = [p \in Proc |-> None]
    /\ chan = [p \in Proc |-> None]
    /\ killed = {} /\ kstack = {InitProc}
    /\ np = [p \in Proc |-> None]
    /\ early = {}

\* Whose stack processor c is on, and where it is.
Thread(c) == IF proc[c] = None THEN c ELSE proc[c]
At(c) == IF trap[Thread(c)] # "none" THEN trap[Thread(c)] ELSE pc[Thread(c)]
InUser(c) == proc[c] # None /\ pc[Thread(c)] = "user"

GoTo(c, place) ==
    IF trap[Thread(c)] # "none"
    THEN trap' = [trap EXCEPT ![Thread(c)] = place] /\ UNCHANGED pc
    ELSE pc' = [pc EXCEPT ![Thread(c)] = place] /\ UNCHANGED trap

-----------------------------------------------------------------------------
(* spinlock.c *)

pushcli(c) ==
    /\ iflag' = iflag \ {c}
    /\ intena' = IF ncli[c] > 0 THEN intena
                 ELSE IF c \in iflag THEN intena \union {c} ELSE intena \ {c}
    /\ ncli' = [ncli EXCEPT ![c] = @ + 1]

\* intena means nothing when ncli is 0 and is then cleared here.
popcli(c) ==
    /\ ncli' = [ncli EXCEPT ![c] = @ - 1]
    /\ iflag' = IF ncli[c] = 1 /\ c \in intena THEN iflag \union {c} ELSE iflag
    /\ intena' = IF ncli[c] = 1 THEN intena \ {c} ELSE intena

\* acquire up to its loop; pushcli and popcli of holding() cancel out.
acquire(c) ==
    /\ At(c) \in DOMAIN Wants
    /\ c \notin spinning
    /\ pushcli(c)
    /\ spinning' = spinning \union {c}
    /\ UNCHANGED <<owner, proc, threads, procVars>>

\* The xchg that ends the loop: the first step of each critical section.
Enters(c, place) ==
    /\ At(c) = place
    /\ c \in spinning
    /\ owner[Wants[place]] = None
    /\ owner' = [owner EXCEPT ![Wants[place]] = c]
    /\ spinning' = spinning \ {c}
    /\ UNCHANGED cpuVars

release(c) ==
    /\ At(c) \in DOMAIN Drops
    /\ owner' = [owner EXCEPT ![Drops[At(c)].lock] = None]
    /\ popcli(c)
    /\ GoTo(c, Drops[At(c)].next)
    /\ UNCHANGED <<spinning, proc, saved, procVars>>

-----------------------------------------------------------------------------
(* Switching: proc.c, scheduler and sched *)

\* The top of the loop of scheduler(): sti.
sti(c) ==
    /\ proc[c] = None /\ At(c) = "loop"
    /\ iflag' = iflag \union {c}
    /\ GoTo(c, "scheduler")
    /\ UNCHANGED <<locks, ncli, intena, proc, saved, procVars>>

scheduler(c) ==
    /\ Enters(c, "scheduler")
    /\ GoTo(c, "scan")
    /\ UNCHANGED <<saved, procVars>>

\* The loop over the table finds p.  Its order is left open: a round may end
\* although somebody further up has become runnable.
swtch(c, p) ==
    /\ proc[c] = None /\ At(c) = "scan"
    /\ state[p] = "RUNNABLE"
    /\ proc' = [proc EXCEPT ![c] = p]
    /\ state' = [state EXCEPT ![p] = "RUNNING"]
    /\ LET here == IF trap[p] # "none" THEN trap[p] ELSE pc[p]
       IN  IF here \notin DOMAIN Resumes        \* the first time, in forkret
           THEN UNCHANGED <<pc, trap, intena, chan>>
           ELSE /\ IF trap[p] # "none"
                   THEN trap' = [trap EXCEPT ![p] = Resumes[here]] /\ UNCHANGED pc
                   ELSE pc' = [pc EXCEPT ![p] = Resumes[here]] /\ UNCHANGED trap
                /\ intena' = IF p \in saved THEN intena \union {c} ELSE intena \ {c}
                /\ chan' = [chan EXCEPT ![p] = None]
    /\ saved' = saved \ {p}
    /\ UNCHANGED <<locks, iflag, ncli, parent, killed, kstack, np, early>>

RoundEnds(c) ==
    /\ proc[c] = None /\ At(c) = "scan"
    /\ GoTo(c, "round")
    /\ UNCHANGED <<locks, cpuVars, saved, procVars>>

sched_Forgets(c) ==                                                   \* seeded fault
    /\ proc[c] # None /\ At(c) \in DOMAIN Resumes
    /\ proc' = [proc EXCEPT ![c] = None]
    /\ UNCHANGED <<locks, iflag, ncli, intena, pc, trap, saved, procVars>>

sched(c) ==
    /\ proc[c] # None /\ At(c) \in DOMAIN Resumes
    /\ saved' = IF c \in intena THEN saved \union {proc[c]} ELSE saved
    /\ proc' = [proc EXCEPT ![c] = None]
    /\ UNCHANGED <<locks, iflag, ncli, intena, pc, trap, procVars>>

-----------------------------------------------------------------------------
(* System calls *)

\* trap(): a killed process exits instead.
syscall(c) ==
    /\ InUser(c) /\ At(c) = "user"
    /\ \E call \in {"sys_sleep", "wait", "exit", "allocproc", "kill"} :
        /\ proc[c] \in killed => call = "exit"
        /\ proc[c] = InitProc => call # "exit"
        /\ GoTo(c, call)
    /\ UNCHANGED <<locks, cpuVars, saved, procVars>>

sysret(c) ==
    /\ At(c) = "sysret"
    /\ GoTo(c, IF proc[c] \in killed THEN "exit" ELSE "user")
    /\ UNCHANGED <<locks, cpuVars, saved, procVars>>

\* The test in the loop of sys_sleep.
SleepTest(c, who) ==
    IF proc[c] \in who \ killed
    THEN early' = who /\ GoTo(c, "sleep")
    ELSE early' = who \ {proc[c]} /\ GoTo(c, "sleepDone")

sys_sleep(c) ==
    /\ \/ Enters(c, "sys_sleep") /\ SleepTest(c, early \union {proc[c]})
       \/ Enters(c, "sleepAgain") /\ SleepTest(c, early)
    /\ UNCHANGED <<saved, state, parent, chan, killed, kstack, np>>

sleep_ReleasesFirst(c) ==                                             \* seeded fault
    \/ /\ At(c) = "sleep" /\ c \in spinning /\ owner["ticks"] = c
       /\ owner' = [owner EXCEPT !["ticks"] = None]
       /\ ncli' = [ncli EXCEPT ![c] = @ - 1]
       /\ UNCHANGED <<spinning, iflag, intena, proc, threads, procVars>>
    \/ /\ owner["ticks"] # c /\ Enters(c, "sleep")
       /\ chan' = [chan EXCEPT ![proc[c]] = "ticks"]
       /\ state' = [state EXCEPT ![proc[c]] = "SLEEPING"]
       /\ GoTo(c, "sleepSwtch")
       /\ UNCHANGED <<saved, parent, killed, kstack, np, early>>

\* sleep() takes ptable.lock, ...
sleep(c) ==
    /\ Enters(c, "sleep")
    /\ GoTo(c, "letGo")
    /\ UNCHANGED <<saved, procVars>>

letGo_KeepsLock(c) ==                                                 \* seeded fault
    /\ At(c) = "letGo"
    /\ chan' = [chan EXCEPT ![proc[c]] = "ticks"]
    /\ state' = [state EXCEPT ![proc[c]] = "SLEEPING"]
    /\ GoTo(c, "sleepSwtch")
    /\ UNCHANGED <<locks, cpuVars, saved, parent, killed, kstack, np, early>>

\* ... and only then releases the other lock.
letGo(c) ==
    /\ At(c) = "letGo"
    /\ owner' = [owner EXCEPT !["ticks"] = None]
    /\ popcli(c)
    /\ chan' = [chan EXCEPT ![proc[c]] = "ticks"]
    /\ state' = [state EXCEPT ![proc[c]] = "SLEEPING"]
    /\ GoTo(c, "sleepSwtch")
    /\ UNCHANGED <<spinning, proc, saved, parent, killed, kstack, np, early>>

\* wakeup1: state and chan are those of the caller.
Woken(ch, st) == [q \in Proc |-> IF st[q] = "SLEEPING" /\ chan[q] = ch THEN "RUNNABLE" ELSE st[q]]

Child(p) == {q \in Proc : parent[q] = p}
Dead(p) == {q \in Child(p) : state[q] = "ZOMBIE"}

\* wait: one look through the table.
wait(c) ==
    LET me == proc[c] IN
    /\ \/ Enters(c, "wait")
       \/ At(c) = "waitScan" /\ UNCHANGED <<locks, cpuVars>>
    /\ \/ \E q \in Dead(me) :
            /\ kstack' = kstack \ {q}
            /\ parent' = [parent EXCEPT ![q] = None]
            /\ killed' = killed \ {q}
            /\ state' = [state EXCEPT ![q] = "UNUSED"]
            /\ GoTo(c, "done") /\ UNCHANGED chan
       \/ /\ Dead(me) = {} /\ (Child(me) = {} \/ me \in killed)
          /\ GoTo(c, "done")
          /\ UNCHANGED <<kstack, parent, killed, state, chan>>
       \/ /\ Dead(me) = {} /\ Child(me) # {} /\ me \notin killed
          /\ chan' = [chan EXCEPT ![me] = me]
          /\ state' = [state EXCEPT ![me] = "SLEEPING"]
          /\ GoTo(c, "waitSwtch")
          /\ UNCHANGED <<kstack, parent, killed>>
    /\ UNCHANGED <<saved, np, early>>

\* exit, once files and directory are given back.
exit(c) ==
    LET me == proc[c]
        woken == Woken(parent[me], state)
    IN
    /\ Enters(c, "exit")
    /\ parent' = [q \in Proc |-> IF parent[q] = me THEN InitProc ELSE parent[q]]
    /\ state' = [(IF Dead(me) = {} THEN woken ELSE Woken(InitProc, woken)) EXCEPT ![me] = "ZOMBIE"]
    /\ GoTo(c, "exitSwtch")
    /\ UNCHANGED <<saved, chan, killed, kstack, np, early>>

\* fork takes a slot.
allocproc(c) ==
    /\ Enters(c, "allocproc")
    /\ \/ \E q \in Proc :
            /\ state[q] = "UNUSED"
            /\ state' = [state EXCEPT ![q] = "EMBRYO"]
            /\ np' = [np EXCEPT ![proc[c]] = q]
            /\ GoTo(c, "found")
       \/ /\ \A q \in Proc : state[q] # "UNUSED"
          /\ GoTo(c, "done") /\ UNCHANGED <<state, np>>
    /\ UNCHANGED <<saved, parent, chan, killed, kstack, early>>

\* Stack and memory for the child, without a lock; the slot is given back
\* when there are none.
copyuvm(c) ==
    LET q == np[proc[c]] IN
    /\ At(c) = "copyuvm"
    /\ \/ /\ kstack' = kstack \union {q}
          /\ parent' = [parent EXCEPT ![q] = proc[c]]
          /\ pc' = [pc EXCEPT ![q] = "forkret", ![proc[c]] = "fork"]
          /\ trap' = [trap EXCEPT ![q] = "none"]
          /\ UNCHANGED <<state, np>>
       \/ /\ state' = [state EXCEPT ![q] = "UNUSED"]
          /\ np' = [np EXCEPT ![proc[c]] = None]
          /\ GoTo(c, "sysret") /\ UNCHANGED <<kstack, parent>>
    /\ UNCHANGED <<locks, cpuVars, saved, chan, killed, early>>

fork(c) ==
    /\ Enters(c, "fork")
    /\ state' = [state EXCEPT ![np[proc[c]]] = "RUNNABLE"]
    /\ np' = [np EXCEPT ![proc[c]] = None]
    /\ GoTo(c, "done")
    /\ UNCHANGED <<saved, parent, chan, killed, kstack, early>>

\* forkret goes back to user mode, where interrupts are on.
trapret(c) ==
    /\ At(c) = "trapret"
    /\ iflag' = iflag \union {c}
    /\ GoTo(c, "user")
    /\ UNCHANGED <<locks, ncli, intena, proc, saved, procVars>>

\* A free slot has pid 0 and can be named too.  Killing init panics the kernel
\* when it exits (proc.c:236); nobody does here.
kill(c) ==
    /\ Enters(c, "kill")
    /\ \/ UNCHANGED <<killed, state>>                                    \* no such pid
       \/ \E q \in Victim :
            /\ killed' = killed \union {q}
            /\ state' = IF state[q] = "SLEEPING" THEN [state EXCEPT ![q] = "RUNNABLE"] ELSE state
    /\ GoTo(c, "done")
    /\ UNCHANGED <<saved, parent, chan, kstack, np, early>>

-----------------------------------------------------------------------------
(* The timer: trap.c *)

\* The gates of interrupts turn interrupts off; a handler is not interrupted.
timer(c) ==
    /\ c \in iflag /\ trap[Thread(c)] = "none"
    /\ iflag' = iflag \ {c}
    /\ trap' = [trap EXCEPT ![Thread(c)] = IF c = BootCpu THEN "tick" ELSE "trapEnd"]
    /\ UNCHANGED <<locks, ncli, intena, proc, pc, saved, procVars>>

tick(c) ==
    /\ Enters(c, "tick")
    /\ early' \in SUBSET early                         \* whose n ticks are over
    /\ GoTo(c, "wakeup")
    /\ UNCHANGED <<saved, state, parent, chan, killed, kstack, np>>

wakeup(c) ==
    /\ Enters(c, "wakeup")
    /\ state' = Woken("ticks", state)
    /\ GoTo(c, "woken")
    /\ UNCHANGED <<saved, parent, chan, killed, kstack, np, early>>

\* The end of trap(): a killed process exits, another one yields; the process
\* that comes back from yield is looked at again.
trapEnd(c) ==
    /\ At(c) = "trapEnd"
    /\ GoTo(c, IF InUser(c) /\ proc[c] \in killed THEN "exit"
               ELSE IF proc[c] # None /\ state[proc[c]] = "RUNNING" THEN "yield" ELSE "iret")
    /\ UNCHANGED <<locks, cpuVars, saved, procVars>>

yield(c) ==
    /\ Enters(c, "yield")
    /\ state' = [state EXCEPT ![proc[c]] = "RUNNABLE"]
    /\ GoTo(c, "yieldSwtch")
    /\ UNCHANGED <<saved, parent, chan, killed, kstack, np, early>>

iret(c) ==
    /\ At(c) = "iret"
    /\ IF InUser(c) /\ proc[c] \in killed
       THEN GoTo(c, "exit") /\ UNCHANGED iflag
       ELSE /\ trap' = [trap EXCEPT ![Thread(c)] = "none"] /\ UNCHANGED pc
            /\ iflag' = iflag \union {c}
    /\ UNCHANGED <<locks, ncli, intena, proc, saved, procVars>>

-----------------------------------------------------------------------------
Next ==
    \E c \in Cpu :
        \/ acquire(c) \/ release(c)
        \/ sti(c) \/ scheduler(c) \/ RoundEnds(c) \/ sched(c) \/ \E p \in Proc : swtch(c, p)
        \/ syscall(c) \/ sysret(c) \/ sys_sleep(c) \/ sleep(c) \/ letGo(c) \/ wait(c)
        \/ exit(c) \/ allocproc(c) \/ copyuvm(c) \/ fork(c) \/ trapret(c) \/ kill(c)
        \/ timer(c) \/ tick(c) \/ wakeup(c) \/ trapEnd(c) \/ yield(c) \/ iret(c)

Spec == Init /\ [][Next]_vars

-----------------------------------------------------------------------------
(* Properties *)

Holds(c, lock) == owner[lock] = c

(* None of the panics of spinlock.c, sched, switchuvm and exit happens: no    *)
(* processor acquires a lock it holds or releases one it does not, whatever   *)
(* interrupts whom; sched is entered with ptable.lock and no other lock; no   *)
(* dead process comes back, and nobody is reaped, with the stack, before its  *)
(* processor has left it.                                                     *)
NoPanic ==
    \A c \in Cpu :
        /\ c \in spinning => ~Holds(c, Wants[At(c)])
        /\ At(c) \in DOMAIN Drops =>
               Holds(c, Drops[At(c)].lock) /\ c \notin iflag /\ ncli[c] > 0
        /\ proc[c] # None => proc[c] \in kstack /\ At(c) # "zombie"
        /\ proc[c] # None /\ At(c) \in DOMAIN Resumes =>
               /\ Holds(c, "ptable") /\ ncli[c] = 1 /\ c \notin iflag
               /\ state[proc[c]] # "RUNNING"
        /\ At(c) = "scan" => \A p \in Proc : state[p] = "RUNNABLE" => p \in kstack

(* Interrupts are off in a handler and wherever a lock is held, and on in     *)
(* user mode and in a system call that holds none, whatever processor the     *)
(* process has come back on ("intena is a property of this kernel thread",    *)
(* proc.c:361).                                                               *)
InterruptsAsBefore ==
    \A c \in Cpu :
        LET depth == Cardinality({k \in Lock : Holds(c, k)}) + IF c \in spinning THEN 1 ELSE 0
        IN
        /\ ncli[c] = depth
        /\ depth > 0 \/ trap[Thread(c)] # "none" => c \notin iflag
        /\ depth = 0 /\ trap[Thread(c)] = "none" /\ At(c) \notin {"trapret", "loop"} => c \in iflag

(* sleep is atomic ("Atomically release lock and sleep on chan", proc.c:416): *)
(* no wakeup passes between the test of a condition and the sleep.            *)
NoLostWakeup ==
    \A p \in Proc : state[p] = "SLEEPING" =>
        /\ chan[p] = "ticks" /\ p \notin early => \E c \in Cpu : At(c) = "wakeup"
        /\ chan[p] = p => Dead(p) = {} /\ p \notin killed
=============================================================================
