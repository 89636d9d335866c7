---------------------------- MODULE MCSideBySide ----------------------------
(* The parts of SideBySide and one level of the MLFQ scheduler.  part says    *)
(* whose behaviour this is; the others stay in their initial state, which     *)
(* changes nothing for it.                                                    *)
EXTENDS SideBySide, TLC
CONSTANTS q1, q2, q3, q4, q5, initproc, p1, p2, c1, c2, j1, j2, alice, bob, root

\* Of Memory's constants.  Frames for two processes and a bit: every step of
\* fork, exec and sbrk finds none left in some run.
Processes == {initproc, p1, p2}
Changes == {-2, 3}
OnePage == {1}
TwoPages == {2}
Bounds == {0, 4}

\* Of Switch's and Users': two processors; two calls at once, as many accounts
\* as the table has room for.
TwoCpus == {c1, c2}
Victims == {p1, p2}
Jobs == {j1, j2}
Names == {alice, bob}
Passwords == {1, 2}

VARIABLES part, heap, key, out

levelvars == <<heap, key, out>>
uservars == <<usertable, cached, disk, console, copy, session, calls, background>>
switchvars == <<owner, spinning, iflag, ncli, intena, proc, pc, trap, saved,
                procstate, parent, chan, killed, stack, np, early>>
allvars == <<part, levelvars, vars, uservars, switchvars>>

\* Room for four of five processes: a full heap has three levels, a parent with
\* one child and a parent with two, and an enq that finds no room.
Level == INSTANCE HeapQueue WITH
        Proc <- {q1, q2, q3, q4, q5}, Key <- 0..2, Capacity <- 4

ASSUME Level!CapacityAssumption

\* Two processors, and one process besides init, which forks it anew when it
\* is dead; and a kill between any two steps.
Kill ==
    /\ K!Next
    /\ \E p \in Victim : procstate'[p] = "UNUSED" /\ pc'[p] = "forkret" /\ p \notin killed'
    /\ Cardinality({p \in Proc : procstate'[p] # "UNUSED"})
         + Cardinality({p \in Proc : pc'[p] = "allocproc"}) < Cardinality(Proc)

\* One processor: a process exits while it has a child, or forks while another
\* one waits; nobody is killed.
Orphan ==
    /\ K!Next
    /\ pc'[c2] = "loop" /\ c2 \notin iflag'
    /\ \A p \in Proc : pc'[p] # "kill"

MCInit ==
    /\ part \in {"level", "frames", "users", "kill", "orphan"}
    /\ Level!Init /\ (part # "level" => key = [q \in DOMAIN key |-> 0])
    /\ Init
    /\ U!Init /\ (part # "users" => background)
    /\ K!Init

MCNext ==
    /\ UNCHANGED part
    /\ \/ part = "level" /\ Level!Next /\ UNCHANGED <<vars, uservars, switchvars>>
       \/ part = "frames" /\ Next /\ UNCHANGED <<levelvars, uservars, switchvars>>
       \/ part = "users" /\ U!Next /\ UNCHANGED <<levelvars, vars, switchvars>>
       \/ part = "kill" /\ Kill /\ UNCHANGED <<levelvars, vars, uservars>>
       \/ part = "orphan" /\ Orphan /\ UNCHANGED <<levelvars, vars, uservars>>

MCSpec == MCInit /\ [][MCNext]_allvars

Exchange ==
    Permutations({p1, p2}) \union Permutations({j1, j2}) \union Permutations({alice, bob})

-----------------------------------------------------------------------------
(* The property of HeapQueue: no process lost or duplicated or handed out     *)
(* before its turn.                                                           *)
ImplementsPriorityBag == Level!ImplementsPriorityBag
=============================================================================
