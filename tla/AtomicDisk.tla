----------------------------- MODULE AtomicDisk -----------------------------
(* What log.c promises to file system calls: "any sequence of writes between  *)
(* begin_op() and end_op() happens entirely or not at all".  Calls that       *)
(* overlap form one group, which survives a crash as a whole or not at all,   *)
(* and no call begins a new group before the last one would survive.          *)
EXTENDS FiniteSets

CONSTANTS Proc, Block, Data, InitialData

VARIABLES active,       \* processes between begin_op and end_op
          current,      \* what a process that reads the disk sees
          stable        \* what it would see after a crash

vars == <<active, current, stable>>

Init ==
    /\ active = {}
    /\ current = [b \in Block |-> InitialData]
    /\ stable = current

Begin(p) ==
    /\ p \notin active
    /\ active = {} => stable = current
    /\ active' = active \union {p}
    /\ UNCHANGED <<current, stable>>

Write(p, b, d) ==
    /\ p \in active
    /\ current' = [current EXCEPT ![b] = d]
    /\ UNCHANGED <<active, stable>>

End(p) ==
    /\ p \in active
    /\ active' = active \ {p}
    /\ UNCHANGED <<current, stable>>

\* The group becomes durable.
Save ==
    /\ active = {}
    /\ stable' = current
    /\ UNCHANGED <<active, current>>

Crash ==
    /\ active' = {}
    /\ current' = stable
    /\ UNCHANGED stable

Next ==
    \/ \E p \in Proc : Begin(p) \/ End(p) \/ \E b \in Block, d \in Data : Write(p, b, d)
    \/ Save
    \/ Crash

Spec == Init /\ [][Next]_vars
=============================================================================
