----------------------------- MODULE HeapQueue -----------------------------
(* One MLFQ level of proc.c used the way the scheduler uses it: processes are *)
(* enqueued, the top is dequeued, and setpriority rewrites a key in the middle *)
(* of the array before it rebuilds the heap.                                  *)
EXTENDS HeapOps, FiniteSets, Functions

CONSTANTS Proc, Key, Capacity, None

CapacityAssumption == Capacity \in Nat \ {0}

VARIABLES heap,     \* proc[1..qsize]
          key,      \* priority of every process
          out       \* what the last deq returned

vars == <<heap, key, out>>

(* qinit: qsize = 0.  priority is whatever the processes came with. *)
Init ==
    /\ heap = << >>
    /\ key \in [Proc -> Key]
    /\ out = None

(* A process is enqueued only while no queue holds it. *)
Put(p) ==
    /\ p \notin Range(heap)
    /\ heap' = Enq(heap, key, p, Capacity)
    /\ out' = None
    /\ UNCHANGED key

Take ==
    /\ heap # << >>
    /\ heap' = Deq(heap, key)
    /\ out' = Top(heap)
    /\ UNCHANGED key

(* setpriority: the new key and the rebuild are one critical section. *)
Rekey(p, k) ==
    /\ key' = [key EXCEPT ![p] = k]
    /\ heap' = IncreasePriority(heap, key')
    /\ out' = None

Next == (\E p \in Proc : Put(p) \/ \E k \in Key : Rekey(p, k)) \/ Take

Spec == Init /\ [][Next]_vars

TypeOK ==
    /\ heap \in Seq(Proc) /\ Len(heap) <= Capacity
    /\ key \in [Proc -> Key]
    /\ out \in Proc \union {None}

-----------------------------------------------------------------------------
(* The heap is the promise: nobody is lost or duplicated by the shifting of   *)
(* entries, and deq hands out a process no other one precedes.                *)
Bag == INSTANCE PriorityBag WITH members <- Range(heap)
ImplementsPriorityBag == Bag!Spec
=============================================================================
