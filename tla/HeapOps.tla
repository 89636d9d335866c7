------------------------------ MODULE HeapOps ------------------------------
(* The two priority queues of ML&MLFQ_Scheduler/xv6-public/proc.c as pure    *)
(* operators: the max-heap on priority of one MLFQ level (enq, deq, percdown, *)
(* increase_priority) and the min-heap on pid of the FCFS level (enpq, depq). *)
(* The array proc[1..qsize] is a sequence h, and key[p] is what p is ordered  *)
(* by.  The code moves a hole through the array; here the place where the     *)
(* hole comes to rest is computed first, and the entries on its path shift.   *)
EXTENDS Integers, Sequences

(* The positions from i up to the root: i, i/2, i/4, ... *)
Ancestors(i) == {j \in 1..i : \E d \in 0..i : j = i \div 2^d}

(* Where an entry of key k comes to rest when it enters below the last leaf:  *)
(* the hole rises while the parent is strictly smaller, so an entry stays     *)
(* behind the entries of its own key on the path.                             *)
RestingPlaceUp(h, key, p) ==
    LET Rise[i \in 1..Len(h) + 1] ==
            IF i > 1 /\ key[h[i \div 2]] < key[p] THEN Rise[i \div 2] ELSE i
    IN  Rise[Len(h) + 1]

(* enq: a full queue drops the entry without a word.                          *)
Enq(h, key, p, capacity) ==
    IF Len(h) >= capacity THEN h
    ELSE LET top   == RestingPlaceUp(h, key, p)
             below == {i \in Ancestors(Len(h) + 1) : i > top}
         IN  [i \in 1..Len(h) + 1 |->
                IF i = top THEN p ELSE IF i \in below THEN h[i \div 2] ELSE h[i]]

(* The child that a hole at i is compared with: the right one only when it is *)
(* inside the queue and strictly larger.                                      *)
BiggerChild_LeftOnly(h, key, i) == 2 * i              \* seeded fault

BiggerChild(h, key, i) ==
    IF 2 * i # Len(h) /\ key[h[2 * i + 1]] > key[h[2 * i]] THEN 2 * i + 1 ELSE 2 * i

(* Entry v sinks from position start of h.                                    *)
SiftDown(h, key, start, v) ==
    LET Sink[i \in 1..Len(h) + 1] ==
            IF 2 * i <= Len(h) /\ key[v] < key[h[BiggerChild(h, key, i)]]
            THEN Sink[BiggerChild(h, key, i)] ELSE i
        rest  == Sink[start]
        above == {i \in Ancestors(rest) : i >= start /\ i < rest}
    IN  [i \in 1..Len(h) |->
            IF i = rest THEN v
            ELSE IF i \in above THEN h[BiggerChild(h, key, i)] ELSE h[i]]

(* deq returns proc[1] and lets the last entry sink from the root.            *)
Top(h) == h[1]
Deq(h, key) == SiftDown(SubSeq(h, 1, Len(h) - 1), key, 1, h[Len(h)])

(* percdown: the entry at index sinks into its own subtree.                   *)
PercDown(h, key, index) == SiftDown(h, key, index, h[index])

(* increase_priority: percdown from the last parent back to the root.         *)
IncreasePriority(h, key) ==
    LET Build[i \in 1..Len(h) + 1] ==
            IF i > Len(h) \div 2 THEN h ELSE PercDown(Build[i + 1], key, i)
    IN  Build[1]

(* enpq and depq are the same code with the comparison turned round.          *)
ByPid(pid) == [p \in DOMAIN pid |-> 0 - pid[p]]
Enpq(h, pid, p, capacity) == Enq(h, ByPid(pid), p, capacity)
Depq(h, pid) == Deq(h, ByPid(pid))

=============================================================================
