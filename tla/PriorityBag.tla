---------------------------- MODULE PriorityBag ----------------------------
(* What one level of the scheduler promises to the code that uses it: a      *)
(* bounded set of processes from which the largest key leaves first, whatever *)
(* the order of arrival and whatever is done to the keys in between.          *)
EXTENDS Integers, FiniteSets

CONSTANTS Proc,         \* the processes
          Key,          \* the keys they are ordered by
          Capacity,     \* the most the queue can hold
          None          \* nobody has been taken out by the last step

VARIABLES members,      \* who is in the queue
          key,          \* the key of every process
          out           \* whom the last step took out

Init ==
    /\ members = {}
    /\ key \in [Proc -> Key]
    /\ out = None

(* A full queue loses the newcomer. *)
Put(p) ==
    /\ p \notin members
    /\ members' = IF Cardinality(members) < Capacity THEN members \union {p} ELSE members
    /\ out' = None
    /\ UNCHANGED key

Take ==
    /\ \E p \in members :
          /\ \A q \in members : key[q] <= key[p]
          /\ members' = members \ {p}
          /\ out' = p
    /\ UNCHANGED key

Rekey(p, k) ==
    /\ key' = [key EXCEPT ![p] = k]
    /\ out' = None
    /\ UNCHANGED members

Next == (\E p \in Proc : Put(p) \/ \E k \in Key : Rekey(p, k)) \/ Take

Spec == Init /\ [][Next]_<<members, key, out>>
=============================================================================
