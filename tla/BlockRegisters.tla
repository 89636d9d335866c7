--------------------------- MODULE BlockRegisters ----------------------------
(* What the buffer cache promises to its callers (bio.c:9-15): every block is *)
(* one register, which one process at a time may read and change between its  *)
(* bread and its brelse, and which nobody changes otherwise.                  *)
CONSTANTS Proc, Block, Data, InitialData, None

VARIABLES val,      \* the contents of each block
          user      \* who is between bread and brelse of it, or None

vars == <<val, user>>

Init ==
    /\ val = [b \in Block |-> InitialData]
    /\ user = [b \in Block |-> None]

Take(p, b) ==
    /\ user[b] = None
    /\ user' = [user EXCEPT ![b] = p]
    /\ UNCHANGED val

Change(p, b, d) ==
    /\ user[b] = p
    /\ val' = [val EXCEPT ![b] = d]
    /\ UNCHANGED user

Give(p, b) ==
    /\ user[b] = p
    /\ user' = [user EXCEPT ![b] = None]
    /\ UNCHANGED val

Next ==
    \E p \in Proc, b \in Block :
        Take(p, b) \/ Give(p, b) \/ \E d \in Data : Change(p, b, d)

Spec == Init /\ [][Next]_vars
=============================================================================
