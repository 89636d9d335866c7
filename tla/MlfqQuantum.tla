---------------------------- MODULE MlfqQuantum ----------------------------
(* How much processor time a level of the MLFQ gives: Mlfq with a history     *)
(* variable that counts the timer interrupts a process was charged for since  *)
(* it last received a quantum.                                                *)
EXTENDS Mlfq

VARIABLE spent

qvars == <<vars, spent>>

QInit == Init /\ spent = [p \in Proc |-> 0]

\* A new level, or more quantum than before, starts a new account.
NewQuantum(p) == qlevel'[p] # qlevel[p] \/ qtime'[p] > qtime[p]

Account(charged) ==
    spent' = [p \in Proc |-> IF NewQuantum(p) THEN 0
                             ELSE IF p \in charged THEN spent[p] + 1 ELSE spent[p]]

QNext ==
    \/ \E c \in Cpu : Preempt(c) /\ Account(IF boost THEN {} ELSE {running[c]})
    \/ (Tick \/ IoWakeup \/ \E c \in Cpu : Schedule(c) \/ Call(c)) /\ Account({})

QSpec == QInit /\ [][QNext]_qvars

(* What a process was charged and what it has left make up the quantum of its *)
(* level, and only at the last level can it owe more; a slot nobody used yet  *)
(* has no quantum.                                                            *)
Settled(p) ==
    /\ spent[p] + qtime[p] = Quantum[qlevel[p]]
    /\ qlevel[p] < K - 1 => qtime[p] >= 0
Unused(p) == state[p] = "UNUSED" /\ qlevel[p] = 0 /\ qtime[p] = 0 /\ spent[p] = 0
AccountsSettled ==
    /\ spent \in [Proc -> Nat]
    /\ \A p \in Proc : Settled(p) \/ Unused(p)

Demoted(p) == qlevel'[p] > qlevel[p]

(* A process is demoted by the interrupt after the one that brought its       *)
(* quantum to zero, one level at a time, and by nothing else: whatever mix of *)
(* yields, sleeps, boosts and processors it went through.  It has then run    *)
(* one tick more than the 2i+4 of README.md:20.                               *)
DemotedAfterWholeQuantum ==
    [][\A p \in Proc : Demoted(p) =>
          qlevel'[p] = qlevel[p] + 1 /\ spent[p] = Quantum[qlevel[p]]]_qvars
=============================================================================
