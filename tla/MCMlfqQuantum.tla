---------------------------- MODULE MCMlfqQuantum ----------------------------
(* One processor, on which every critical section is exact: the orders the    *)
(* scheduler keeps, and the account of ticks.                                 *)
EXTENDS MlfqQuantum, TLC
CONSTANTS init, p2, p3, c0
ThreeProcs == {init, p2, p3}
OneCpu == {c0}
MCQuantum == [l \in 0..K - 1 |-> l + 1]
MCPriority == 0..1
Exchange == Permutations(Proc \ {InitProc})
=============================================================================
