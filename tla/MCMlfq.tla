------------------------------- MODULE MCMlfq -------------------------------
(* The MLFQ scheduler on a few slots, processors and levels.                  *)
EXTENDS Mlfq, TLC
CONSTANTS init, p2, p3, p4, c0, c1

FourProcs == {init, p2, p3, p4}
ThreeProcs == {init, p2, p3}
OneCpu == {c0}
TwoCpus == {c0, c1}

\* 2*i+4 scaled down: a quantum of one tick at level 0, two at the last level.
MCQuantum == [l \in 0..K - 1 |-> l + 1]
MCShortQuantum == [l \in 0..K - 1 |-> 1]
OnePriority == {0}

\* The processes but init can be exchanged.
Exchange == Permutations(Proc \ {InitProc})
=============================================================================
