----------------------------- MODULE MlfqCompute -----------------------------
(* A processor-bound workload of the MLFQ, for liveness: init forks until the *)
(* table is full and then everybody computes.  Processes that call yield or   *)
(* sleep return to level 0 with a fresh quantum each time, so they are left   *)
(* out.                                                                       *)
EXTENDS Mlfq

\* Choosing a process takes far less than a tick: the timer finds the
\* scheduler without a process only when there is none to choose.
Timer == Tick /\ (running[BootCpu] # None \/ LevelsWithWork = {})

ComputeNext ==
    \/ Timer
    \/ \E c \in Cpu : \/ Schedule(c) \/ Preempt(c) \/ ForkCommits(c)
                      \/ \E p \in Proc : allocproc(c, p)
=============================================================================
