----------------------------- MODULE MCFairParts -----------------------------
(* The parts of FairParts and the MLFQ with processes that compute, each with *)
(* the fairness it asks for.  part says whose behaviour this is; the others   *)
(* stay in their initial state, which changes nothing for it.                 *)
EXTENDS FairParts
CONSTANTS c0, c1, caller1, caller2, caller3, b1, b2, init, proc2, proc3, proc4

TwoCpus == {c0, c1}
Callers == {caller1, caller2, caller3}
TwoBlocks == {b1, b2}
Bits == {0, 1}

VARIABLES
    part,
    procstate, parent, chan, priority, qlevel, qtime, forking, yielding,
    queue, cproc, parked, onCpu, ticks, boost, inTimer

\* 2*i+4 scaled down: quanta of one, two and three ticks.  Three processes take six
\* ticks to use up their quantum at level 0, and 7 is the shortest boost period
\* for which the fourth gets the processor.
Levels == 3
C == INSTANCE MlfqCompute WITH
        Proc <- {init, proc2, proc3, proc4}, InitProc <- init,
        Cpu <- {c0}, BootCpu <- c0,
        K <- Levels, Quantum <- [lev \in 0..Levels - 1 |-> lev + 1],
        BoostPeriod <- 7, Priority <- {0},
        state <- procstate, embryo <- forking, tmp <- parked, running <- onCpu

ASSUME C!ConstantsAssumption

logvars == <<home, slot, head, cache, dirty, lh, outstanding, committing,
             doing, tail, at, written>>
computevars == <<procstate, parent, chan, priority, qlevel, qtime, forking, yielding,
                 queue, cproc, parked, onCpu, ticks, boost, inTimer>>
allvars == <<part, vars, logvars, computevars>>

MCInit ==
    /\ part \in {"multilevel", "log", "compute"}
    /\ Init
    /\ L!Init
    /\ C!Init

MCNext ==
    /\ UNCHANGED part
    /\ \/ part = "multilevel" /\ Next /\ UNCHANGED <<logvars, computevars>>
       \/ part = "log" /\ L!Next /\ UNCHANGED <<vars, computevars>>
       \/ part = "compute" /\ C!ComputeNext /\ UNCHANGED <<vars, logvars>>

\* Fairness of Multilevel: scheduler() loops for ever, and the timer takes every
\* process off its processor in the end.
MultilevelFairness ==
    \A c \in Cpu : /\ WF_vars(part = "multilevel" /\ Schedule(c))
                  /\ WF_vars(part = "multilevel" /\ yield(c))

\* Of Log: the disk answers, and a process in a call gets the processor and
\* returns.
LogFairness ==
    /\ WF_logvars(part = "log" /\ L!commit)
    /\ WF_logvars(part = "log" /\ L!recover_from_log)
    /\ \A p \in Caller : /\ WF_logvars(part = "log" /\ L!end_op(p))
                        /\ WF_logvars(part = "log" /\ L!end_op_done(p))

\* Of the MLFQ: the timer keeps interrupting, a timer handler runs to its end,
\* and scheduler() keeps looping.
ComputeFairness ==
    /\ WF_computevars(part = "compute" /\ C!Timer)
    /\ WF_computevars(part = "compute" /\ C!Schedule(c0))
    /\ WF_computevars(part = "compute" /\ C!Preempt(c0))

MCSpec == /\ MCInit /\ [][MCNext]_allvars
          /\ MultilevelFairness /\ LogFairness /\ ComputeFairness

(* Nobody who computes is starved by the MLFQ, as long as a boost period is   *)
(* long enough for everybody else to use up the quantum of level 0: whoever   *)
(* is runnable gets the processor.                                            *)
EveryRunnableRuns ==
    \A p \in {init, proc2, proc3, proc4} :
        part = "compute" /\ procstate[p] = "RUNNABLE" ~> procstate[p] = "RUNNING"
=============================================================================
