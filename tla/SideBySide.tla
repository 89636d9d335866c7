----------------------------- MODULE SideBySide -----------------------------
(* Three parts that share no variable and no lock, for any values of their    *)
(* constants: the frames of project 2, the module this one extends, the       *)
(* accounts of project 3, and locks and switches, which are the same in both. *)
EXTENDS Memory

CONSTANTS Cpu, BootCpu, Victim,
          Job, Id, Root, Password, RootPassword, Nusers,
          None

VARIABLES
    usertable, cached, disk, console, copy, session, calls, background,
    owner, spinning, iflag, ncli, intena, proc, pc, trap, saved,
    procstate, parent, chan, killed, stack, np, early

U == INSTANCE Users WITH l <- calls
K == INSTANCE Switch WITH state <- procstate, kstack <- stack

ASSUME MemoryAssumption == ConstantsAssumption
ASSUME UsersAssumption == U!ConstantsAssumption
ASSUME SwitchAssumption == K!ConstantsAssumption

-----------------------------------------------------------------------------
(* The properties of Users: what is stored is what is in memory, and accounts *)
(* are added and deleted at once and for good.                                *)
StoredWhenQuiet == U!StoredWhenQuiet
ImplementsAccounts == U!ImplementsAccounts

(* The properties of Switch: no panic, interrupts on and off as they were,    *)
(* no wakeup lost.                                                            *)
NoPanic == K!NoPanic
InterruptsAsBefore == K!InterruptsAsBefore
NoLostWakeup == K!NoLostWakeup
=============================================================================
