------------------------------ MODULE FairParts ------------------------------
(* Two parts that share no variable and no lock, for any values of their      *)
(* constants: the MULTILEVEL scheduler, the module this one extends, and the  *)
(* log.                                                                       *)
EXTENDS Multilevel

CONSTANTS Caller, Block, Data, InitialData, NotCached,
          MaxOpBlocks, OpBlocks, LogSize, Nlog

VARIABLES
    home, slot, head, cache, dirty, lh, outstanding, committing, doing, tail, at, written

L == INSTANCE Log WITH Proc <- Caller

ASSUME LogAssumption == L!ConstantsAssumption

-----------------------------------------------------------------------------
(* The properties of Log: groups of calls are atomic and durable, and nobody  *)
(* waits for room for ever.                                                   *)
ImplementsAtomicDisk == L!ImplementsAtomicDisk
SleepersAreWoken == L!SleepersAreWoken
=============================================================================
