----------------------------- MODULE MCMachine -----------------------------
(* Memory (two processes, five frames), the window manager (two programs,  *)
(* two windows), a spinlock (three processors, counters of two bits) and   *)
(* the start of three processors in one run.  No two share state, so a     *)
(* behaviour is one of any, as `part` says, and the others stand still.    *)
EXTENDS Memory, Windows, Spinlock, Processors

VARIABLE part

MachineInit ==
    /\ part \in {"memory", "windows", "lock", "processors"}
    /\ MemoryInit /\ WindowsInit /\ SpinlockInit /\ ProcessorsInit
MachineNext ==
    \/ /\ part = "memory" /\ MemoryNext
       /\ UNCHANGED <<part, windowVars, lockVars, processorVars>>
    \/ /\ part = "windows" /\ WindowsNext
       /\ UNCHANGED <<part, memoryVars, lockVars, processorVars>>
    \/ /\ part = "lock" /\ SpinlockNext
       /\ UNCHANGED <<part, memoryVars, windowVars, processorVars>>
    \/ /\ part = "processors" /\ ProcessorsNext
       /\ UNCHANGED <<part, memoryVars, windowVars, lockVars>>
MachineSpec ==
    MachineInit /\ [][MachineNext]_<<part, memoryVars, windowVars, lockVars,
                                     processorVars>>
=============================================================================
