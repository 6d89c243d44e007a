------------------------------ MODULE Processes ------------------------------
(****************************************************************************)
(* The slots of the process table (tk_process_table of process.c), for the  *)
(* modules about what runs and about what is mapped.                        *)
(****************************************************************************)
EXTENDS Integers

CONSTANT MAX_PROCESSES    \* slots of tk_process_table, the kernel's included

ASSUME ProcessesAssumption == MAX_PROCESSES \in Nat /\ MAX_PROCESSES >= 2

Kernel == 1
Procs == 1..MAX_PROCESSES
Users == Procs \ {Kernel}
NoProc == 0
=============================================================================
