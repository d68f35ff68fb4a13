---------------------------- MODULE MCProcTable -----------------------------
(* Instances of ProcTable for TLC.                                         *)
EXTENDS ProcTable, TLC

\* Every CPU runs the same scheduler().
CPUSymmetry == Permutations(CPUs)
=============================================================================
