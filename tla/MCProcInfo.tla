----------------------------- MODULE MCProcInfo ------------------------------
(* Instances of ProcInfo for TLC.                                          *)
EXTENDS ProcInfo
=============================================================================
