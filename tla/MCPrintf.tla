------------------------------ MODULE MCPrintf ------------------------------
(* Every word of eight bits, for which print_buf must hold a sign, three     *)
(* digits and a NUL.                                                         *)
EXTENDS Printf

EveryWord == 0 .. WordSize - 1
SomeWidths == 0 .. 6
=============================================================================
