------------------------------ MODULE MCConsole ------------------------------
(* The lengths and sizes of the run of Syscalls.                             *)
EXTENDS Syscalls

WriteLengths == {1, 2}
BlockSizes == {3, 6}
=============================================================================
