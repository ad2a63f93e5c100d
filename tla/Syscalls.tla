------------------------------- MODULE Syscalls -------------------------------
(***************************************************************************)
(* app/syscalls.c with its two users: the shell, which is in one of its    *)
(* functions at a time, and the other tasks, which come between any two    *)
(* steps of the shell with interrupts or the scheduler off, and so one     *)
(* after the other.                                                        *)
(***************************************************************************)
EXTENDS Console, Heap

svars == <<vars, heapvars>>

SInit == Init /\ HeapInit

SNext ==
  \/ Next /\ (sbrk = "store" => ~EchoStep) /\ UNCHANGED heapvars
  \/ HeapNext /\ pc = "idle" /\ (sbrk' # sbrk => echo = "idle") /\ UNCHANGED vars

SSpec == SInit /\ [][SNext]_svars
=============================================================================
