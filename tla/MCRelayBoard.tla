----------------------------- MODULE MCRelayBoard -----------------------------
(* The sets of callers and commands of the runs of RelayBoard.               *)
EXTENDS RelayBoard

BothTasks == {"instr", "shell"}
OnlyInstr == {"instr"}
BothSwitches == [t \in Tasks |-> Switches]
AllCmds == {"select", "hv0", "hv1", "reboot"}
Selects == {"select"}
=============================================================================
