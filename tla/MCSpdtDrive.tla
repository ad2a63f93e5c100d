----------------------------- MODULE MCSpdtDrive -----------------------------
(* The sets of callers and commands of the run of SpdtDrive.                *)
EXTENDS SpdtDrive

BothTasks == {"instr", "shell"}
OneShared == [t \in Tasks |-> IF t = "instr" THEN {"S1"} ELSE Switches]
AllCmds == {"select", "hv0", "hv1", "reboot"}
=============================================================================
