-------------------------------- MODULE Device --------------------------------
(***************************************************************************)
(* The device from the start of its scheduler on: the tasks come up        *)
(* (Startup), and then serve the host (CommandLink).  Programs on the host *)
(* find the device only some time after it has been configured.            *)
(***************************************************************************)
EXTENDS CommandLink, Startup

devicevars == <<vars, startvars>>

DInit == Init /\ StartInit
DNext == \/ StartNext /\ UNCHANGED vars
         \/ Started /\ Next /\ UNCHANGED startvars
DSpec == DInit /\ [][DNext]_devicevars

\* The tasks come up, and the host configures the device.  Then the interrupt is taken, the scheduler runs every
\* task, a poll that finds a packet waiting gets to it in the end, and a host
\* process goes on inside send_packet; nothing makes a host call again.
Fairness ==
  /\ WF_startvars(StartNext) /\ WF_startvars(cdcacm_set_config)
  /\ WF_vars(Started /\ otg_fs_isr) /\ WF_vars(Started /\ UsbTask)
  /\ WF_vars(Started /\ InstrTask) /\ SF_vars(Started /\ PollOut)
  /\ WF_vars(Started /\ BlinkTask) /\ WF_vars(Started /\ LEDTask)
  /\ WF_vars(Started /\ BulkWrite) /\ WF_vars(Started /\ BulkRead)
DFairSpec == DSpec /\ Fairness
=============================================================================
