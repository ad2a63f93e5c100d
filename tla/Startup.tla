------------------------------- MODULE Startup -------------------------------
(***************************************************************************)
(* From vTaskStartScheduler until the host has configured the device and   *)
(* every task waits.  main creates the tasks, but it is the USB task that  *)
(* creates the two queues on which the shell and the instrument task wait; *)
(* a wait on a queue that is not there ends in configASSERT.  Under        *)
(* FreeRTOS, tasks of one priority run in turn, from the first created; a  *)
(* task gives way when it waits, when it yields, and when the tick finds   *)
(* it still running.                                                       *)
(***************************************************************************)
EXTENDS Naturals, Sequences

CONSTANT Slice \* statements, as counted here, that fit into a tick of 2 ms at least

\* The timer task waits and two queues are created in a few microseconds.
ASSUME SliceAssumption == Slice \in Nat /\ Slice >= 3

VARIABLES
  running,   \* the task that has the CPU
  ready,     \* tasks of priority 1 in the order in which they will run
  done,      \* how many of its statements each task has done
  slice,     \* statements since the last tick, up to Slice
  objects,   \* kernel objects that exist; "USBConfigured" once that flag is set
  asserted   \* tasks that hang in configASSERT

startvars == <<running, ready, done, slice, objects, asserted>>

\* Mutant: main creates the USB task after the shell.
ShellCreatedFirst == <<"led", "shell", "usb", "instr">>

\* main creates the tasks in this order.
TaskOrder == <<"usb", "led", "shell", "instr">>
Tasks == {"usb", "led", "shell", "instr", "timer", "idle"}

\* The timer task, whose priority is the highest, runs before all others.
First == "timer"

Create(o) == [op |-> "create", object |-> o]
Await(o)   == [op |-> "wait", object |-> o]
Poll      == [op |-> "poll", object |-> "USBConfigured"]
Work      == [op |-> "work", object |-> "none"]

\* What each task does before it waits for good.  The work of the USB task is
\* readEEprom, and usbd_init with the interrupt enabled after it; that of the
\* shell is malloc and the prompt.
Program == [
  usb   |-> <<Create("UARTinQ"), Create("CTRLinQ"), Work, Create("usbInterrupted"),
              Work, Await("usbInterrupted")>>,
  led   |-> <<Poll, Await("delay")>>,
  shell |-> <<Work, Await("UARTinQ")>>,
  instr |-> <<Poll, Await("CTRLinQ")>>,
  timer |-> <<Await("TimerQ")>>,
  idle  |-> <<>>]

\* setupTimers has created the timer, and with it the queue of the timer task.
StartInit ==
  /\ running = First /\ ready = TaskOrder
  /\ done = [t \in Tasks |-> 0] /\ slice = 0
  /\ objects = {"TimerQ", "delay"} /\ asserted = {}

-----------------------------------------------------------------------------
\* The statement that the running task is at, if it has not done them all.
Pending == done[running] < Len(Program[running])
Now == Program[running][done[running] + 1]

\* The CPU goes to the first of r.
SwitchTo(r) ==
  IF r = <<>> THEN running' = "idle" /\ ready' = <<>>
  ELSE running' = Head(r) /\ ready' = Append(Tail(r), Head(r))

TakesTime ==
  slice' = IF running' = "idle" THEN 0 ELSE IF slice < Slice THEN slice + 1 ELSE slice

\* The tasks that remain ready when the running one, the last in turn, waits.
Others == IF running = "timer" THEN ready ELSE SubSeq(ready, 1, Len(ready) - 1)

Statement ==
  /\ Pending /\ Now.op # "wait" /\ (Now.op = "poll" => Now.object \in objects)
  /\ done' = [done EXCEPT ![running] = @ + 1]
  /\ objects' = IF Now.op = "create" THEN objects \cup {Now.object} ELSE objects
  /\ UNCHANGED <<running, ready, asserted>>
  /\ TakesTime

\* xQueueReceive, xSemaphoreTake
Wait ==
  /\ Pending /\ Now.op = "wait" /\ Now.object \in objects
  /\ done' = [done EXCEPT ![running] = @ + 1]
  /\ SwitchTo(Others) /\ TakesTime
  /\ UNCHANGED <<objects, asserted>>

\* The task spins in the assertion, until the tick takes the CPU from it.
Assert ==
  /\ Pending /\ Now.op = "wait" /\ Now.object \notin objects
  /\ asserted' = asserted \cup {running} /\ slice' = Slice
  /\ UNCHANGED <<running, ready, done, objects>>

\* Mutant: the task has a priority of its own, and yields to nobody.
YieldToNobody == Pending /\ Now.op = "poll" /\ Now.object \notin objects /\ UNCHANGED startvars

\* vLEDTask1 and vInstrumentTask until USBConfigured is set
Yield ==
  /\ Pending /\ Now.op = "poll" /\ Now.object \notin objects
  /\ SwitchTo(ready) /\ TakesTime
  /\ UNCHANGED <<done, objects, asserted>>

\* The tick; there is no other task of the timer task's priority.
Preempt ==
  /\ slice = Slice /\ running \notin {"timer", "idle"}
  /\ SwitchTo(ready) /\ slice' = 0
  /\ UNCHANGED <<done, objects, asserted>>

\* The host configures the device; the USB task wakes up for it in between.
cdcacm_set_config ==
  /\ done["usb"] = Len(Program["usb"]) /\ "USBConfigured" \notin objects
  /\ objects' = objects \cup {"USBConfigured"}
  /\ UNCHANGED <<running, ready, done, slice, asserted>>

\* Every task waits.
Started == running = "idle"

StartNext == Statement \/ Wait \/ Assert \/ Yield \/ Preempt \/ cdcacm_set_config

-----------------------------------------------------------------------------
\* No task finds the queue missing on which it is to wait, wherever the tick
\* interrupts the USB task that creates them.
NobodyAsserts == asserted = {}

\* With a host that configures the device every task comes to its wait, although
\* two of them never stop before.
StartsUp == <>Started
=============================================================================
