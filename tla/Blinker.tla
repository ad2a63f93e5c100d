------------------------------- MODULE Blinker -------------------------------
(***************************************************************************)
(* The red light and those who set it: id_blink and the task it creates    *)
(* and deletes (app/instr_task.c), the task that shows the state of the    *)
(* USB (app/main.c), and writePacket, which lights it while it sends.      *)
(***************************************************************************)
EXTENDS Naturals

VARIABLES
  IDBlinkOn,
  xIDBlinkerTaskHandle,  \* 0 for NULL
  blinker,               \* the blinker task: "none", "test", "dark", "returned"
  red                    \* the red light

blinkvars == <<IDBlinkOn, xIDBlinkerTaskHandle, blinker, red>>

\* vLEDTask1 keeps the light on until the host has configured the device.
BlinkerInit ==
  /\ IDBlinkOn = 0 /\ xIDBlinkerTaskHandle = 0 /\ blinker = "none"
  /\ red = 1

\* id_blink(1) creates the task, unless there is one.
BlinkOn ==
  IF xIDBlinkerTaskHandle = 0
    THEN IDBlinkOn' = 1 /\ xIDBlinkerTaskHandle' = 1 /\ blinker' = "test"
    ELSE UNCHANGED <<IDBlinkOn, xIDBlinkerTaskHandle, blinker>>

\* id_blink(0) asks the task to end, waits 100 ms ...
AskToEnd ==
  /\ IDBlinkOn' = 0
  /\ UNCHANGED <<xIDBlinkerTaskHandle, blinker>>

\* Mutant: the task is believed to be gone when it has returned.
ForgetBlinker ==
  /\ xIDBlinkerTaskHandle' = 0
  /\ UNCHANGED <<blinker, IDBlinkOn>>

\* ... and deletes it, wherever it is by then.
DeleteBlinker ==
  /\ blinker' = "none" /\ xIDBlinkerTaskHandle' = 0
  /\ UNCHANGED IDBlinkOn

\* vIDBlinkerTask.  Its function returns, which FreeRTOS does not provide for:
\* configASSERT lights the red light and spins, or the kernel spins silently.
BlinkDark ==
  /\ blinker = "test" /\ IDBlinkOn = 1
  /\ blinker' = "dark" /\ red' = 0
  /\ UNCHANGED <<IDBlinkOn, xIDBlinkerTaskHandle>>
BlinkLit ==
  /\ blinker = "dark" /\ blinker' = "test" /\ red' = 1
  /\ UNCHANGED <<IDBlinkOn, xIDBlinkerTaskHandle>>
BlinkReturn ==
  /\ blinker = "test" /\ IDBlinkOn = 0
  /\ blinker' = "returned" /\ red' \in {red, 1}
  /\ UNCHANGED <<IDBlinkOn, xIDBlinkerTaskHandle>>

vIDBlinkerTask == BlinkDark \/ BlinkLit \/ BlinkReturn

\* Mutant: the configured device shows the green light only.
GreenOnly == red = 1 /\ UNCHANGED blinkvars

\* vLEDTask1, once a second.
vLEDTask1 ==
  /\ red = 1 /\ red' = 0
  /\ UNCHANGED <<IDBlinkOn, xIDBlinkerTaskHandle, blinker>>
=============================================================================
