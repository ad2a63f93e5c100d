------------------------------ MODULE SpdtDrive ------------------------------
(***************************************************************************)
(* The part of the firmware that throws the two latching coax relays:      *)
(* app/spdt.c (the coil pulses), hvOn and its turn-off timer in app/bsp.c, *)
(* the boot-time polarity of readEEprom (app/cdcacm.c), and the two tasks  *)
(* that call them without a lock: the instrument task (CMD_SPDT over USB)  *)
(* and the debug shell (s1, s2, hv and reboot commands).                   *)
(*                                                                         *)
(* One action is one access to a pin, to hvState or to the timer, so that  *)
(* the two tasks, which FreeRTOS time-slices, interleave between any two   *)
(* of them.  Time is the RTOS tick.  The timer daemon runs above both      *)
(* tasks: its callback is one step, and so is the xTimerReset it serves.   *)
(***************************************************************************)
EXTENDS Integers

CONSTANTS
  Tasks,       \* the tasks that call the drive, out of "instr" and "shell"
  Targets,     \* Targets[t]: the switches that task t is asked to select
  ShellCmds,   \* the shell commands typed, out of "select", "hv0", "hv1", "reboot"
  WarmUp,      \* ticks of delayms(60) in hvOn
  PulseTime,   \* ticks of delayms(SW_DELAY)
  HVTimeout,   \* ticks of HVTimeout, the period of the turn-off timer
  MaxLag       \* ticks a ready task may be kept off the CPU between two steps

Switches == {"S1", "S2"}

ASSUME TasksAssumption ==
  Tasks \subseteq {"instr", "shell"} /\ Targets \in [Tasks -> SUBSET Switches]
ASSUME CmdsAssumption  == ShellCmds \subseteq {"select", "hv0", "hv1", "reboot"}
ASSUME TimesAssumption ==
  WarmUp \in Nat \ {0} /\ PulseTime \in Nat \ {0} /\ MaxLag \in Nat

\* 10000 ms against 80 ms: the six steps that follow xTimerReset, each late by
\* MaxLag, and the pulse itself fit in the timer's period.
ASSUME TimeoutAssumption ==
  HVTimeout \in Nat /\ HVTimeout > PulseTime + 6 * MaxLag

VARIABLES
  boot,        \* "s1", "s2": readEEprom is at that switch's byte; "run": configured
  pulseHigh,   \* s1_pulseHigh, s2_pulseHigh
  level,       \* level of the pins: level[<<"S1", 1>>] is S1U, level[<<"S1", 0>>] is S1D
  SWEnable,    \* the pin that gates all four coil drivers
  HVEnable,    \* the pin that turns the 12 V supply on
  hvState,     \* what hvOn believes of the supply
  timer,       \* ticks before vhvTimerExpired runs; 0 when the timer is dormant
  leds,        \* which of D4, D6 is lit
  pc,          \* the step each task executes next
  sw, on,      \* the call each task is in: the switch ("hv" for an hv command), on as in s1_j1sel
  delay,       \* ticks left of the vTaskDelay a task sleeps in
  lag          \* ticks a ready task has waited for the CPU

hvvars    == <<HVEnable, hvState, timer>>
pinvars   == <<level, SWEnable>>
bootvars  == <<boot, pulseHigh>>
callvars  == <<sw, on, leds>>
vars == <<hvvars, pinvars, bootvars, callvars, pc, delay, lag>>

Bit == {0, 1}
Coils == Switches \X Bit
Points == {"idle", "check", "power", "warmup", "warming", "reset", "enable",
           "clear", "set", "pulse", "pulsing", "disable", "off", "unmark"}

Active(s, o) == level[<<s, o>>] = pulseHigh[s]
Ready(t) == pc[t] # "idle" /\ delay[t] = 0

\* setupGPIOs and setupTimers: every pin low, the timer created dormant.
Init ==
  /\ boot = "s1"
  /\ pulseHigh = [s \in Switches |-> 1]
  /\ level = [c \in Coils |-> 0]
  /\ SWEnable = 0
  /\ HVEnable = 0 /\ hvState = 0 /\ timer = 0
  /\ leds = "none"
  /\ pc = [t \in Tasks |-> "idle"]
  /\ sw = [t \in Tasks |-> "hv"] /\ on = [t \in Tasks |-> 0]
  /\ delay = [t \in Tasks |-> 0] /\ lag = [t \in Tasks |-> 0]

-----------------------------------------------------------------------------
(* Boot: the USB task reads the polarity bytes before USB is configured,    *)
(* that is before either task can receive a command.                        *)

\* s1_setPulseHigh, s2_setPulseHigh
SetPulseHigh(s, setting) ==
  /\ SWEnable' = 0
  /\ pulseHigh' = [pulseHigh EXCEPT ![s] = setting]
  /\ level' = [c \in Coils |-> IF c[1] = s THEN 1 - setting ELSE level[c]]

\* No MAGIC in byte 0: the defaults stay.
NoMagic ==
  /\ boot = "s1" /\ boot' = "run"
  /\ UNCHANGED <<pulseHigh, pinvars, hvvars, callvars, pc, delay, lag>>

\* Bytes 0xE and 0xF; a byte that is neither 0 nor 1 leaves the default.
ReadPolarity(s) ==
  /\ boot = IF s = "S1" THEN "s1" ELSE "s2"
  /\ boot' = IF s = "S1" THEN "s2" ELSE "run"
  /\ \/ \E setting \in Bit : SetPulseHigh(s, setting)
     \/ UNCHANGED <<pulseHigh, pinvars>>
  /\ UNCHANGED <<hvvars, callvars, pc, delay, lag>>

-----------------------------------------------------------------------------
(* The calls.                                                               *)

Enter(t, point, s, o) ==
  /\ t \in Tasks /\ boot = "run" /\ pc[t] = "idle"
  /\ pc' = [pc EXCEPT ![t] = point]
  /\ sw' = [sw EXCEPT ![t] = s]
  /\ on' = [on EXCEPT ![t] = o]
  /\ UNCHANGED <<hvvars, pinvars, bootvars, delay, lag>>

\* CMD_SPDT: spdt_set lights D4 or D6 for SW1, then calls s1_j1sel or s2_j1sel.
spdt_set(s, o) ==
  /\ Enter("instr", "check", s, o)
  /\ s \in Targets["instr"]
  /\ leds' = IF s # "S1" THEN leds ELSE IF o = 1 THEN "D4" ELSE "D6"

\* Shell commands s1 and s2 call s1_j1sel and s2_j1sel themselves.
cmd_sw(s, o) ==
  /\ "select" \in ShellCmds
  /\ Enter("shell", "check", s, o)
  /\ s \in Targets["shell"]
  /\ UNCHANGED leds

\* Shell command hv.
cmd_hv(v) ==
  /\ (IF v = 1 THEN "hv1" ELSE "hv0") \in ShellCmds
  /\ Enter("shell", IF v = 1 THEN "check" ELSE "off", "hv", v)
  /\ UNCHANGED leds

\* Shell command reboot: everything starts afresh,
\* whatever the other task was doing.
cmd_reboot ==
  /\ "reboot" \in ShellCmds
  /\ "shell" \in Tasks /\ boot = "run" /\ pc["shell"] = "idle"
  /\ boot' = "s1"
  /\ pulseHigh' = [s \in Switches |-> 1]
  /\ level' = [c \in Coils |-> 0]
  /\ SWEnable' = 0
  /\ HVEnable' = 0 /\ hvState' = 0 /\ timer' = 0
  /\ leds' = "none"
  /\ pc' = [t \in Tasks |-> "idle"]
  /\ sw' = [t \in Tasks |-> "hv"] /\ on' = [t \in Tasks |-> 0]
  /\ delay' = [t \in Tasks |-> 0] /\ lag' = [t \in Tasks |-> 0]

-----------------------------------------------------------------------------
(* The steps inside a call.                                                 *)

\* Task t executes the step at `from' and goes on to `to'; the arguments are
\* forgotten when the call returns.
Goto(t, from, to) ==
  /\ pc[t] = from /\ delay[t] = 0
  /\ pc' = [pc EXCEPT ![t] = to]
  /\ lag' = [lag EXCEPT ![t] = 0]
  /\ sw' = IF to = "idle" THEN [sw EXCEPT ![t] = "hv"] ELSE sw
  /\ on' = IF to = "idle" THEN [on EXCEPT ![t] = 0] ELSE on

\* hvOn(1): if (! hvState)
HvCheck(t) ==
  /\ Goto(t, "check", IF hvState = 1 THEN "reset" ELSE "power")
  /\ UNCHANGED <<hvvars, pinvars, bootvars, leds, delay>>

\* gpio_set(HVEnable)
HvPower(t) ==
  /\ Goto(t, "power", "warmup")
  /\ HVEnable' = 1
  /\ UNCHANGED <<hvState, timer, pinvars, bootvars, leds, delay>>

\* Mutant: a warm-up shorter than the supply needs.
HvWarmUpShort(t) ==
  /\ Goto(t, "warmup", "warming")
  /\ delay' = [delay EXCEPT ![t] = 0]
  /\ UNCHANGED <<hvvars, pinvars, bootvars, leds>>

\* delayms(60)
HvWarmUp(t) ==
  /\ Goto(t, "warmup", "warming")
  /\ delay' = [delay EXCEPT ![t] = WarmUp]
  /\ UNCHANGED <<hvvars, pinvars, bootvars, leds>>

\* Mutant: the loop waits for hvState, which nobody sets.
HvMarkForgotten(t) ==
  /\ Goto(t, "warming", "check")
  /\ UNCHANGED <<hvvars, pinvars, bootvars, leds, delay>>

\* hvState=1
HvMark(t) ==
  /\ Goto(t, "warming", "reset")
  /\ hvState' = 1
  /\ UNCHANGED <<HVEnable, timer, pinvars, bootvars, leds, delay>>

\* Mutants: xTimerReset does not extend a running period, or is forgotten by hv.
HvStartOnly(t) ==
  /\ Goto(t, "reset", IF sw[t] = "hv" THEN "idle"
                      ELSE IF sw[t] = "S1" THEN "enable" ELSE "clear")
  /\ timer' = IF timer = 0 THEN HVTimeout ELSE timer
  /\ UNCHANGED <<HVEnable, hvState, pinvars, bootvars, leds, delay>>
HvResetNotByHv(t) ==
  /\ Goto(t, "reset", IF sw[t] = "hv" THEN "idle"
                      ELSE IF sw[t] = "S1" THEN "enable" ELSE "clear")
  /\ timer' = IF sw[t] = "hv" THEN timer ELSE HVTimeout
  /\ UNCHANGED <<HVEnable, hvState, pinvars, bootvars, leds, delay>>

\* xTimerReset: starts the timer, or starts its period again; then hvOn
\* returns to the shell, to s1_j1sel (which sets SWEnable first) or to
\* s2_j1sel (which sets it after the coil).
HvReset(t) ==
  /\ Goto(t, "reset", IF sw[t] = "hv" THEN "idle"
                      ELSE IF sw[t] = "S1" THEN "enable" ELSE "clear")
  /\ timer' = HVTimeout
  /\ UNCHANGED <<HVEnable, hvState, pinvars, bootvars, leds, delay>>

\* hvOn(0): gpio_clear(HVEnable); the timer is left as it is.
HvOff(t) ==
  /\ Goto(t, "off", "unmark")
  /\ HVEnable' = 0
  /\ UNCHANGED <<hvState, timer, pinvars, bootvars, leds, delay>>

\* hvState=0
HvUnmark(t) ==
  /\ Goto(t, "unmark", "idle")
  /\ hvState' = 0
  /\ UNCHANGED <<HVEnable, timer, pinvars, bootvars, leds, delay>>

\* gpio_set(SWEnable)
Enable(t) ==
  /\ Goto(t, "enable", IF sw[t] = "S1" THEN "clear" ELSE "pulse")
  /\ SWEnable' = 1
  /\ UNCHANGED <<level, hvvars, bootvars, leds, delay>>

\* The opposite coil is put to its idle level ...
ClearOpposite(t) ==
  /\ Goto(t, "clear", "set")
  /\ level' = [level EXCEPT ![<<sw[t], 1 - on[t]>>] = 1 - pulseHigh[sw[t]]]
  /\ UNCHANGED <<SWEnable, hvvars, bootvars, leds, delay>>

\* Mutant: the two coils swapped.
SetOtherCoil(t) ==
  /\ Goto(t, "set", IF sw[t] = "S1" THEN "pulse" ELSE "enable")
  /\ level' = [level EXCEPT ![<<sw[t], 1 - on[t]>>] = pulseHigh[sw[t]]]
  /\ UNCHANGED <<SWEnable, hvvars, bootvars, leds, delay>>

\* ... and the selected one to its active level.
SetCoil(t) ==
  /\ Goto(t, "set", IF sw[t] = "S1" THEN "pulse" ELSE "enable")
  /\ level' = [level EXCEPT ![<<sw[t], on[t]>>] = pulseHigh[sw[t]]]
  /\ UNCHANGED <<SWEnable, hvvars, bootvars, leds, delay>>

\* delayms(SW_DELAY)
Pulse(t) ==
  /\ Goto(t, "pulse", "pulsing")
  /\ delay' = [delay EXCEPT ![t] = PulseTime]
  /\ UNCHANGED <<hvvars, pinvars, bootvars, leds>>

\* Mutant: the idle level taken to be low whatever the polarity.
LowCoil(t) ==
  /\ Goto(t, "pulsing", "disable")
  /\ level' = [level EXCEPT ![<<sw[t], on[t]>>] = 0]
  /\ UNCHANGED <<SWEnable, hvvars, bootvars, leds, delay>>

\* The selected coil goes back to its idle level: latching relays.
IdleCoil(t) ==
  /\ Goto(t, "pulsing", "disable")
  /\ level' = [level EXCEPT ![<<sw[t], on[t]>>] = 1 - pulseHigh[sw[t]]]
  /\ UNCHANGED <<SWEnable, hvvars, bootvars, leds, delay>>

\* gpio_clear(SWEnable) and return
Disable(t) ==
  /\ Goto(t, "disable", "idle")
  /\ SWEnable' = 0
  /\ UNCHANGED <<level, hvvars, bootvars, leds, delay>>

Step(t) ==
  \/ HvCheck(t) \/ HvPower(t) \/ HvWarmUp(t) \/ HvMark(t) \/ HvReset(t)
  \/ HvOff(t) \/ HvUnmark(t)
  \/ Enable(t) \/ ClearOpposite(t) \/ SetCoil(t) \/ Pulse(t)
  \/ IdleCoil(t) \/ Disable(t)

-----------------------------------------------------------------------------
(* Time.                                                                    *)

\* A tick interrupt: sleepers count down, ready tasks wait.
TickTasks ==
  /\ \A t \in Tasks : Ready(t) => lag[t] < MaxLag
  /\ delay' = [t \in Tasks |-> IF delay[t] = 0 THEN 0 ELSE delay[t] - 1]
  /\ lag' = [t \in Tasks |-> IF Ready(t) THEN lag[t] + 1 ELSE lag[t]]
  /\ UNCHANGED <<pinvars, bootvars, callvars, pc>>

\* Mutant: a dormant timer counts on.
TickDormant ==
  /\ timer # 1
  /\ TickTasks
  /\ timer' = timer - 1
  /\ UNCHANGED <<HVEnable, hvState>>

Tick ==
  /\ timer # 1
  /\ TickTasks
  /\ timer' = IF timer = 0 THEN 0 ELSE timer - 1
  /\ UNCHANGED <<HVEnable, hvState>>

\* Mutant: the callback stops the timer and leaves the supply on.
ExpiredLeavesOn ==
  /\ timer = 1
  /\ TickTasks
  /\ timer' = 0 /\ hvState' = 0
  /\ UNCHANGED HVEnable

\* The tick at which the timer runs out: the daemon preempts both tasks, stops
\* the timer and calls hvOn(0).
vhvTimerExpired ==
  /\ timer = 1
  /\ TickTasks
  /\ timer' = 0
  /\ HVEnable' = 0 /\ hvState' = 0

-----------------------------------------------------------------------------
Boot == NoMagic \/ \E s \in Switches : ReadPolarity(s)

Call == \/ \E s \in Switches, o \in Bit : spdt_set(s, o) \/ cmd_sw(s, o)
        \/ \E v \in Bit : cmd_hv(v)
        \/ cmd_reboot

Next == \/ Boot
        \/ Call
        \/ \E t \in Tasks : Step(t)
        \/ Tick \/ vhvTimerExpired

Spec == Init /\ [][Next]_vars

\* The scheduler runs every ready task and the tick interrupt never stops.
Fairness == /\ WF_vars(Boot)
            /\ \A t \in Tasks : WF_vars(Step(t))
            /\ WF_vars(Tick \/ vhvTimerExpired)
FairSpec == Spec /\ Fairness

-----------------------------------------------------------------------------
(* What the drive promises.                                                 *)

\* Every variable stays in its range; in particular no task is kept waiting
\* longer than MaxLag and no delay or timer exceeds its period.
TypeOK ==
  /\ boot \in {"s1", "s2", "run"}
  /\ pulseHigh \in [Switches -> Bit]
  /\ level \in [Coils -> Bit]
  /\ SWEnable \in Bit /\ HVEnable \in Bit /\ hvState \in Bit
  /\ timer \in 0 .. HVTimeout
  /\ leds \in {"none", "D4", "D6"}
  /\ pc \in [Tasks -> Points]
  /\ sw \in [Tasks -> Switches \cup {"hv"}]
  /\ on \in [Tasks -> Bit]
  /\ delay \in [Tasks -> Nat]
  /\ lag \in [Tasks -> 0 .. MaxLag]

\* Task t has put the coil of its call to the active level and not yet back.
Driving(t) ==
  \/ pc[t] \in {"pulse", "pulsing"}
  \/ pc[t] = "enable" /\ sw[t] = "S2"

\* Task t has set SWEnable and not yet cleared it.
Enabling(t) ==
  \/ pc[t] \in {"pulse", "pulsing", "disable"}
  \/ pc[t] \in {"clear", "set"} /\ sw[t] = "S1"

\* Task t is past the xTimerReset of a selection.
Selecting(t) == pc[t] \in {"enable", "clear", "set", "pulse", "pulsing", "disable"}

\* A coil at its active level belongs to a call that is about to take it back,
\* and SWEnable is on only inside a call: however the calls of the two tasks
\* interleave, and after a reboot with any polarity, no coil is left energised.
NoCoilLeftOn ==
  /\ \A s \in Switches, o \in Bit :
       Active(s, o) => \E t \in Tasks : Driving(t) /\ sw[t] = s /\ on[t] = o
  /\ SWEnable = 1 => \E t \in Tasks : Enabling(t)

\* The supply is never on without the turn-off timer running, but for a call
\* that has just turned it on and will start the timer: hvOn cannot leave the
\* supply on for good.
HvAlwaysTimed ==
  HVEnable = 1 => timer > 0 \/ \E t \in Tasks : pc[t] \in {"warmup", "warming", "reset"}

\* From the xTimerReset of a selection to its return the timer cannot expire:
\* the turn-off timer cuts no pulse that began after it was reset.
TimerSparesPulse == \A t \in Tasks : Selecting(t) => timer > 0

\* The inductive strengthening of the three invariants.  Commands run only once
\* the device is configured; a task past xTimerReset has a switch to select and
\* sleeps only inside its two delays, with no lag yet ...
CallsInOrder ==
  /\ boot # "run" => \A t \in Tasks : pc[t] = "idle"
  /\ \A t \in Tasks :
       /\ Selecting(t) => sw[t] \in Switches
       /\ delay[t] > 0 => pc[t] \in {"warming", "pulsing"}

\* ... and the timer has left at least what the task may still need: its
\* remaining steps, each late by MaxLag, and what remains of the pulse.
TimerCovers(t, steps, sleep) == timer + lag[t] > steps * MaxLag + sleep
TimerBudget ==
  \A t \in Tasks :
    /\ pc[t] = "enable" /\ sw[t] = "S1" => TimerCovers(t, 6, PulseTime)
    /\ pc[t] = "clear"  /\ sw[t] = "S1" => TimerCovers(t, 5, PulseTime)
    /\ pc[t] = "set"    /\ sw[t] = "S1" => TimerCovers(t, 4, PulseTime)
    /\ pc[t] = "clear"  /\ sw[t] = "S2" => TimerCovers(t, 6, PulseTime)
    /\ pc[t] = "set"    /\ sw[t] = "S2" => TimerCovers(t, 5, PulseTime)
    /\ pc[t] = "enable" /\ sw[t] = "S2" => TimerCovers(t, 4, PulseTime)
    /\ pc[t] = "pulse"   => TimerCovers(t, 3, PulseTime)
    /\ pc[t] = "pulsing" => TimerCovers(t, 2, delay[t])
    /\ pc[t] = "disable" => TimerCovers(t, 1, 0)

IndInv == TypeOK /\ CallsInOrder /\ NoCoilLeftOn /\ HvAlwaysTimed /\ TimerBudget

\* Once the callers stay idle, the supply goes off and stays off.
SupplyGoesOff == <>[](\A t \in Tasks : pc[t] = "idle") => <>[](HVEnable = 0)

\* Every call returns: neither the other task nor the timer can hold it up.
CallsReturn == \A t \in Tasks : pc[t] # "idle" ~> pc[t] = "idle"

=============================================================================
