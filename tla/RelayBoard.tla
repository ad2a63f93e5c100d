----------------------------- MODULE RelayBoard -----------------------------
(***************************************************************************)
(* The firmware of SpdtDrive together with the hardware it drives: the     *)
(* 12 V supply behind HVEnable and the two latching relays behind the coil *)
(* drivers.  The hardware is external to the repository: it is modelled    *)
(* from the delays the code grants it and the comments that explain them.  *)
(***************************************************************************)
EXTENDS SpdtDrive

CONSTANTS
  PowerUp,     \* ticks the supply takes to come up (hvOn: "about 40ms" of the 60)
  Throw        \* ticks a coil must be powered for the relay to latch

ASSUME HardwareAssumption == PowerUp \in 0 .. WarmUp /\ Throw \in 1 .. PulseTime

VARIABLES
  volts,       \* ticks HVEnable has been on, up to PowerUp
  energy,      \* ticks each coil has been powered, up to Throw
  relay,       \* the latched position of each relay: 1 is J1-Common
  alone        \* whether no other call has overlapped each task's call

boardvars == <<vars, volts, energy, relay, alone>>

BoardInit ==
  /\ Init
  /\ volts = 0
  /\ energy = [c \in Coils |-> 0]
  /\ relay \in [Switches -> Bit]
  /\ alone = [t \in Tasks |-> TRUE]

\* A coil is powered when the supply is up, the drivers are enabled and the
\* relay's other coil does not pull against it.
Powered(s, o) ==
  HVEnable = 1 /\ volts = PowerUp /\ SWEnable = 1 /\ Active(s, o) /\ ~Active(s, 1 - o)

\* Between ticks only the supply reacts, by collapsing when it is turned off.
NoTime ==
  /\ volts' = IF HVEnable' = 1 THEN volts ELSE 0
  /\ UNCHANGED <<energy, relay>>

\* A tick of power: the supply rises, powered coils gather energy and a relay
\* whose coil has gathered enough takes that coil's position.
OneTick ==
  /\ volts' = IF HVEnable' = 0 THEN 0 ELSE IF volts < PowerUp THEN volts + 1 ELSE volts
  /\ energy' = [c \in Coils |-> IF ~Powered(c[1], c[2]) THEN 0
                                ELSE IF energy[c] < Throw THEN energy[c] + 1 ELSE Throw]
  /\ relay' = [s \in Switches |-> IF energy'[<<s, 1>>] = Throw THEN 1
                                  ELSE IF energy'[<<s, 0>>] = Throw THEN 0 ELSE relay[s]]

Overlap ==
  alone' = [t \in Tasks |-> (pc[t] = "idle" \/ alone[t]) /\ \A u \in Tasks \ {t} : pc'[u] = "idle"]

BoardNext ==
  \/ (Boot \/ Call \/ \E t \in Tasks : Step(t)) /\ NoTime /\ Overlap
  \/ (Tick \/ vhvTimerExpired) /\ OneTick /\ Overlap

BoardSpec == BoardInit /\ [][BoardNext]_boardvars

-----------------------------------------------------------------------------
BoardTypeOK ==
  /\ TypeOK
  /\ volts \in 0 .. PowerUp
  /\ energy \in [Coils -> 0 .. Throw]
  /\ relay \in [Switches -> Bit]
  /\ alone \in [Tasks -> BOOLEAN]

Returns(t) == pc[t] = "disable" /\ pc'[t] = "idle" /\ boot' = "run"

\* s1_j1sel, s2_j1sel: "If on==1, select J1-Common, else select J2-Common": when
\* the call returns the relay is in the selected position.
SelectThrowsRelay == [][\A t \in Tasks : Returns(t) => relay[sw[t]] = on[t]]_boardvars

\* What is left of it: the relay is in the selected position if no other call
\* overlapped (SWEnable serves both relays and the first call to end clears it)
\* and the supply is still on when the call returns.
PoweredSelectThrowsRelay ==
  [][\A t \in Tasks : Returns(t) /\ alone[t] /\ HVEnable = 1 => relay[sw[t]] = on[t]]_boardvars

\* A relay only ever moves to the position a call in progress asks for, however
\* the pulses of the two tasks overlap.
RelayMovesOnRequest ==
  [][\A s \in Switches : relay'[s] # relay[s] =>
       \E t \in Tasks : Driving(t) /\ sw[t] = s /\ on[t] = relay'[s]]_boardvars

=============================================================================
