-------------------------- MODULE RelayBoardProofs --------------------------
(***************************************************************************)
(* The drive, and then the board.  IndInv of SpdtDrive is inductive, for   *)
(* any callers and commands and any times that satisfy the assumptions:    *)
(* one lemma per conjunct, each with one step per action.  The board       *)
(* behaves as its drive, so that what is proved of the drive holds on the  *)
(* board, and from that: a relay moves only as requested, and a selection  *)
(* that is alone and keeps its supply throws its relay.                    *)
(***************************************************************************)
EXTENDS RelayBoard, TLAPS

-----------------------------------------------------------------------------
(* The drive.                                                               *)

\* Every step of the drive keeps every variable in its range.
LEMMA TypeStep == ASSUME TypeOK, CallsInOrder, [Next]_vars PROVE TypeOK'
<1> USE TasksAssumption, TimesAssumption, TimeoutAssumption
        DEF TypeOK, Switches, Bit, Coils, Points
<1>1. CASE NoMagic
  BY <1>1 DEF NoMagic, pinvars, hvvars, callvars
<1>2. ASSUME NEW s \in Switches, ReadPolarity(s) PROVE TypeOK'
  BY <1>2 DEF ReadPolarity, SetPulseHigh, pinvars, hvvars, callvars
<1>3. ASSUME NEW s \in Switches, NEW o \in Bit, spdt_set(s, o) PROVE TypeOK'
  BY <1>3 DEF spdt_set, Enter, pinvars, hvvars, bootvars
<1>4. ASSUME NEW s \in Switches, NEW o \in Bit, cmd_sw(s, o) PROVE TypeOK'
  BY <1>4 DEF cmd_sw, Enter, pinvars, hvvars, bootvars
<1>5. ASSUME NEW v \in Bit, cmd_hv(v) PROVE TypeOK'
  BY <1>5 DEF cmd_hv, Enter, pinvars, hvvars, bootvars
<1>6. CASE cmd_reboot
  BY <1>6 DEF cmd_reboot
<1>7. ASSUME NEW t \in Tasks,
             HvCheck(t) \/ HvPower(t) \/ HvWarmUp(t) \/ HvMark(t) \/ HvOff(t) \/ HvUnmark(t)
      PROVE  TypeOK'
  BY <1>7 DEF HvCheck, HvPower, HvWarmUp, HvMark, HvOff, HvUnmark, Goto,
              hvvars, pinvars, bootvars
<1>8. ASSUME NEW t \in Tasks, HvReset(t) PROVE TypeOK'
  BY <1>8 DEF HvReset, Goto, pinvars, bootvars
<1>9. ASSUME NEW t \in Tasks, Enable(t) PROVE TypeOK'
  BY <1>9 DEF Enable, Goto, hvvars, bootvars
<1>10. ASSUME NEW t \in Tasks, ClearOpposite(t) PROVE TypeOK'
  BY <1>10 DEF ClearOpposite, Goto, hvvars, bootvars, CallsInOrder, Selecting
<1>11. ASSUME NEW t \in Tasks, SetCoil(t) PROVE TypeOK'
  BY <1>11 DEF SetCoil, Goto, hvvars, bootvars, CallsInOrder, Selecting
<1>12. ASSUME NEW t \in Tasks, Pulse(t) PROVE TypeOK'
  BY <1>12 DEF Pulse, Goto, hvvars, pinvars, bootvars
<1>13. ASSUME NEW t \in Tasks, IdleCoil(t) PROVE TypeOK'
  BY <1>13 DEF IdleCoil, Goto, hvvars, bootvars, CallsInOrder, Selecting
<1>14. ASSUME NEW t \in Tasks, Disable(t) PROVE TypeOK'
  BY <1>14 DEF Disable, Goto, hvvars, bootvars
<1>15. TickTasks => /\ delay' \in [Tasks -> Nat]
                    /\ lag' \in [Tasks -> 0 .. MaxLag]
  BY DEF TickTasks, Ready
<1>16. CASE Tick \/ vhvTimerExpired
  <2>1. /\ HVEnable' \in Bit /\ hvState' \in Bit
        /\ timer' \in 0 .. HVTimeout
    BY <1>16 DEF Tick, vhvTimerExpired
  <2>2. TickTasks
    BY <1>16 DEF Tick, vhvTimerExpired
  <2>3. QED
    BY <1>15, <2>1, <2>2 DEF TickTasks, pinvars, bootvars, callvars
<1>17. CASE UNCHANGED vars
  BY <1>17 DEF vars, hvvars, pinvars, bootvars, callvars
<1>18. QED
  BY <1>1, <1>2, <1>3, <1>4, <1>5, <1>6, <1>7, <1>8, <1>9, <1>10, <1>11, <1>12,
     <1>13, <1>14, <1>16, <1>17 DEF Next, Boot, Call, Step
\* A command is only served once the device is configured, and a call takes its
\* steps in the order of the code.
LEMMA CallsStep == ASSUME TypeOK, CallsInOrder, [Next]_vars PROVE CallsInOrder'
<1> USE TasksAssumption, TimesAssumption, TimeoutAssumption
        DEF TypeOK, Switches, Bit, Coils, Points, CallsInOrder, Selecting
<1>1. CASE NoMagic
  BY <1>1 DEF NoMagic, pinvars, hvvars, callvars
<1>2. ASSUME NEW s \in Switches, ReadPolarity(s) PROVE CallsInOrder'
  BY <1>2 DEF ReadPolarity, SetPulseHigh, pinvars, hvvars, callvars
<1>3. ASSUME NEW s \in Switches, NEW o \in Bit, spdt_set(s, o) PROVE CallsInOrder'
  BY <1>3 DEF spdt_set, Enter, pinvars, hvvars, bootvars
<1>4. ASSUME NEW s \in Switches, NEW o \in Bit, cmd_sw(s, o) PROVE CallsInOrder'
  BY <1>4 DEF cmd_sw, Enter, pinvars, hvvars, bootvars
<1>5. ASSUME NEW v \in Bit, cmd_hv(v) PROVE CallsInOrder'
  BY <1>5 DEF cmd_hv, Enter, pinvars, hvvars, bootvars
<1>6. CASE cmd_reboot
  BY <1>6 DEF cmd_reboot
<1>7. ASSUME NEW t \in Tasks, HvCheck(t) PROVE CallsInOrder'
  BY <1>7 DEF HvCheck, Goto, hvvars, pinvars, bootvars
<1>8. ASSUME NEW t \in Tasks, HvPower(t) PROVE CallsInOrder'
  BY <1>8 DEF HvPower, Goto, pinvars, bootvars
<1>9. ASSUME NEW t \in Tasks, HvWarmUp(t) PROVE CallsInOrder'
  BY <1>9 DEF HvWarmUp, Goto, hvvars, pinvars, bootvars
<1>10. ASSUME NEW t \in Tasks, HvMark(t) PROVE CallsInOrder'
  BY <1>10 DEF HvMark, Goto, pinvars, bootvars
<1>11. ASSUME NEW t \in Tasks, HvOff(t) PROVE CallsInOrder'
  BY <1>11 DEF HvOff, Goto, pinvars, bootvars
<1>12. ASSUME NEW t \in Tasks, HvUnmark(t) PROVE CallsInOrder'
  BY <1>12 DEF HvUnmark, Goto, pinvars, bootvars
<1>13. ASSUME NEW t \in Tasks, HvReset(t) PROVE CallsInOrder'
  BY <1>13 DEF HvReset, Goto, pinvars, bootvars
<1>14. ASSUME NEW t \in Tasks, Enable(t) PROVE CallsInOrder'
  BY <1>14 DEF Enable, Goto, hvvars, bootvars
<1>15. ASSUME NEW t \in Tasks, ClearOpposite(t) PROVE CallsInOrder'
  BY <1>15 DEF ClearOpposite, Goto, hvvars, bootvars
<1>16. ASSUME NEW t \in Tasks, SetCoil(t) PROVE CallsInOrder'
  BY <1>16 DEF SetCoil, Goto, hvvars, bootvars
<1>17. ASSUME NEW t \in Tasks, Pulse(t) PROVE CallsInOrder'
  BY <1>17 DEF Pulse, Goto, hvvars, pinvars, bootvars
<1>18. ASSUME NEW t \in Tasks, IdleCoil(t) PROVE CallsInOrder'
  BY <1>18 DEF IdleCoil, Goto, hvvars, bootvars
<1>19. ASSUME NEW t \in Tasks, Disable(t) PROVE CallsInOrder'
  BY <1>19 DEF Disable, Goto, hvvars, bootvars
<1>20. CASE Tick
  BY <1>20 DEF Tick, TickTasks, Ready, pinvars, bootvars, callvars
<1>21. CASE vhvTimerExpired
  BY <1>21 DEF vhvTimerExpired, TickTasks, Ready, pinvars, bootvars, callvars
<1>22. CASE UNCHANGED vars
  BY <1>22 DEF vars, hvvars, pinvars, bootvars, callvars
<1>23. QED
  BY <1>1, <1>2, <1>3, <1>4, <1>5, <1>6, <1>7, <1>8, <1>9, <1>10,
     <1>11, <1>12, <1>13, <1>14, <1>15, <1>16, <1>17, <1>18, <1>19,
     <1>20, <1>21, <1>22
     DEF Next, Boot, Call, Step

\* A step that activates a coil or SWEnable leaves its task in the part of the
\* call that takes it back, and no task leaves that part without doing so.
LEMMA CoilStep == ASSUME TypeOK, TypeOK', CallsInOrder, NoCoilLeftOn, [Next]_vars PROVE NoCoilLeftOn'
<1> USE TasksAssumption, TimesAssumption, TimeoutAssumption
        DEF TypeOK, Switches, Bit, Coils, Points,
            CallsInOrder, Selecting, NoCoilLeftOn, Active, Driving, Enabling
<1>1. CASE NoMagic
  BY <1>1 DEF NoMagic, pinvars, hvvars, callvars
<1>2. ASSUME NEW s \in Switches, ReadPolarity(s) PROVE NoCoilLeftOn'
  BY <1>2 DEF ReadPolarity, SetPulseHigh, pinvars, hvvars, callvars
<1>3. ASSUME NEW s \in Switches, NEW o \in Bit, spdt_set(s, o) PROVE NoCoilLeftOn'
  BY <1>3 DEF spdt_set, Enter, pinvars, hvvars, bootvars
<1>4. ASSUME NEW s \in Switches, NEW o \in Bit, cmd_sw(s, o) PROVE NoCoilLeftOn'
  BY <1>4 DEF cmd_sw, Enter, pinvars, hvvars, bootvars
<1>5. ASSUME NEW v \in Bit, cmd_hv(v) PROVE NoCoilLeftOn'
  BY <1>5 DEF cmd_hv, Enter, pinvars, hvvars, bootvars
<1>6. CASE cmd_reboot
  BY <1>6 DEF cmd_reboot
<1>7. ASSUME NEW t \in Tasks, HvCheck(t) PROVE NoCoilLeftOn'
  BY <1>7 DEF HvCheck, Goto, hvvars, pinvars, bootvars
<1>8. ASSUME NEW t \in Tasks, HvPower(t) PROVE NoCoilLeftOn'
  BY <1>8 DEF HvPower, Goto, pinvars, bootvars
<1>9. ASSUME NEW t \in Tasks, HvWarmUp(t) PROVE NoCoilLeftOn'
  BY <1>9 DEF HvWarmUp, Goto, hvvars, pinvars, bootvars
<1>10. ASSUME NEW t \in Tasks, HvMark(t) PROVE NoCoilLeftOn'
  BY <1>10 DEF HvMark, Goto, pinvars, bootvars
<1>11. ASSUME NEW t \in Tasks, HvOff(t) PROVE NoCoilLeftOn'
  BY <1>11 DEF HvOff, Goto, pinvars, bootvars
<1>12. ASSUME NEW t \in Tasks, HvUnmark(t) PROVE NoCoilLeftOn'
  BY <1>12 DEF HvUnmark, Goto, pinvars, bootvars
<1>13. ASSUME NEW t \in Tasks, HvReset(t) PROVE NoCoilLeftOn'
  BY <1>13 DEF HvReset, Goto, pinvars, bootvars
<1>14. ASSUME NEW t \in Tasks, Enable(t) PROVE NoCoilLeftOn'
  BY <1>14 DEF Enable, Goto, hvvars, bootvars
<1>15. ASSUME NEW t \in Tasks, ClearOpposite(t) PROVE NoCoilLeftOn'
  BY <1>15 DEF ClearOpposite, Goto, hvvars, bootvars
<1>16. ASSUME NEW t \in Tasks, SetCoil(t) PROVE NoCoilLeftOn'
  BY <1>16 DEF SetCoil, Goto, hvvars, bootvars
<1>17. ASSUME NEW t \in Tasks, Pulse(t) PROVE NoCoilLeftOn'
  BY <1>17 DEF Pulse, Goto, hvvars, pinvars, bootvars
<1>18. ASSUME NEW t \in Tasks, IdleCoil(t) PROVE NoCoilLeftOn'
  BY <1>18 DEF IdleCoil, Goto, hvvars, bootvars
<1>19. ASSUME NEW t \in Tasks, Disable(t) PROVE NoCoilLeftOn'
  BY <1>19 DEF Disable, Goto, hvvars, bootvars
<1>20. CASE Tick
  BY <1>20 DEF Tick, TickTasks, Ready, pinvars, bootvars, callvars
<1>21. CASE vhvTimerExpired
  BY <1>21 DEF vhvTimerExpired, TickTasks, Ready, pinvars, bootvars, callvars
<1>22. CASE UNCHANGED vars
  BY <1>22 DEF vars, hvvars, pinvars, bootvars, callvars
<1>23. QED
  BY <1>1, <1>2, <1>3, <1>4, <1>5, <1>6, <1>7, <1>8, <1>9, <1>10,
     <1>11, <1>12, <1>13, <1>14, <1>15, <1>16, <1>17, <1>18, <1>19,
     <1>20, <1>21, <1>22
     DEF Next, Boot, Call, Step

\* hvOn starts the timer after it has turned the supply on, and the timer stops
\* only by turning the supply off.
LEMMA HvTimedStep == ASSUME TypeOK, CallsInOrder, HvAlwaysTimed, [Next]_vars PROVE HvAlwaysTimed'
<1> USE TasksAssumption, TimesAssumption, TimeoutAssumption
        DEF TypeOK, Switches, Bit, Coils, Points, HvAlwaysTimed
<1>1. CASE NoMagic
  BY <1>1 DEF NoMagic, pinvars, hvvars, callvars
<1>2. ASSUME NEW s \in Switches, ReadPolarity(s) PROVE HvAlwaysTimed'
  BY <1>2 DEF ReadPolarity, SetPulseHigh, pinvars, hvvars, callvars
<1>3. ASSUME NEW s \in Switches, NEW o \in Bit, spdt_set(s, o) PROVE HvAlwaysTimed'
  BY <1>3 DEF spdt_set, Enter, pinvars, hvvars, bootvars
<1>4. ASSUME NEW s \in Switches, NEW o \in Bit, cmd_sw(s, o) PROVE HvAlwaysTimed'
  BY <1>4 DEF cmd_sw, Enter, pinvars, hvvars, bootvars
<1>5. ASSUME NEW v \in Bit, cmd_hv(v) PROVE HvAlwaysTimed'
  BY <1>5 DEF cmd_hv, Enter, pinvars, hvvars, bootvars
<1>6. CASE cmd_reboot
  BY <1>6 DEF cmd_reboot
<1>7. ASSUME NEW t \in Tasks, HvCheck(t) PROVE HvAlwaysTimed'
  BY <1>7 DEF HvCheck, Goto, hvvars, pinvars, bootvars
<1>8. ASSUME NEW t \in Tasks, HvPower(t) PROVE HvAlwaysTimed'
  BY <1>8 DEF HvPower, Goto, pinvars, bootvars
<1>9. ASSUME NEW t \in Tasks, HvWarmUp(t) PROVE HvAlwaysTimed'
  BY <1>9 DEF HvWarmUp, Goto, hvvars, pinvars, bootvars
<1>10. ASSUME NEW t \in Tasks, HvMark(t) PROVE HvAlwaysTimed'
  BY <1>10 DEF HvMark, Goto, pinvars, bootvars
<1>11. ASSUME NEW t \in Tasks, HvOff(t) PROVE HvAlwaysTimed'
  BY <1>11 DEF HvOff, Goto, pinvars, bootvars
<1>12. ASSUME NEW t \in Tasks, HvUnmark(t) PROVE HvAlwaysTimed'
  BY <1>12 DEF HvUnmark, Goto, pinvars, bootvars
<1>13. ASSUME NEW t \in Tasks, HvReset(t) PROVE HvAlwaysTimed'
  BY <1>13 DEF HvReset, Goto, pinvars, bootvars
<1>14. ASSUME NEW t \in Tasks, Enable(t) PROVE HvAlwaysTimed'
  BY <1>14 DEF Enable, Goto, hvvars, bootvars
<1>15. ASSUME NEW t \in Tasks, ClearOpposite(t) PROVE HvAlwaysTimed'
  BY <1>15 DEF ClearOpposite, Goto, hvvars, bootvars
<1>16. ASSUME NEW t \in Tasks, SetCoil(t) PROVE HvAlwaysTimed'
  BY <1>16 DEF SetCoil, Goto, hvvars, bootvars
<1>17. ASSUME NEW t \in Tasks, Pulse(t) PROVE HvAlwaysTimed'
  BY <1>17 DEF Pulse, Goto, hvvars, pinvars, bootvars
<1>18. ASSUME NEW t \in Tasks, IdleCoil(t) PROVE HvAlwaysTimed'
  BY <1>18 DEF IdleCoil, Goto, hvvars, bootvars
<1>19. ASSUME NEW t \in Tasks, Disable(t) PROVE HvAlwaysTimed'
  BY <1>19 DEF Disable, Goto, hvvars, bootvars
<1>20. CASE Tick
  BY <1>20 DEF Tick, TickTasks, Ready, pinvars, bootvars, callvars
<1>21. CASE vhvTimerExpired
  BY <1>21 DEF vhvTimerExpired, TickTasks, Ready, pinvars, bootvars, callvars
<1>22. CASE UNCHANGED vars
  BY <1>22 DEF vars, hvvars, pinvars, bootvars, callvars
<1>23. QED
  BY <1>1, <1>2, <1>3, <1>4, <1>5, <1>6, <1>7, <1>8, <1>9, <1>10,
     <1>11, <1>12, <1>13, <1>14, <1>15, <1>16, <1>17, <1>18, <1>19,
     <1>20, <1>21, <1>22
     DEF Next, Boot, Call, Step

\* A tick takes one from the timer and from what every selecting task may still
\* need; the timer daemon therefore cannot run inside a selection.
LEMMA BudgetStep == ASSUME TypeOK, CallsInOrder, TimerBudget, [Next]_vars PROVE TimerBudget'
<1> USE TasksAssumption, TimesAssumption, TimeoutAssumption
        DEF TypeOK, Switches, Bit, Coils, Points,
            CallsInOrder, Selecting, TimerBudget, TimerCovers
<1>1. CASE NoMagic
  BY <1>1 DEF NoMagic, pinvars, hvvars, callvars
<1>2. ASSUME NEW s \in Switches, ReadPolarity(s) PROVE TimerBudget'
  BY <1>2 DEF ReadPolarity, SetPulseHigh, pinvars, hvvars, callvars
<1>3. ASSUME NEW s \in Switches, NEW o \in Bit, spdt_set(s, o) PROVE TimerBudget'
  BY <1>3 DEF spdt_set, Enter, pinvars, hvvars, bootvars
<1>4. ASSUME NEW s \in Switches, NEW o \in Bit, cmd_sw(s, o) PROVE TimerBudget'
  BY <1>4 DEF cmd_sw, Enter, pinvars, hvvars, bootvars
<1>5. ASSUME NEW v \in Bit, cmd_hv(v) PROVE TimerBudget'
  BY <1>5 DEF cmd_hv, Enter, pinvars, hvvars, bootvars
<1>6. CASE cmd_reboot
  BY <1>6 DEF cmd_reboot
<1>7. ASSUME NEW t \in Tasks, HvCheck(t) PROVE TimerBudget'
  BY <1>7 DEF HvCheck, Goto, hvvars, pinvars, bootvars
<1>8. ASSUME NEW t \in Tasks, HvPower(t) PROVE TimerBudget'
  BY <1>8 DEF HvPower, Goto, pinvars, bootvars
<1>9. ASSUME NEW t \in Tasks, HvWarmUp(t) PROVE TimerBudget'
  BY <1>9 DEF HvWarmUp, Goto, hvvars, pinvars, bootvars
<1>10. ASSUME NEW t \in Tasks, HvMark(t) PROVE TimerBudget'
  BY <1>10 DEF HvMark, Goto, pinvars, bootvars
<1>11. ASSUME NEW t \in Tasks, HvOff(t) PROVE TimerBudget'
  BY <1>11 DEF HvOff, Goto, pinvars, bootvars
<1>12. ASSUME NEW t \in Tasks, HvUnmark(t) PROVE TimerBudget'
  BY <1>12 DEF HvUnmark, Goto, pinvars, bootvars
<1>13. ASSUME NEW t \in Tasks, HvReset(t) PROVE TimerBudget'
  BY <1>13 DEF HvReset, Goto, pinvars, bootvars
<1>14. ASSUME NEW t \in Tasks, Enable(t) PROVE TimerBudget'
  BY <1>14 DEF Enable, Goto, hvvars, bootvars
<1>15. ASSUME NEW t \in Tasks, ClearOpposite(t) PROVE TimerBudget'
  BY <1>15 DEF ClearOpposite, Goto, hvvars, bootvars
<1>16. ASSUME NEW t \in Tasks, SetCoil(t) PROVE TimerBudget'
  BY <1>16 DEF SetCoil, Goto, hvvars, bootvars
<1>17. ASSUME NEW t \in Tasks, Pulse(t) PROVE TimerBudget'
  BY <1>17 DEF Pulse, Goto, hvvars, pinvars, bootvars
<1>18. ASSUME NEW t \in Tasks, IdleCoil(t) PROVE TimerBudget'
  BY <1>18 DEF IdleCoil, Goto, hvvars, bootvars
<1>19. ASSUME NEW t \in Tasks, Disable(t) PROVE TimerBudget'
  BY <1>19 DEF Disable, Goto, hvvars, bootvars
<1>20. CASE Tick
  BY <1>20 DEF Tick, TickTasks, Ready, pinvars, bootvars, callvars
<1>21. CASE vhvTimerExpired
  BY <1>21 DEF vhvTimerExpired, TickTasks, Ready, pinvars, bootvars, callvars
<1>22. CASE UNCHANGED vars
  BY <1>22 DEF vars, hvvars, pinvars, bootvars, callvars
<1>23. QED
  BY <1>1, <1>2, <1>3, <1>4, <1>5, <1>6, <1>7, <1>8, <1>9, <1>10,
     <1>11, <1>12, <1>13, <1>14, <1>15, <1>16, <1>17, <1>18, <1>19,
     <1>20, <1>21, <1>22
     DEF Next, Boot, Call, Step

LEMMA InitIndInv == Init => IndInv
<1> SUFFICES ASSUME Init PROVE IndInv
  OBVIOUS
<1> USE TasksAssumption, TimesAssumption, TimeoutAssumption
        DEF Init, Switches, Bit, Coils, Points
<1>1. TypeOK
  BY DEF TypeOK
<1>2. CallsInOrder
  BY DEF CallsInOrder, Selecting
<1>3. NoCoilLeftOn
  BY DEF NoCoilLeftOn, Active
<1>4. HvAlwaysTimed /\ TimerBudget
  BY DEF HvAlwaysTimed, TimerBudget
<1>5. QED
  BY <1>1, <1>2, <1>3, <1>4 DEF IndInv

\* Every reachable state of the drive satisfies the inductive invariant.
THEOREM Inductive == Spec => []IndInv
<1>1. ASSUME IndInv, [Next]_vars PROVE IndInv'
  <2>1. TypeOK'
    BY <1>1, TypeStep DEF IndInv
  <2>2. CallsInOrder' /\ HvAlwaysTimed' /\ TimerBudget'
    BY <1>1, CallsStep, HvTimedStep, BudgetStep DEF IndInv
  <2>3. NoCoilLeftOn'
    BY <1>1, <2>1, CoilStep DEF IndInv
  <2>4. QED
    BY <2>1, <2>2, <2>3 DEF IndInv
<1>2. QED
  BY InitIndInv, <1>1, PTL DEF Spec

\* Type correctness.
THEOREM TypeCorrect == Spec => []TypeOK
BY Inductive, PTL DEF IndInv

\* No interleaving of the callers, timer expiry or reboot leaves a coil or the
\* coil drivers on outside a call that is about to turn them off.
THEOREM NoCoilIsLeftOn == Spec => []NoCoilLeftOn
BY Inductive, PTL DEF IndInv

\* The supply is on only while the turn-off timer runs or is about to be started.
THEOREM HvIsAlwaysTimed == Spec => []HvAlwaysTimed
BY Inductive, PTL DEF IndInv

\* The turn-off timer is running at every step of a selection after xTimerReset,
\* whenever its period exceeds the pulse and six scheduling delays.
THEOREM TimerSparesEveryPulse == Spec => []TimerSparesPulse
<1>1. IndInv => TimerSparesPulse
  <2> SUFFICES ASSUME IndInv, NEW t \in Tasks, Selecting(t) PROVE timer > 0
    BY DEF TimerSparesPulse
  <2>1. /\ timer \in Nat /\ MaxLag \in Nat /\ PulseTime \in Nat
        /\ lag[t] \in 0 .. MaxLag /\ delay[t] \in Nat
    BY TimesAssumption, TimeoutAssumption DEF IndInv, TypeOK
  <2>2. sw[t] \in {"S1", "S2"}
    BY DEF IndInv, CallsInOrder, Switches
  <2>3. QED
    BY <2>1, <2>2 DEF IndInv, TimerBudget, TimerCovers, Selecting
<1>2. QED
  BY Inductive, <1>1, PTL

-----------------------------------------------------------------------------
(* The board.                                                               *)


\* The hardware follows the firmware and never holds it up: forgetting the
\* hardware, a behaviour of the board is one of the drive.
THEOREM BoardIsDrive == BoardSpec => Spec
<1>1. BoardInit => Init
  BY DEF BoardInit
<1>2. [BoardNext]_boardvars => [Next]_vars
  BY DEF BoardNext, Next, boardvars
<1>3. QED
  BY <1>1, <1>2, PTL DEF BoardSpec, Spec

\* Supply and relays stay in their ranges.
THEOREM BoardTypeCorrect == BoardSpec => []BoardTypeOK
<1> DEFINE Ranges == volts \in 0 .. PowerUp /\ energy \in [Coils -> 0 .. Throw]
           Positions == relay \in [Switches -> Bit]
           Flags == alone \in [Tasks -> BOOLEAN]
<1>1. BoardInit => Ranges /\ Positions /\ Flags
  <2>1. BoardInit => Ranges /\ Positions
    BY HardwareAssumption, TimesAssumption DEF BoardInit
  <2>2. BoardInit => Flags
    BY Zenon DEF BoardInit
  <2>3. QED
    BY <2>1, <2>2
<1>2. ASSUME Ranges, [BoardNext]_boardvars PROVE Ranges'
  BY <1>2, HardwareAssumption, TimesAssumption DEF BoardNext, NoTime, OneTick, boardvars
<1>3. ASSUME Positions, [BoardNext]_boardvars PROVE Positions'
  BY <1>3 DEF BoardNext, NoTime, OneTick, boardvars, Bit
<1>4. ASSUME Flags, [BoardNext]_boardvars PROVE Flags'
  <2>1. CASE Overlap
    BY <2>1, Zenon DEF Overlap
  <2>2. CASE alone' = alone
    BY <1>4, <2>2
  <2>3. QED
    BY <1>4, <2>1, <2>2 DEF BoardNext, boardvars
<1>5. BoardSpec => [](Ranges /\ Positions /\ Flags)
  BY <1>1, <1>2, <1>3, <1>4, PTL DEF BoardSpec
<1>6. TypeOK /\ Ranges /\ Positions /\ Flags => BoardTypeOK
  BY DEF BoardTypeOK
<1>7. Spec => []TypeOK
  BY TypeCorrect
<1>8. QED
  BY <1>5, <1>6, <1>7, BoardIsDrive, PTL

\* A coil that has gathered its energy at a tick is powered, and so belongs to a
\* call that is pulsing it.
LEMMA EnergyIsRequested ==
  ASSUME NoCoilLeftOn, OneTick, NEW s \in Switches, NEW o \in Bit, energy'[<<s, o>>] = Throw
  PROVE  \E t \in Tasks : Driving(t) /\ sw[t] = s /\ on[t] = o
<1>1. Throw # 0
  BY HardwareAssumption, TimesAssumption
<1>2. <<s, o>> \in Coils
  BY DEF Coils
<1>3. energy'[<<s, o>>] = IF ~Powered(s, o) THEN 0
                          ELSE IF energy[<<s, o>>] < Throw THEN energy[<<s, o>>] + 1 ELSE Throw
  BY <1>2 DEF OneTick
<1>4. Powered(s, o)
  BY <1>1, <1>3
<1>5. QED
  BY <1>4 DEF Powered, NoCoilLeftOn

\* However the calls of the two tasks interleave, for any timing of tasks, supply
\* and relays, a relay moves only to a position that a call in progress asks for.
THEOREM RelaysMoveOnRequest == BoardSpec => RelayMovesOnRequest
<1> DEFINE Requested(s) == \E t \in Tasks : Driving(t) /\ sw[t] = s /\ on[t] = relay'[s]
           OnRequest == \A s \in Switches : relay'[s] # relay[s] => Requested(s)
<1>1. ASSUME NoCoilLeftOn, [BoardNext]_boardvars PROVE [OnRequest]_boardvars
  <2>1. CASE NoTime
    BY <2>1 DEF NoTime
  <2>2. CASE OneTick
    <3>1. SUFFICES ASSUME NEW s \in Switches, relay'[s] # relay[s] PROVE Requested(s)
      OBVIOUS
    <3>2. relay'[s] = IF energy'[<<s, 1>>] = Throw THEN 1
                      ELSE IF energy'[<<s, 0>>] = Throw THEN 0 ELSE relay[s]
      BY <2>2 DEF OneTick
    <3>3. PICK o \in Bit : energy'[<<s, o>>] = Throw /\ relay'[s] = o
      BY <3>1, <3>2 DEF Bit
    <3>4. QED
      BY <1>1, <2>2, <3>3, EnergyIsRequested
  <2>3. QED
    BY <1>1, <2>1, <2>2 DEF BoardNext
<1>2. Spec => []NoCoilLeftOn
  BY NoCoilIsLeftOn
<1>3. QED
  BY <1>1, <1>2, BoardIsDrive, PTL DEF BoardSpec, RelayMovesOnRequest

-----------------------------------------------------------------------------
(* A selection that is alone throws its relay: its coil gathers energy at    *)
(* every tick of the pulse, for nobody takes away supply, drivers or coil.   *)

\* Who is alone is alone.
AloneIsAlone == \A t \in Tasks : alone[t] => \A u \in Tasks \ {t} : pc[u] = "idle"

\* A supply that is on and not yet up has a task waiting for it.
WarmUpPending ==
  HVEnable = 1 /\ volts < PowerUp =>
    \E u \in Tasks : \/ pc[u] = "warmup"
                     \/ pc[u] = "warming" /\ volts + delay[u] >= PowerUp

\* A coil that has gathered its energy has thrown its relay.
Latched == \A s \in Switches, o \in Bit : energy[<<s, o>>] = Throw => relay[s] = o

\* What a task alone has set stays as it is.
Gated  == \A t \in Tasks : alone[t] /\ Enabling(t) => SWEnable = 1
Driven == \A t \in Tasks : alone[t] /\ Driving(t) => Active(sw[t], on[t])

\* The rest of the pulse is long enough for the rest of the energy.
Gathers(t) == relay[sw[t]] = on[t] \/ energy[<<sw[t], on[t]>>] + delay[t] >= Throw
Throwing == \A t \in Tasks : alone[t] /\ HVEnable = 1 /\ pc[t] = "pulsing" => Gathers(t)
Thrown   == \A t \in Tasks : alone[t] /\ HVEnable = 1 /\ pc[t] = "disable" => relay[sw[t]] = on[t]

PowerInv ==
  /\ AloneIsAlone /\ WarmUpPending /\ Latched
  /\ Gated /\ Driven /\ Throwing /\ Thrown

Ticks == Tick \/ vhvTimerExpired

\* A step inside a call moves that call only.
LEMMA StepMoves ==
  ASSUME NEW t \in Tasks, Step(t)
  PROVE  pc[t] # "idle" /\ delay[t] = 0 /\ \E p : pc' = [pc EXCEPT ![t] = p]
BY DEF Step, Goto, HvCheck, HvPower, HvWarmUp, HvMark, HvReset, HvOff, HvUnmark, Enable,
       ClearOpposite, SetCoil, Pulse, IdleCoil, Disable

LEMMA TicksMoveNothing == ASSUME Ticks PROVE UNCHANGED <<pc, sw, on, level, SWEnable, pulseHigh, boot>>
BY DEF Ticks, Tick, vhvTimerExpired, TickTasks, pinvars, bootvars, callvars

LEMMA AloneStep ==
  ASSUME Overlap, NEW t \in Tasks, alone'[t]
  PROVE  /\ \A u \in Tasks \ {t} : pc'[u] = "idle"
         /\ pc[t] # "idle" => alone[t]
BY Zenon DEF Overlap

\* Until a selection that is alone returns, only its own steps and ticks occur.
LEMMA SoleStep ==
  ASSUME TypeOK, CallsInOrder, AloneIsAlone, BoardNext, NEW t \in Tasks, alone'[t], Selecting(t)'
  PROVE  /\ alone[t] /\ \A u \in Tasks \ {t} : pc[u] = "idle"
         /\ (Step(t) /\ NoTime) \/ (Ticks /\ OneTick)
<1>1. Overlap
  BY DEF BoardNext
<1>2. /\ \A u \in Tasks \ {t} : pc'[u] = "idle"
      /\ pc[t] # "idle" => alone[t]
  BY <1>1, AloneStep
<1>3. pc'[t] # "idle"
  BY DEF Selecting
<1>4. ~Boot
  <2>1. SUFFICES ASSUME Boot PROVE FALSE
    OBVIOUS
  <2>2. boot # "run" /\ pc' = pc
    BY <2>1 DEF Boot, NoMagic, ReadPolarity
  <2>3. QED
    BY <1>3, <2>2 DEF CallsInOrder
<1>5. ~Call
  <2>1. SUFFICES ASSUME Call PROVE FALSE
    OBVIOUS
  <2>2. CASE cmd_reboot
    BY <1>3, <2>2 DEF cmd_reboot
  <2>3. CASE ~cmd_reboot
    <3>1. PICK u \in Tasks, p \in {"check", "off"} : pc' = [pc EXCEPT ![u] = p]
      BY <2>1, <2>3 DEF Call, spdt_set, cmd_sw, cmd_hv, Enter
    <3>2. pc'[u] = p
      BY <3>1 DEF TypeOK
    <3>3. QED
      BY <1>2, <3>2 DEF Selecting
  <2>4. QED
    BY <2>2, <2>3
<1>6. CASE \E u \in Tasks : Step(u) /\ NoTime
  <2>1. PICK u \in Tasks : Step(u) /\ NoTime
    BY <1>6
  <2>2. pc[u] # "idle" /\ \E p : pc' = [pc EXCEPT ![u] = p]
    BY <2>1, StepMoves
  <2>3. pc[t] # "idle"
    BY <1>3, <2>2 DEF TypeOK
  <2>4. alone[t] /\ \A v \in Tasks \ {t} : pc[v] = "idle"
    BY <1>2, <2>3 DEF AloneIsAlone
  <2>5. u = t
    BY <2>2, <2>4
  <2>6. QED
    BY <2>1, <2>4, <2>5
<1>7. CASE Ticks /\ OneTick
  <2>1. pc[t] # "idle"
    BY <1>3, <1>7, TicksMoveNothing
  <2>2. QED
    BY <1>2, <1>7, <2>1 DEF AloneIsAlone
<1>8. QED
  BY <1>4, <1>5, <1>6, <1>7 DEF BoardNext, Ticks

\* A relay that is in the position its lone call selects stays there at a tick.
LEMMA TickKeeps ==
  ASSUME BoardTypeOK, NoCoilLeftOn, OneTick, NEW t \in Tasks, \A u \in Tasks \ {t} : pc[u] = "idle",
         sw[t] \in Switches, relay[sw[t]] = on[t]
  PROVE  relay'[sw[t]] = on[t]
<1>1. SUFFICES ASSUME relay'[sw[t]] # on[t] PROVE FALSE
  OBVIOUS
<1>2. relay'[sw[t]] = IF energy'[<<sw[t], 1>>] = Throw THEN 1
                      ELSE IF energy'[<<sw[t], 0>>] = Throw THEN 0 ELSE relay[sw[t]]
  BY DEF OneTick
<1>3. PICK o \in Bit : energy'[<<sw[t], o>>] = Throw /\ o # on[t]
  BY <1>1, <1>2 DEF Bit
<1>4. PICK u \in Tasks : Driving(u) /\ on[u] = o
  BY <1>3, EnergyIsRequested
<1>5. u = t
  BY <1>4 DEF Driving
<1>6. QED
  BY <1>3, <1>4, <1>5

\* At a tick of its pulse the coil of a lone selection is powered.
LEMMA LonePulsePowered ==
  ASSUME BoardTypeOK, CallsInOrder, NoCoilLeftOn, WarmUpPending, Gated, Driven,
         NEW t \in Tasks, alone[t], \A u \in Tasks \ {t} : pc[u] = "idle",
         pc[t] = "pulsing", HVEnable = 1
  PROVE  Powered(sw[t], on[t])
<1>1. sw[t] \in Switches /\ on[t] \in Bit
  BY DEF CallsInOrder, Selecting, BoardTypeOK, TypeOK
<1>2. volts = PowerUp
  <2>1. ~\E u \in Tasks : pc[u] \in {"warmup", "warming"}
    OBVIOUS
  <2>2. ~(volts < PowerUp)
    BY <2>1 DEF WarmUpPending
  <2>3. QED
    BY <2>2, HardwareAssumption, TimesAssumption DEF BoardTypeOK
<1>3. SWEnable = 1
  BY DEF Gated, Enabling
<1>4. Active(sw[t], on[t])
  BY DEF Driven, Driving
<1>5. ~Active(sw[t], 1 - on[t])
  <2>1. SUFFICES ASSUME Active(sw[t], 1 - on[t]) PROVE FALSE
    OBVIOUS
  <2>2. PICK u \in Tasks : Driving(u) /\ on[u] = 1 - on[t]
    BY <1>1, <2>1 DEF NoCoilLeftOn, Bit
  <2>3. u = t
    BY <2>2 DEF Driving
  <2>4. QED
    BY <1>1, <2>2, <2>3 DEF Bit
<1>6. QED
  BY <1>2, <1>3, <1>4, <1>5 DEF Powered

LEMMA AloneKept ==
  ASSUME AloneIsAlone, [BoardNext]_boardvars
  PROVE  AloneIsAlone'
<1>1. CASE Overlap
  BY <1>1, AloneStep DEF AloneIsAlone
<1>2. CASE UNCHANGED boardvars
  BY <1>2 DEF AloneIsAlone, boardvars, vars
<1>3. QED
  BY <1>1, <1>2 DEF BoardNext

LEMMA LatchedKept ==
  ASSUME Latched, [BoardNext]_boardvars
  PROVE  Latched'
<1>1. CASE OneTick
  <2>1. SUFFICES ASSUME NEW s \in Switches, NEW o \in Bit, energy'[<<s, o>>] = Throw
                 PROVE  relay'[s] = o
    BY DEF Latched
  <2>2. relay'[s] = IF energy'[<<s, 1>>] = Throw THEN 1
                    ELSE IF energy'[<<s, 0>>] = Throw THEN 0 ELSE relay[s]
    BY <1>1 DEF OneTick
  <2>3. \A p \in Bit : energy'[<<s, p>>] = Throw => Powered(s, p)
    <3>1. TAKE p \in Bit
    <3>2. <<s, p>> \in Coils
      BY DEF Coils
    <3>3. energy'[<<s, p>>] = IF ~Powered(s, p) THEN 0
                              ELSE IF energy[<<s, p>>] < Throw THEN energy[<<s, p>>] + 1 ELSE Throw
      BY <1>1, <3>2 DEF OneTick
    <3>4. QED
      BY <3>3, HardwareAssumption, TimesAssumption
  <2>4. ~(energy'[<<s, 1>>] = Throw /\ energy'[<<s, 0>>] = Throw)
    BY <2>3 DEF Powered, Bit
  <2>5. QED
    BY <2>1, <2>2, <2>4 DEF Bit
<1>2. CASE UNCHANGED <<energy, relay>>
  BY <1>2 DEF Latched
<1>3. QED
  BY <1>1, <1>2 DEF BoardNext, NoTime, boardvars

\* The supply rises while the delay of the task that turned it on runs down.
LEMMA WarmUpKept ==
  ASSUME BoardTypeOK, CallsInOrder, WarmUpPending, BoardNext
  PROVE  WarmUpPending'
<1> DEFINE Waits(u) == pc[u] = "warmup" \/ (pc[u] = "warming" /\ volts + delay[u] >= PowerUp)
<1>1. SUFFICES ASSUME HVEnable' = 1, volts' < PowerUp PROVE \E u \in Tasks : Waits(u)'
  BY DEF WarmUpPending
<1>2. HVEnable = 1 /\ volts < PowerUp => \E u \in Tasks : Waits(u)
  BY DEF WarmUpPending
<1>3. ASSUME Boot, NoTime PROVE \E u \in Tasks : Waits(u)'
  <2>1. UNCHANGED <<HVEnable, volts, pc, delay>>
    BY <1>1, <1>3 DEF Boot, NoMagic, ReadPolarity, NoTime, hvvars
  <2>2. QED
    BY <1>1, <1>2, <2>1
<1>4. ASSUME Call, NoTime PROVE \E u \in Tasks : Waits(u)'
  <2>1. CASE cmd_reboot
    BY <1>1, <2>1 DEF cmd_reboot
  <2>2. CASE ~cmd_reboot
    <3>1. UNCHANGED <<HVEnable, volts, delay>>
      BY <1>1, <1>4, <2>2 DEF Call, spdt_set, cmd_sw, cmd_hv, Enter, NoTime, hvvars
    <3>2. PICK v \in Tasks, p \in {"check", "off"} : pc[v] = "idle" /\ pc' = [pc EXCEPT ![v] = p]
      BY <1>4, <2>2 DEF Call, spdt_set, cmd_sw, cmd_hv, Enter
    <3>3. PICK u \in Tasks : Waits(u)
      BY <1>1, <1>2, <3>1
    <3>4. pc'[u] = pc[u]
      BY <3>2, <3>3
    <3>5. QED
      BY <3>1, <3>3, <3>4
  <2>3. QED
    BY <2>1, <2>2
<1>5. ASSUME NEW t \in Tasks, Step(t), NoTime PROVE \E u \in Tasks : Waits(u)'
  <2>1. CASE HvPower(t)
    <3>1. pc'[t] = "warmup"
      BY <2>1 DEF HvPower, Goto, BoardTypeOK, TypeOK
    <3>2. QED
      BY <3>1
  <2>2. CASE HvOff(t)
    BY <1>1, <2>2 DEF HvOff
  <2>3. CASE HvWarmUp(t)
    <3>1. pc'[t] = "warming" /\ delay'[t] = WarmUp
      BY <2>3 DEF HvWarmUp, Goto, BoardTypeOK, TypeOK
    <3>2. volts' \in Nat
      BY <1>5, <2>3 DEF NoTime, BoardTypeOK
    <3>3. QED
      BY <3>1, <3>2, HardwareAssumption, TimesAssumption
  <2>4. CASE ~HvPower(t) /\ ~HvOff(t) /\ ~HvWarmUp(t)
    <3>1. UNCHANGED HVEnable
      BY <1>5, <2>4 DEF Step, HvCheck, HvMark, HvReset, HvUnmark, Enable, ClearOpposite, SetCoil,
                        Pulse, IdleCoil, Disable, hvvars
    <3>2. PICK u \in Tasks : Waits(u)
      BY <1>1, <1>2, <1>5, <3>1 DEF NoTime
    <3>3. pc[t] # "warmup"
      BY <1>5, <2>4 DEF Step, Goto, HvCheck, HvMark, HvReset, HvUnmark, Enable, ClearOpposite,
                        SetCoil, Pulse, IdleCoil, Disable
    <3>4. u # t
      <4>1. volts < PowerUp /\ delay[t] = 0 /\ volts \in Nat
        BY <1>1, <1>5, <3>1, StepMoves DEF NoTime, BoardTypeOK
      <4>2. QED
        BY <3>2, <3>3, <4>1, HardwareAssumption, TimesAssumption
    <3>5. pc'[u] = pc[u]
      BY <1>5, <3>4, StepMoves DEF BoardTypeOK, TypeOK
    <3>6. delay'[u] = delay[u]
      BY <1>5, <2>4, <3>4 DEF Step, HvCheck, HvMark, HvReset, HvUnmark, Enable, ClearOpposite,
                              SetCoil, Pulse, IdleCoil, Disable, BoardTypeOK, TypeOK
    <3>7. volts' = volts
      BY <1>1, <1>5 DEF NoTime
    <3>8. QED
      BY <3>2, <3>5, <3>6, <3>7
  <2>5. QED
    BY <2>1, <2>2, <2>3, <2>4
<1>6. ASSUME Ticks, OneTick PROVE \E u \in Tasks : Waits(u)'
  <2>1. HVEnable = 1
    BY <1>1, <1>6 DEF Ticks, Tick, vhvTimerExpired
  <2>2. volts' = IF volts < PowerUp THEN volts + 1 ELSE volts
    BY <1>1, <1>6 DEF OneTick
  <2>3. volts \in Nat /\ volts < PowerUp
    BY <1>1, <2>2, HardwareAssumption, TimesAssumption DEF BoardTypeOK
  <2>4. volts' = volts + 1
    BY <2>2, <2>3
  <2>5. PICK u \in Tasks : Waits(u)
    BY <1>2, <2>1, <2>3
  <2>6. delay[u] \in Nat
    BY DEF BoardTypeOK, TypeOK
  <2>7. delay'[u] = IF delay[u] = 0 THEN 0 ELSE delay[u] - 1
    BY <1>6 DEF Ticks, Tick, vhvTimerExpired, TickTasks
  <2>8. pc'[u] = pc[u]
    BY <1>6, TicksMoveNothing
  <2>9. volts' + delay'[u] >= volts + delay[u]
    BY <2>3, <2>4, <2>6, <2>7
  <2>10. QED
    BY <2>3, <2>4, <2>5, <2>6, <2>7, <2>8, <2>9, HardwareAssumption, TimesAssumption
<1>7. QED
  BY <1>3, <1>4, <1>5, <1>6 DEF BoardNext, Ticks

\* What a lone selection has set, only its own steps take back.
LEMMA SelectionKept ==
  ASSUME BoardTypeOK, CallsInOrder, AloneIsAlone, Gated, Driven, BoardNext,
         NEW t \in Tasks, alone'[t]
  PROVE  /\ Enabling(t)' => SWEnable' = 1
         /\ Driving(t)' => Active(sw[t], on[t])'
<1>1. SUFFICES ASSUME Enabling(t)' \/ Driving(t)'
               PROVE  /\ Enabling(t)' => SWEnable' = 1
                      /\ Driving(t)' => Active(sw[t], on[t])'
  OBVIOUS
<1>2. TypeOK
  BY DEF BoardTypeOK
<1>3. Selecting(t)'
  BY <1>1 DEF Enabling, Driving, Selecting
<1>4. alone[t] /\ ((Step(t) /\ NoTime) \/ (Ticks /\ OneTick))
  BY <1>2, <1>3, SoleStep
<1>5. CASE Ticks
  <2>1. UNCHANGED <<pc, sw, on, level, SWEnable, pulseHigh>>
    BY <1>5, TicksMoveNothing
  <2>2. QED
    BY <1>4, <2>1 DEF Gated, Driven, Enabling, Driving, Active
<1>6. CASE Step(t)
  <2>1. Enabling(t)' => SWEnable' = 1
    <3>1. CASE Enable(t)
      BY <3>1 DEF Enable
    <3>2. CASE ~Enable(t)
      BY <1>2, <1>4, <1>6, <3>2
      DEF Gated, Enabling, Step, Goto, HvCheck, HvPower, HvWarmUp, HvMark, HvReset, HvOff, HvUnmark,
          ClearOpposite, SetCoil, Pulse, IdleCoil, Disable, TypeOK, pinvars
    <3>3. QED
      BY <3>1, <3>2
  <2>2. Driving(t)' => Active(sw[t], on[t])'
    <3>1. CASE SetCoil(t)
      <4>1. pc[t] = "set" /\ sw' = sw /\ on' = on /\ pulseHigh' = pulseHigh
        BY <1>2, <3>1 DEF SetCoil, Goto, bootvars
      <4>2. <<sw[t], on[t]>> \in Coils
        BY <1>2, <4>1 DEF Coils, CallsInOrder, Selecting, TypeOK
      <4>3. level'[<<sw[t], on[t]>>] = pulseHigh[sw[t]]
        BY <1>2, <3>1, <4>2 DEF SetCoil, TypeOK
      <4>4. QED
        BY <4>1, <4>3 DEF Active
    <3>2. CASE Enable(t) \/ Pulse(t)
      <4>1. UNCHANGED <<level, pulseHigh>>
        BY <3>2 DEF Enable, Pulse, pinvars, bootvars
      <4>2. Driving(t)' => Driving(t) /\ UNCHANGED <<sw, on>>
        BY <1>2, <3>2 DEF Driving, Enable, Pulse, Goto, TypeOK, CallsInOrder, Selecting, Switches
      <4>3. Driving(t) => Active(sw[t], on[t])
        BY <1>4 DEF Driven
      <4>4. QED
        BY <4>1, <4>2, <4>3 DEF Active
    <3>3. CASE ~SetCoil(t) /\ ~Enable(t) /\ ~Pulse(t)
      <4>1. ~Driving(t)'
        BY <1>2, <1>6, <3>3
        DEF Driving, Step, Goto, HvCheck, HvPower, HvWarmUp, HvMark, HvReset, HvOff, HvUnmark,
            ClearOpposite, IdleCoil, Disable, TypeOK
      <4>2. QED
        BY <4>1
    <3>4. QED
      BY <3>1, <3>2, <3>3
  <2>3. QED
    BY <2>1, <2>2
<1>7. QED
  BY <1>4, <1>5, <1>6

\* A lone coil that keeps its supply gathers its energy in time and throws its relay.
LEMMA ThrowKept ==
  ASSUME BoardTypeOK, CallsInOrder, NoCoilLeftOn, PowerInv, BoardNext,
         NEW t \in Tasks, alone'[t], HVEnable' = 1
  PROVE  /\ pc'[t] = "pulsing" => Gathers(t)'
         /\ pc'[t] = "disable" => relay'[sw'[t]] = on'[t]
<1>1. SUFFICES ASSUME pc'[t] \in {"pulsing", "disable"}
               PROVE  /\ pc'[t] = "pulsing" => Gathers(t)'
                      /\ pc'[t] = "disable" => relay'[sw'[t]] = on'[t]
  OBVIOUS
<1>2. TypeOK /\ energy \in [Coils -> 0 .. Throw] /\ delay[t] \in Nat /\ Throw \in Nat
  BY HardwareAssumption, TimesAssumption DEF BoardTypeOK, TypeOK
<1>3. /\ alone[t] /\ \A u \in Tasks \ {t} : pc[u] = "idle"
      /\ (Step(t) /\ NoTime) \/ (Ticks /\ OneTick)
  BY <1>1, <1>2, SoleStep DEF PowerInv, Selecting
<1>4. CASE Step(t) /\ NoTime
  <2>1. UNCHANGED <<energy, relay>>
    BY <1>4 DEF NoTime
  <2>2. Pulse(t) \/ IdleCoil(t)
    BY <1>1, <1>2, <1>4
    DEF Step, Goto, HvCheck, HvPower, HvWarmUp, HvMark, HvReset, HvOff, HvUnmark, Enable,
        ClearOpposite, SetCoil, Disable, TypeOK
  <2>3. sw' = sw /\ on' = on /\ HVEnable = 1 /\ <<sw[t], on[t]>> \in Coils
    BY <1>2, <2>2 DEF Pulse, IdleCoil, Goto, hvvars, Coils, CallsInOrder, Selecting, TypeOK
  <2>4. energy[<<sw[t], on[t]>>] \in 0 .. Throw
    BY <1>2, <2>3
  <2>5. CASE Pulse(t)
    <3>1. pc'[t] = "pulsing" /\ delay'[t] = PulseTime
      BY <1>2, <2>5 DEF Pulse, Goto, TypeOK
    <3>2. energy[<<sw[t], on[t]>>] + PulseTime >= Throw
      BY <1>2, <2>4, HardwareAssumption, TimesAssumption
    <3>3. QED
      BY <2>1, <2>3, <3>1, <3>2 DEF Gathers
  <2>6. CASE IdleCoil(t)
    <3>1. pc[t] = "pulsing" /\ pc'[t] = "disable" /\ delay[t] = 0
      BY <1>2, <2>6 DEF IdleCoil, Goto, TypeOK
    <3>2. Gathers(t)
      BY <1>3, <2>3, <3>1 DEF PowerInv, Throwing
    <3>3. relay[sw[t]] = on[t] \/ energy[<<sw[t], on[t]>>] = Throw
      BY <1>2, <2>4, <3>1, <3>2 DEF Gathers
    <3>4. sw[t] \in Switches /\ on[t] \in Bit
      BY <2>3 DEF Coils
    <3>5. relay[sw[t]] = on[t]
      BY <3>3, <3>4 DEF PowerInv, Latched
    <3>6. QED
      BY <2>1, <2>3, <3>1, <3>5
  <2>7. QED
    BY <2>2, <2>5, <2>6
<1>5. CASE Ticks /\ OneTick
  <2>1. UNCHANGED <<pc, sw, on>>
    BY <1>5, TicksMoveNothing
  <2>2. HVEnable = 1
    BY <1>5 DEF Ticks, Tick, vhvTimerExpired
  <2>3. sw[t] \in Switches /\ on[t] \in Bit
    BY <1>1, <1>2, <2>1 DEF CallsInOrder, Selecting, TypeOK
  <2>4. relay[sw[t]] = on[t] => relay'[sw[t]] = on[t]
    BY <1>3, <1>5, <2>3, TickKeeps
  <2>5. CASE pc[t] = "disable"
    BY <1>3, <2>1, <2>2, <2>4, <2>5 DEF PowerInv, Thrown
  <2>6. CASE pc[t] = "pulsing"
    <3>1. Gathers(t)
      BY <1>3, <2>2, <2>6 DEF PowerInv, Throwing
    <3>2. Powered(sw[t], on[t])
      BY <1>3, <2>2, <2>6, LonePulsePowered DEF PowerInv
    <3>3. <<sw[t], on[t]>> \in Coils /\ energy[<<sw[t], on[t]>>] \in 0 .. Throw
      BY <1>2, <2>3 DEF Coils
    <3>4. energy'[<<sw[t], on[t]>>] =
            IF energy[<<sw[t], on[t]>>] < Throw THEN energy[<<sw[t], on[t]>>] + 1 ELSE Throw
      BY <1>5, <3>2, <3>3 DEF OneTick
    <3>5. delay'[t] = IF delay[t] = 0 THEN 0 ELSE delay[t] - 1
      BY <1>5 DEF Ticks, Tick, vhvTimerExpired, TickTasks
    <3>6. energy[<<sw[t], on[t]>>] + delay[t] >= Throw =>
            energy'[<<sw[t], on[t]>>] + delay'[t] >= Throw \/ energy[<<sw[t], on[t]>>] = Throw
      BY <1>2, <3>3, <3>4, <3>5
    <3>7. energy[<<sw[t], on[t]>>] = Throw => relay[sw[t]] = on[t]
      BY <2>3 DEF PowerInv, Latched
    <3>8. QED
      BY <2>1, <2>4, <2>6, <3>1, <3>6, <3>7 DEF Gathers
  <2>7. QED
    BY <1>1, <2>1, <2>5, <2>6
<1>6. QED
  BY <1>3, <1>4, <1>5

LEMMA PowerStep ==
  ASSUME BoardTypeOK, CallsInOrder, NoCoilLeftOn, PowerInv, [BoardNext]_boardvars
  PROVE  PowerInv'
<1>1. CASE BoardNext
  <2>1. AloneIsAlone' /\ Latched'
    BY AloneKept, LatchedKept DEF PowerInv
  <2>2. WarmUpPending'
    BY <1>1, WarmUpKept DEF PowerInv
  <2>3. Gated' /\ Driven'
    BY <1>1, SelectionKept, Zenon DEF PowerInv, Gated, Driven
  <2>4. Throwing' /\ Thrown'
    BY <1>1, ThrowKept, Zenon DEF Throwing, Thrown
  <2>5. QED
    BY <2>1, <2>2, <2>3, <2>4 DEF PowerInv
<1>2. CASE UNCHANGED boardvars
  BY <1>2 DEF boardvars, vars, hvvars, pinvars, bootvars, callvars, PowerInv, AloneIsAlone,
              WarmUpPending, Latched, Gated, Driven, Throwing, Thrown, Gathers, Enabling, Driving, Active
<1>3. QED
  BY <1>1, <1>2

LEMMA PowerInit == BoardInit => PowerInv
<1>1. SUFFICES ASSUME BoardInit PROVE PowerInv
  OBVIOUS
<1>2. HVEnable = 0 /\ \A t \in Tasks : pc[t] = "idle"
  BY <1>1 DEF BoardInit, Init
<1>3. Throw # 0
  BY HardwareAssumption, TimesAssumption
<1>4. \A s \in Switches, o \in Bit : energy[<<s, o>>] = 0
  BY <1>1 DEF BoardInit, Coils
<1>5. QED
  BY <1>2, <1>3, <1>4 DEF PowerInv, AloneIsAlone, WarmUpPending, Latched, Gated, Driven, Throwing,
                          Thrown, Enabling, Driving

\* A selection that no other call overlapped, and that still has its supply when it
\* returns, leaves its relay in the selected position: for every timing of tasks,
\* supply and relays, the pulse is long enough and nobody interrupts it.
THEOREM LoneSelectionThrows == BoardSpec => PoweredSelectThrowsRelay
<1> DEFINE Selected == \A t \in Tasks : Returns(t) /\ alone[t] /\ HVEnable = 1 => relay[sw[t]] = on[t]
<1>1. PowerInv => [Selected]_boardvars
  BY Zenon DEF PowerInv, Thrown, Returns
<1>2. Spec => [](CallsInOrder /\ NoCoilLeftOn)
  <2>1. IndInv => CallsInOrder /\ NoCoilLeftOn
    BY DEF IndInv
  <2>2. QED
    BY <2>1, Inductive, PTL
<1>3. QED
  BY <1>1, <1>2, PowerInit, PowerStep, BoardIsDrive, BoardTypeCorrect, PTL
     DEF BoardSpec, PoweredSelectThrowsRelay
=============================================================================
