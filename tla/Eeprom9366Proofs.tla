-------------------------- MODULE Eeprom9366Proofs --------------------------
(***************************************************************************)
(* The EEPROM driver and its chip for any memory, calls and delays: types, *)
(* the chip select at rest, and, as long as no two calls overlap, the      *)
(* memory of EepromStore.                                                  *)
(***************************************************************************)
EXTENDS Eeprom9366, TLAPS

Commands == AnyCall \cup {EnableCmd}

\* What the chip has taken are bytes of commands.
Bytewise == taken \in Seq(Commands \X Nat)

TypeInv == TypeOK /\ Bytewise

LEMMA CommandsAreRecords ==
  /\ NoCall.op = "none" /\ EnableCmd.op = "EWEN" /\ EnableCmd \notin AnyCall
  /\ \A c \in Commands : /\ Length(c) \in {2, 3}
                         /\ Programs(c) \/ c.op = "READ" => c \in AnyCall /\ c \in CallRecords
                         /\ c.op = "EWEN" => c = EnableCmd
                         /\ c # EnableCmd => c = NoCall \/ (Programs(c) <=> c.op # "READ")
<1>1. \A c \in AnyCall : c \in CallRecords \/ c = NoCall
  <2>1. ASSUME NEW c \in AnyCall, c # NoCall PROVE c \in CallRecords
    <3>1. PICK t \in Callers : c \in CallsOf[t]
      BY <2>1, Zenon DEF AnyCall
    <3>2. QED
      BY <3>1, DriverAssumption
  <2>2. QED
    BY <2>1
<1>2. NoCall.op = "none" /\ EnableCmd.op = "EWEN"
  BY DEF NoCall, EnableCmd
<1>3. \A c \in CallRecords : c.op \in {"READ", "WRITE", "ERASE", "ERAL"}
  BY DEF CallRecords
<1>4. EnableCmd \notin AnyCall
  BY <1>1, <1>2, <1>3
<1>5. \A c \in Commands : c \in CallRecords \/ c = NoCall \/ c = EnableCmd
  BY <1>1 DEF Commands
<1>6. \A c \in Commands : Programs(c) \/ c.op = "READ" => c \in AnyCall /\ c \in CallRecords
  BY <1>2, <1>5 DEF Programs, Commands
<1>7. QED
  BY <1>2, <1>3, <1>4, <1>5, <1>6 DEF Programs, Length

LEMMA CellInRange == ASSUME NEW a \in Nat PROVE Cell(a) \in Cells
BY CellsAssumption DEF Cell, Cells

LEMMA AfterIsMemory ==
  ASSUME NEW cells \in [Cells -> Bytes], NEW c \in CallRecords
  PROVE  After(cells, c) \in [Cells -> Bytes]
<1>1. c.addr \in Nat /\ c.data \in Bytes
  BY DEF CallRecords
<1>2. Cell(c.addr) \in Cells
  BY <1>1, CellInRange
<1>3. After(cells, c) \in {[cells EXCEPT ![Cell(c.addr)] = c.data],
                          [cells EXCEPT ![Cell(c.addr)] = Erased], AllErased, cells}
  BY Zenon DEF After
<1>4. QED
  BY <1>1, <1>2, <1>3, CellsAssumption DEF AllErased

LEMMA InitTypes == Init => TypeInv
<1> SUFFICES ASSUME Init PROVE TypeInv
  OBVIOUS
<1>1. NoCall \in AnyCall
  BY Zenon DEF AnyCall
<1>2. taken \in Seq(Commands \X Nat)
  BY DEF Init
<1>3. done \in [Callers -> BOOLEAN] /\ overlapped \in BOOLEAN
  BY Zenon DEF Init
<1>4. pc \in [Callers -> Points] /\ sent \in [Callers -> 0 .. 3]
  BY DEF Init, Points
<1>5. call \in [Callers -> AnyCall] /\ cmd \in [Callers -> AnyCall \cup {EnableCmd}]
  BY <1>1 DEF Init
<1>6. rbyte \in [Callers -> Bytes] /\ delay \in [Callers -> 0 .. SelectLow + WriteTime]
  BY DriverAssumption, CellsAssumption DEF Init
<1>7. QED
  BY <1>2, <1>3, <1>4, <1>5, <1>6, ChipTimeAssumption, DriverAssumption, CellsAssumption
     DEF Init, TypeInv, TypeOK, Bytewise

\* The first byte of a whole command tells the chip which.
LEMMA FirstByte ==
  ASSUME Bytewise, Complete
  PROVE  taken[1][1] \in Commands
<1>1. taken # <<>> /\ taken \in Seq(Commands \X Nat)
  BY DEF Complete, Bytewise
<1>2. taken[1] \in Commands \X Nat
  BY <1>1
<1>3. QED
  BY <1>2

\* What the chip does when CS falls stays in its types.
LEMMA ChipTypes ==
  ASSUME TypeInv, ChipExecutes \/ ChipMisreads
  PROVE  /\ mem' \in [Cells -> Bytes] /\ wen' \in {0, 1} /\ busy' \in 0 .. ChipTime
         /\ done' \in [Callers -> BOOLEAN]
<1> USE DEF TypeInv, TypeOK
<1>1. CASE ChipExecutes
  <2> DEFINE c == taken[1][1]
             p == Programs(c) /\ wen = 1
  <2>1. c \in Commands
    BY <1>1, FirstByte DEF ChipExecutes
  <2>2. /\ wen' = IF c.op = "EWEN" THEN 1 ELSE wen
        /\ mem' = IF p THEN After(mem, c) ELSE mem
        /\ IF p THEN busy' \in 0 .. ChipTime ELSE busy' = busy
        /\ done' = [t \in Callers |-> done[t] \/ (p /\ call[t] = c)]
    BY <1>1 DEF ChipExecutes
  <2>3. p => After(mem, c) \in [Cells -> Bytes]
    BY <2>1, CommandsAreRecords, AfterIsMemory
  <2>4. done' \in [Callers -> BOOLEAN]
    BY <2>2, Zenon
  <2> HIDE DEF c, p
  <2>5. QED
    BY <2>2, <2>3, <2>4
<1>2. CASE ChipMisreads
  <2>1. done' \in [Callers -> BOOLEAN]
    BY <1>2, Zenon DEF ChipMisreads
  <2>2. mem' \in [Cells -> Bytes] /\ wen' \in {0, 1} /\ busy' \in 0 .. ChipTime
    BY <1>2, CellsAssumption DEF ChipMisreads, AllErased
  <2>3. QED
    BY <2>1, <2>2
<1>3. QED
  BY <1>1, <1>2

LEMMA TypeStep == ASSUME TypeInv, [Next]_vars PROVE TypeInv'
<1> USE DEF TypeInv, TypeOK
<1>0. /\ Points = {"idle", "enable", "select", "shift", "release", "return"}
      /\ AnyCall \subseteq Commands /\ EnableCmd \in Commands /\ NoCall \in AnyCall
      /\ \A t \in Callers : CallsOf[t] \subseteq AnyCall
  BY Zenon DEF Points, Commands, AnyCall
<1>1. ASSUME NEW t \in Callers, NEW c \in CallsOf[t], Invoke(t, c)
      PROVE  TypeInv'
  <2>1. done' \in [Callers -> BOOLEAN] /\ overlapped' \in BOOLEAN
    BY <1>1, Zenon DEF Invoke
  <2>2. c \in AnyCall
    BY <1>0
  <2>3. Bytewise'
    BY <1>1 DEF Invoke, Bytewise, chipvars
  <2>4. QED
    BY <1>0, <1>1, <2>1, <2>2, <2>3 DEF Invoke, chipvars
<1>2. ASSUME NEW t \in Callers, writeEnable(t)
      PROVE  TypeInv'
  <2>1. done' \in [Callers -> BOOLEAN] /\ overlapped' \in BOOLEAN
    BY <1>2, Zenon DEF writeEnable
  <2>2. QED
    BY <1>0, <1>2, <2>1 DEF writeEnable, chipvars, Bytewise, Commands
<1>3. ASSUME NEW t \in Callers, assertCS(t)
      PROVE  TypeInv'
  <2>1. done' \in [Callers -> BOOLEAN] /\ overlapped' \in BOOLEAN
    BY <1>3, Zenon DEF assertCS
  <2>2. QED
    BY <1>0, <1>3, <2>1 DEF assertCS, Bytewise
<1>4. ASSUME NEW t \in Callers, spi_xfer(t)
      PROVE  TypeInv'
  <2> DEFINE k == sent[t] + 1
             bytes == IF CS = 1 /\ busy = 0 THEN Append(taken, <<cmd[t], k>>) ELSE taken
  <2>1. /\ sent[t] < Length(cmd[t])
        /\ sent' = [sent EXCEPT ![t] = k]
        /\ taken' = bytes
        /\ \/ UNCHANGED <<rbyte, done>>
           \/ /\ cmd[t].op = "READ"
              /\ \E b \in Answers(cmd[t], bytes) : rbyte' = [rbyte EXCEPT ![t] = b]
              /\ done' = [done EXCEPT ![t] = bytes = Frame(cmd[t])]
        /\ UNCHANGED <<pc, call, cmd, delay, wen, busy, mem, writeEnabled, CS, out, overlapped>>
    BY <1>4, Zenon DEF spi_xfer
  <2>2. cmd[t] \in Commands /\ Length(cmd[t]) \in {2, 3}
    BY CommandsAreRecords DEF Commands
  <2>3. k \in 1 .. 3
    BY <2>1, <2>2
  <2>4. bytes \in Seq(Commands \X Nat)
    <3>1. <<cmd[t], k>> \in Commands \X Nat /\ taken \in Seq(Commands \X Nat)
      BY <2>2, <2>3 DEF Bytewise
    <3> HIDE DEF k
    <3>2. QED
      BY <3>1
  <2>5. cmd[t].op = "READ" => Answers(cmd[t], bytes) \subseteq Bytes
    <3>1. cmd[t].op = "READ" => mem[Cell(cmd[t].addr)] \in Bytes
      BY <2>2, CommandsAreRecords, CellInRange DEF CallRecords
    <3>2. QED
      BY <3>1 DEF Answers
  <2> HIDE DEF bytes, k
  <2>6. done' \in [Callers -> BOOLEAN] /\ overlapped' \in BOOLEAN
    BY <2>1, Zenon
  <2>7. rbyte' \in [Callers -> Bytes]
    BY <2>1, <2>5
  <2>8. sent' \in [Callers -> 0 .. 3]
    BY <2>1, <2>3
  <2>9. QED
    BY <2>1, <2>4, <2>6, <2>7, <2>8 DEF Bytewise
<1>5. ASSUME NEW t \in Callers, HoldCS(t)
      PROVE  TypeInv'
  <2>1. done' \in [Callers -> BOOLEAN] /\ overlapped' \in BOOLEAN
    BY <1>5, Zenon DEF HoldCS
  <2>2. QED
    BY <1>0, <1>5, <2>1, DriverAssumption DEF HoldCS, Bytewise, chipvars
<1>6. ASSUME NEW t \in Callers, deassertCS(t)
      PROVE  TypeInv'
  <2>1. overlapped' = overlapped
    BY <1>6 DEF deassertCS
  <2>2. /\ mem' \in [Cells -> Bytes] /\ wen' \in {0, 1} /\ busy' \in 0 .. ChipTime
        /\ done' \in [Callers -> BOOLEAN]
    <3>1. CASE CS = 1
      BY <1>6, <3>1, ChipTypes DEF deassertCS
    <3>2. CASE CS # 1
      <4>1. UNCHANGED <<mem, wen, busy, done>>
        BY <1>6, <3>2 DEF deassertCS
      <4>2. QED
        BY <4>1
    <3>3. QED
      BY <3>1, <3>2
  <2>3. /\ pc' \in [Callers -> Points] /\ cmd' \in [Callers -> AnyCall \cup {EnableCmd}]
        /\ delay' \in [Callers -> 0 .. SelectLow + WriteTime] /\ writeEnabled' \in {0, 1}
        /\ UNCHANGED <<call, sent, rbyte, out>> /\ CS' = 0 /\ taken' = <<>>
    BY <1>0, <1>6, DriverAssumption DEF deassertCS
  <2>4. QED
    BY <2>1, <2>2, <2>3 DEF Bytewise
<1>7. ASSUME NEW t \in Callers, Return(t)
      PROVE  TypeInv'
  <2>1. done' \in [Callers -> BOOLEAN] /\ overlapped' \in BOOLEAN
    BY <1>7, Zenon DEF Return
  <2>2. QED
    BY <1>0, <1>7, <2>1 DEF Return, Bytewise, chipvars
<1>8. CASE Tick
  <2>1. done' \in [Callers -> BOOLEAN] /\ overlapped' \in BOOLEAN
    BY <1>8, Zenon DEF Tick
  <2>2. QED
    BY <1>8, <2>1, DriverAssumption, ChipTimeAssumption DEF Tick, Down, Bytewise
<1>9. CASE UNCHANGED vars
  BY <1>9 DEF vars, taskvars, chipvars, Bytewise
<1>10. QED
  BY <1>1, <1>2, <1>3, <1>4, <1>5, <1>6, <1>7, <1>8, <1>9 DEF Next, Step

\* For one caller or both, any calls, delays and size of the memory, however the
\* calls interleave: chip, driver and the tasks' places stay in their ranges.
THEOREM EepromTypeCorrect == Spec => []TypeOK
<1>1. TypeInv => TypeOK
  BY DEF TypeInv
<1>2. QED
  BY <1>1, InitTypes, TypeStep, PTL DEF Spec

\* The chip is selected, or holds bytes, only for a task that is sending.
Attended == CS = 1 \/ taken # <<>> => \E t \in Callers : pc[t] \in {"shift", "release"}

LEMMA AttendedStep == ASSUME TypeOK, Attended, [Next]_vars PROVE Attended'
<1> USE DEF Attended
<1>1. pc \in [Callers -> Points] /\ CS \in {0, 1}
  BY DEF TypeOK
<1>2. ASSUME NEW t \in Callers, spi_xfer(t)
      PROVE  Attended'
  <2>1. pc[t] = "shift" /\ UNCHANGED pc
    BY <1>2, Zenon DEF spi_xfer, Running
  <2>2. QED
    BY <2>1
<1>3. ASSUME NEW t \in Callers, assertCS(t) \/ HoldCS(t)
      PROVE  Attended'
  <2>1. pc'[t] \in {"shift", "release"}
    BY <1>1, <1>3 DEF assertCS, HoldCS
  <2>2. QED
    BY <2>1
<1>4. ASSUME NEW t \in Callers, deassertCS(t)
      PROVE  Attended'
  BY <1>4 DEF deassertCS
<1>5. ASSUME NEW t \in Callers, writeEnable(t) \/ Return(t) \/ \E c \in CallsOf[t] : Invoke(t, c)
      PROVE  Attended'
  <2>1. /\ pc[t] \notin {"shift", "release"} /\ UNCHANGED <<CS, taken>>
        /\ \A u \in Callers \ {t} : pc'[u] = pc[u]
    BY <1>1, <1>5 DEF writeEnable, Return, Invoke, Running, chipvars
  <2>2. QED
    BY <2>1
<1>6. CASE Tick \/ UNCHANGED vars
  <2>1. UNCHANGED <<pc, CS, taken>>
    BY <1>6 DEF Tick, vars, taskvars, chipvars
  <2>2. QED
    BY <2>1
<1>7. QED
  BY <1>2, <1>3, <1>4, <1>5, <1>6 DEF Next, Step

\* Whatever the callers did to each other's commands, once none of them is in a
\* call of the driver the chip is deselected and holds no byte of a command.
THEOREM ChipIsDeselectedAtRest == Spec => []DeselectedAtRest
<1>1. Init => Attended
  BY DEF Init, Attended
<1>2. TypeOK /\ Attended => DeselectedAtRest
  BY DEF TypeOK, Attended, DeselectedAtRest
<1>3. QED
  BY <1>1, <1>2, AttendedStep, EepromTypeCorrect, PTL DEF Spec

-----------------------------------------------------------------------------
(* Driver and chip are the memory of EepromStore.  As long as no two calls   *)
(* have overlapped there is at most one task inside a call, and what the chip *)
(* holds is what this task has sent.                                          *)

\* A task outside a call has no call, and nothing was done for it.
Rests(t) == call[t] = NoCall /\ cmd[t] = NoCall /\ delay[t] = 0 /\ done[t] = FALSE
Resting == \A t \in Callers : pc[t] = "idle" => Rests(t)

Alone == \A t, u \in Callers : pc[t] # "idle" /\ pc[u] # "idle" => t = u

Sending(t) == pc[t] \in {"shift", "release"}

\* What a task shifts is its call or the command that must come before it.
Commanded(t) ==
  /\ call[t] \in AnyCall \ {NoCall}
  /\ \/ cmd[t] = call[t]
     \/ cmd[t] = EnableCmd /\ Programs(call[t]) /\ pc[t] \in {"select", "shift", "release"}
  /\ pc[t] = "enable" => Programs(call[t])
  /\ pc[t] \in {"select", "shift", "release"} /\ Programs(cmd[t]) => writeEnabled = 1

\* The first n bytes of command c.
FirstBytes(c, n) == [k \in 1 .. n |-> <<c, k>>]

\* The chip listens exactly while the task is sending, and has all its bytes.
Heard(t) ==
  /\ CS = (IF Sending(t) THEN 1 ELSE 0)
  /\ taken = (IF Sending(t) THEN FirstBytes(cmd[t], sent[t]) ELSE <<>>)
  /\ Sending(t) => sent[t] <= Length(cmd[t])
  /\ pc[t] = "release" => sent[t] = Length(cmd[t])

\* It is ready for the next command before the call returns.
Ready(t) == IF pc[t] = "return" THEN busy <= delay[t] ELSE busy = 0

\* A call is performed by the end of its last command, a read with its last byte.
Performed(t) ==
  \/ pc[t] = "return"
  \/ Sending(t) /\ cmd[t].op = "READ" /\ sent[t] = Length(cmd[t])
Told(t) ==
  IF Performed(t) THEN done[t] = TRUE /\ (call[t].op = "READ" => rbyte[t] = mem[Cell(call[t].addr)])
  ELSE done[t] = FALSE

InOrder(t) == Commanded(t) /\ Heard(t) /\ Ready(t) /\ Told(t)

\* The flag of the driver does not promise more than the latch of the chip keeps.
FlagIsTrue == writeEnabled = 1 => wen = 1

Orderly ==
  /\ Alone /\ FlagIsTrue
  /\ (\A t \in Callers : pc[t] = "idle") => CS = 0 /\ taken = <<>> /\ busy = 0
  /\ \A t \in Callers : pc[t] # "idle" => InOrder(t)

LEMMA RestingStep == ASSUME TypeInv, Resting, [Next]_vars PROVE Resting'
<1> USE DEF Resting, Rests
<1>0. /\ pc \in [Callers -> Points] /\ call \in [Callers -> AnyCall] /\ cmd \in [Callers -> Commands]
      /\ delay \in [Callers -> Nat] /\ done \in [Callers -> BOOLEAN] /\ sent \in [Callers -> 0 .. 3]
  BY DriverAssumption DEF TypeInv, TypeOK, Commands
<1>1. ASSUME NEW t \in Callers, NEW c \in CallsOf[t], Invoke(t, c)
      PROVE  Resting'
  <2>1. pc'[t] # "idle" /\ \A u \in Callers \ {t} :
          pc'[u] = pc[u] /\ call'[u] = call[u] /\ cmd'[u] = cmd[u] /\ delay'[u] = delay[u]
    BY <1>0, <1>1 DEF Invoke
  <2>2. \A u \in Callers \ {t} : done'[u] = done[u]
    BY <1>0, <1>1 DEF Invoke
  <2>3. QED
    BY <2>1, <2>2
<1>2. ASSUME NEW t \in Callers, writeEnable(t) \/ assertCS(t) \/ HoldCS(t)
      PROVE  Resting'
  <2>1. pc'[t] # "idle" /\ \A u \in Callers \ {t} :
          pc'[u] = pc[u] /\ call'[u] = call[u] /\ cmd'[u] = cmd[u] /\ delay'[u] = delay[u]
    BY <1>0, <1>2 DEF writeEnable, assertCS, HoldCS
  <2>2. done' = done
    BY <1>2 DEF writeEnable, assertCS, HoldCS
  <2>3. QED
    BY <2>1, <2>2
<1>3. ASSUME NEW t \in Callers, spi_xfer(t)
      PROVE  Resting'
  <2>1. pc[t] = "shift" /\ UNCHANGED <<pc, call, cmd, delay>>
    BY <1>3 DEF spi_xfer, Running
  <2>2. done' = done \/ \E b \in BOOLEAN : done' = [done EXCEPT ![t] = b]
    BY <1>3, Zenon DEF spi_xfer
  <2>3. \A u \in Callers \ {t} : done'[u] = done[u]
    BY <1>0, <2>2
  <2>4. QED
    BY <2>1, <2>3
<1>4. ASSUME NEW t \in Callers, deassertCS(t)
      PROVE  Resting'
  <2>1. pc'[t] # "idle" /\ call' = call /\ \A u \in Callers \ {t} :
          pc'[u] = pc[u] /\ cmd'[u] = cmd[u] /\ delay'[u] = delay[u]
    BY <1>0, <1>4 DEF deassertCS
  <2>2. ASSUME NEW u \in Callers, done[u] = FALSE, call[u] = NoCall
        PROVE  done'[u] = FALSE
    <3>1. CASE CS = 1 /\ ChipExecutes
      <4>1. ~Programs(NoCall)
        BY DEF Programs, NoCall
      <4>2. QED
        BY <2>2, <3>1, <4>1, Zenon DEF ChipExecutes
    <3>2. CASE CS = 1 /\ ChipMisreads
      BY <2>2, <3>2 DEF ChipMisreads
    <3>3. CASE CS # 1
      BY <1>4, <2>2, <3>3 DEF deassertCS
    <3>4. QED
      BY <1>4, <3>1, <3>2, <3>3 DEF deassertCS
  <2>3. QED
    BY <2>1, <2>2
<1>5. ASSUME NEW t \in Callers, Return(t)
      PROVE  Resting'
  <2>1. delay[t] = 0 /\ call'[t] = NoCall /\ cmd'[t] = NoCall /\ UNCHANGED delay /\ \A u \in Callers \ {t} :
          pc'[u] = pc[u] /\ call'[u] = call[u] /\ cmd'[u] = cmd[u]
    BY <1>0, <1>5 DEF Return, Running
  <2>2. done'[t] = FALSE /\ \A u \in Callers \ {t} : done'[u] = done[u]
    BY <1>0, <1>5 DEF Return
  <2>3. QED
    BY <2>1, <2>2
<1>6. CASE Tick
  <2>1. UNCHANGED <<pc, call, cmd, done>> /\ \A t \in Callers : delay[t] = 0 => delay'[t] = 0
    BY <1>6 DEF Tick, Down
  <2>2. QED
    BY <2>1
<1>7. CASE UNCHANGED vars
  BY <1>7 DEF vars, taskvars
<1>8. QED
  BY <1>1, <1>2, <1>3, <1>4, <1>5, <1>6, <1>7 DEF Next, Step

\* A task inside a call is the only one.
LEMMA OthersRest ==
  ASSUME Orderly, NEW t \in Callers, pc[t] # "idle"
  PROVE  InOrder(t) /\ \A u \in Callers \ {t} : pc[u] = "idle"
BY DEF Orderly, Alone

LEMMA StaysOrderly ==
  ASSUME NEW t \in Callers, pc'[t] # "idle", \A u \in Callers \ {t} : pc'[u] = "idle",
         FlagIsTrue', InOrder(t)'
  PROVE  Orderly'
BY DEF Orderly, Alone

LEMMA FirstBytesGrow ==
  ASSUME NEW c, NEW n \in Nat
  PROVE  /\ FirstBytes(c, 0) = <<>>
         /\ Append(FirstBytes(c, n), <<c, n + 1>>) = FirstBytes(c, n + 1)
         /\ Frame(c) = FirstBytes(c, Length(c))
<1>1. FirstBytes(c, n) \in Seq({<<c, k>> : k \in Nat}) /\ Len(FirstBytes(c, n)) = n
  BY DEF FirstBytes
<1>2. Append(FirstBytes(c, n), <<c, n + 1>>) = FirstBytes(c, n + 1)
  BY <1>1 DEF FirstBytes
<1>3. QED
  BY <1>2 DEF FirstBytes, Frame

LEMMA InvokeOrderly ==
  ASSUME TypeInv, Resting, Orderly, NEW t \in Callers, NEW c \in CallsOf[t], Invoke(t, c), ~overlapped'
  PROVE  Orderly'
<1>1. \A u \in Callers : pc[u] = "idle"
  BY Zenon DEF Invoke
<1>2. CS = 0 /\ taken = <<>> /\ busy = 0 /\ FlagIsTrue
  BY <1>1 DEF Orderly
<1>3. c \in AnyCall /\ c \in CallRecords /\ c # NoCall
  <2>1. c \in AnyCall
    BY Zenon DEF AnyCall
  <2>2. c \in CallRecords
    BY DriverAssumption
  <2>3. c # NoCall
    BY <2>2, CommandsAreRecords DEF CallRecords
  <2>4. QED
    BY <2>1, <2>2, <2>3
<1>4. /\ pc'[t] = (IF c.op = "READ" THEN "select" ELSE "enable") /\ call'[t] = c /\ cmd'[t] = c
      /\ UNCHANGED <<CS, taken, busy, wen, writeEnabled>>
      /\ \A u \in Callers \ {t} : pc'[u] = "idle"
  BY <1>1 DEF Invoke, chipvars, TypeInv, TypeOK
<1>5. done'[t] = FALSE
  BY DEF Invoke, TypeInv, TypeOK
<1>6. c.op \in {"READ", "WRITE", "ERASE", "ERAL"}
  BY <1>3 DEF CallRecords
<1>7. Commanded(t)'
  BY <1>3, <1>4, <1>6 DEF Commanded, Programs
<1>8. Heard(t)' /\ Ready(t)'
  BY <1>2, <1>4 DEF Heard, Ready, Sending
<1>9. Told(t)'
  BY <1>4, <1>5 DEF Told, Performed, Sending
<1>10. QED
  BY <1>2, <1>4, <1>7, <1>8, <1>9, StaysOrderly DEF InOrder, FlagIsTrue

LEMMA SelectOrderly ==
  ASSUME TypeInv, Orderly, NEW t \in Callers, writeEnable(t) \/ assertCS(t) \/ HoldCS(t)
  PROVE  Orderly'
<1>0. pc[t] \in {"enable", "select", "shift"}
  BY DEF writeEnable, assertCS, HoldCS, Running
<1>1. InOrder(t) /\ FlagIsTrue /\ \A u \in Callers \ {t} : pc[u] = "idle"
  BY <1>0, OthersRest DEF Orderly
<1>2. /\ pc'[t] # "idle" /\ \A u \in Callers \ {t} : pc'[u] = "idle"
      /\ UNCHANGED <<call, done, rbyte, mem, wen, busy, writeEnabled>>
  BY <1>1 DEF writeEnable, assertCS, HoldCS, TypeInv, TypeOK, chipvars
<1>3. FlagIsTrue'
  BY <1>1, <1>2 DEF FlagIsTrue
<1>4. InOrder(t)'
  <2>1. CASE writeEnable(t)
    <3>1. /\ pc[t] = "enable" /\ pc'[t] = "select" /\ UNCHANGED <<CS, taken, sent>>
          /\ cmd'[t] = IF writeEnabled = 1 THEN call[t] ELSE EnableCmd
      BY <2>1 DEF writeEnable, Running, TypeInv, TypeOK, chipvars
    <3>2. Commanded(t)'
      BY <1>1, <1>2, <3>1, CommandsAreRecords DEF InOrder, Commanded, Programs
    <3>3. Heard(t)' /\ Ready(t)'
      BY <1>1, <1>2, <3>1 DEF InOrder, Heard, Ready, Sending
    <3>4. Told(t)'
      BY <1>1, <1>2, <3>1 DEF InOrder, Told, Performed, Sending
    <3>5. QED
      BY <3>2, <3>3, <3>4 DEF InOrder
  <2>2. CASE assertCS(t)
    <3>1. /\ pc[t] = "select" /\ pc'[t] = "shift" /\ UNCHANGED cmd /\ sent'[t] = 0
          /\ CS' = 1 /\ taken' = IF CS = 0 THEN <<>> ELSE taken
      BY <2>2 DEF assertCS, Running, TypeInv, TypeOK
    <3>2. Length(cmd[t]) \in {2, 3}
      BY CommandsAreRecords DEF TypeInv, TypeOK, Commands
    <3>3. Commanded(t)'
      BY <1>1, <1>2, <3>1 DEF InOrder, Commanded
    <3>4. Heard(t)' /\ Ready(t)'
      BY <1>1, <1>2, <3>1, <3>2, FirstBytesGrow DEF InOrder, Heard, Ready, Sending
    <3>5. Told(t)'
      <4>1. ~Performed(t) /\ ~Performed(t)'
        BY <3>1, <3>2 DEF Performed, Sending, Length
      <4>2. QED
        BY <1>1, <1>2, <4>1 DEF InOrder, Told
    <3>6. QED
      BY <3>3, <3>4, <3>5 DEF InOrder
  <2>3. CASE HoldCS(t)
    <3>1. /\ pc[t] = "shift" /\ pc'[t] = "release" /\ UNCHANGED <<cmd, sent, CS, taken>>
          /\ sent[t] = Length(cmd[t])
      BY <2>3 DEF HoldCS, Running, TypeInv, TypeOK, chipvars
    <3>3. Commanded(t)'
      BY <1>1, <1>2, <3>1 DEF InOrder, Commanded
    <3>4. Heard(t)' /\ Ready(t)'
      BY <1>1, <1>2, <3>1 DEF InOrder, Heard, Ready, Sending
    <3>5. Told(t)'
      BY <1>1, <1>2, <3>1 DEF InOrder, Told, Performed, Sending
    <3>6. QED
      BY <3>3, <3>4, <3>5 DEF InOrder
  <2>4. QED
    BY <2>1, <2>2, <2>3
<1>5. QED
  BY <1>2, <1>3, <1>4, StaysOrderly

\* The last byte of an undisturbed read performs it.
ReadsOut(t) ==
  /\ call[t].op = "READ" /\ call[t] # NoCall
  /\ done[t] = FALSE /\ done' = [done EXCEPT ![t] = TRUE]
  /\ UNCHANGED <<pc, call, mem, out>>

LEMMA XferOrderly ==
  ASSUME TypeInv, Orderly, NEW t \in Callers, spi_xfer(t)
  PROVE  Orderly' /\ (ReadsOut(t) \/ UNCHANGED <<pc, call, done, mem, out>>)
<1> DEFINE c == cmd[t]
           k == sent[t] + 1
           bytes == IF CS = 1 /\ busy = 0 THEN Append(taken, <<c, k>>) ELSE taken
<1>1. /\ pc[t] = "shift" /\ sent[t] < Length(c)
      /\ sent' = [sent EXCEPT ![t] = k] /\ taken' = bytes
      /\ \/ (k < Length(c) \/ c.op # "READ") /\ UNCHANGED <<rbyte, done>>
         \/ /\ k >= Length(c) /\ c.op = "READ"
            /\ \E b \in Answers(c, bytes) : rbyte' = [rbyte EXCEPT ![t] = b]
            /\ done' = [done EXCEPT ![t] = bytes = Frame(c)]
      /\ UNCHANGED <<pc, call, cmd, delay, wen, busy, mem, writeEnabled, CS, out, overlapped>>
  <2>1. sent[t] \in Nat /\ Length(c) \in Nat
    BY CommandsAreRecords DEF TypeInv, TypeOK, Commands
  <2>2. ~(k < Length(c)) => k >= Length(c)
    BY <2>1
  <2> HIDE DEF k
  <2>3. QED
    BY <2>2 DEF spi_xfer, Running, k
<1>2. InOrder(t) /\ FlagIsTrue /\ \A u \in Callers \ {t} : pc[u] = "idle"
  BY <1>1, OthersRest DEF Orderly
<1>3. /\ CS = 1 /\ busy = 0 /\ taken = FirstBytes(c, sent[t]) /\ sent[t] \in Nat
      /\ Length(c) \in {2, 3} /\ c \in Commands
  BY <1>1, <1>2, CommandsAreRecords DEF InOrder, Heard, Ready, Sending, TypeInv, TypeOK, Commands
<1>4. bytes = FirstBytes(c, k) /\ sent'[t] = k /\ k <= Length(c)
  <2>1. bytes = FirstBytes(c, k)
    <3>1. Append(FirstBytes(c, sent[t]), <<c, k>>) = FirstBytes(c, k)
      BY <1>3, FirstBytesGrow
    <3>2. bytes = Append(FirstBytes(c, sent[t]), <<c, k>>)
      BY <1>3
    <3> HIDE DEF bytes, k
    <3>3. QED
      BY <3>1, <3>2
  <2>2. sent'[t] = k
    BY <1>1 DEF TypeInv, TypeOK
  <2>3. k <= Length(c)
    BY <1>1, <1>3
  <2>4. QED
    BY <2>1, <2>2, <2>3
<1>5. done[t] = FALSE
  <2>1. ~Performed(t)
    BY <1>1, <1>3 DEF Performed, Sending
  <2>2. QED
    BY <1>2, <2>1 DEF InOrder, Told
<1>6. Commanded(t)' /\ Heard(t)' /\ Ready(t)' /\ FlagIsTrue'
  <2>1. Heard(t)'
    BY <1>1, <1>3, <1>4 DEF Heard, Sending
  <2> HIDE DEF bytes, k
  <2>2. QED
    BY <1>1, <1>2, <2>1 DEF InOrder, Commanded, Ready, FlagIsTrue
<1>7. CASE (k < Length(c) \/ c.op # "READ") /\ UNCHANGED <<rbyte, done>>
  <2>1. ~Performed(t)'
    BY <1>1, <1>3, <1>4, <1>7 DEF Performed, Sending
  <2>2. Told(t)'
    BY <1>5, <1>7, <2>1 DEF Told
  <2>3. QED
    BY <1>1, <1>2, <1>6, <1>7, <2>2, StaysOrderly DEF InOrder
<1>8. CASE /\ k >= Length(c) /\ c.op = "READ"
           /\ \E b \in Answers(c, bytes) : rbyte' = [rbyte EXCEPT ![t] = b]
           /\ done' = [done EXCEPT ![t] = bytes = Frame(c)]
  <2>1. k = Length(c) /\ bytes = Frame(c)
    <3>1. k = Length(c)
      BY <1>3, <1>4, <1>8
    <3>2. Frame(c) = FirstBytes(c, Length(c))
      BY <1>3, FirstBytesGrow
    <3> HIDE DEF bytes, k
    <3>3. QED
      BY <1>4, <3>1, <3>2
  <2>2. c = call[t] /\ call[t] # NoCall
    BY <1>2, <1>8, CommandsAreRecords DEF InOrder, Commanded
  <2>3. rbyte'[t] = mem[Cell(c.addr)]
    BY <1>8, <2>1 DEF Answers, TypeInv, TypeOK
  <2>4. done' = [done EXCEPT ![t] = TRUE]
    BY <1>8, <2>1
  <2>5. done'[t] = TRUE
    BY <2>4 DEF TypeInv, TypeOK
  <2> HIDE DEF bytes, k
  <2>6. Performed(t)'
    BY <1>1, <1>4, <1>8, <2>1 DEF Performed, Sending
  <2>7. Told(t)'
    BY <1>1, <2>2, <2>3, <2>5, <2>6 DEF Told
  <2>8. Orderly'
    BY <1>1, <1>2, <1>6, <2>7, StaysOrderly DEF InOrder
  <2>9. QED
    BY <1>1, <1>5, <1>8, <2>2, <2>4, <2>8 DEF ReadsOut
<1>9. QED
  BY <1>1, <1>7, <1>8

\* A task that releases the chip after the last byte of a command that programs
\* cells has it performed.
ProgramsCells(t) ==
  /\ call[t] # NoCall /\ mem' = After(mem, call[t])
  /\ done[t] = FALSE /\ done'[t] = TRUE /\ \A u \in Callers \ {t} : done'[u] = done[u]
  /\ pc[t] # "idle" /\ pc'[t] # "idle"
  /\ UNCHANGED <<call, out>>
Releases(t) ==
  /\ pc[t] # "idle" /\ pc'[t] # "idle"
  /\ \A u \in Callers : done'[u] = done[u]
  /\ UNCHANGED <<call, mem, out>>

LEMMA DeassertOrderly ==
  ASSUME TypeInv, Resting, Orderly, NEW t \in Callers, deassertCS(t)
  PROVE  Orderly' /\ (ProgramsCells(t) \/ Releases(t))
<1> DEFINE c == cmd[t]
<1>1. pc[t] = "release" /\ delay[t] = 0
  BY DEF deassertCS, Running
<1>2. InOrder(t) /\ FlagIsTrue /\ \A u \in Callers \ {t} : pc[u] = "idle"
  BY <1>1, OthersRest DEF Orderly
<1>3. /\ CS = 1 /\ busy = 0 /\ taken = Frame(c) /\ Length(c) \in {2, 3} /\ c \in Commands
  BY <1>1, <1>2, FirstBytesGrow, CommandsAreRecords DEF InOrder, Heard, Ready, Sending, TypeInv, TypeOK, Commands
<1>4. taken[1][1] = c /\ Complete
  <2>1. 1 \in 1 .. Length(c)
    BY <1>3
  <2>2. taken[1] = <<c, 1>> /\ Len(taken) = Length(c)
    BY <1>3, <2>1 DEF Frame
  <2>3. QED
    BY <1>3, <2>1, <2>2 DEF Complete, Intact
<1>5. ChipExecutes
  BY <1>3, <1>4 DEF deassertCS, ChipMisreads
<1>6. Programs(c) => wen = 1 /\ c = call[t]
  BY <1>1, <1>2, CommandsAreRecords DEF InOrder, Commanded, FlagIsTrue, Programs
<1>7. /\ wen' = IF c.op = "EWEN" THEN 1 ELSE wen
      /\ mem' = IF Programs(c) THEN After(mem, c) ELSE mem
      /\ IF Programs(c) THEN busy' \in 0 .. ChipTime ELSE busy' = busy
  BY <1>4, <1>5, <1>6 DEF ChipExecutes
<1>8. /\ \A u \in Callers \ {t} : done'[u] = done[u]
      /\ done'[t] = (done[t] \/ Programs(c))
  <2>1. done' = [u \in Callers |-> done[u] \/ (Programs(c) /\ call[u] = c)]
    BY <1>4, <1>5, <1>6, Zenon DEF ChipExecutes
  <2>2. \A u \in Callers : done[u] \in BOOLEAN
    BY DEF TypeInv, TypeOK
  <2>3. \A u \in Callers \ {t} : call[u] = NoCall
    BY <1>2 DEF Resting, Rests
  <2>4. ~Programs(NoCall)
    BY DEF Programs, NoCall
  <2>5. ASSUME NEW u \in Callers \ {t}
        PROVE  done'[u] = done[u]
    <3>1. ~(Programs(c) /\ call[u] = c)
      BY <2>3, <2>4
    <3>2. QED
      BY <2>1, <2>2, <3>1
  <2>6. done'[t] = (done[t] \/ Programs(c))
    BY <1>6, <2>1, <2>2
  <2>7. QED
    BY <2>5, <2>6
<1>9. /\ CS' = 0 /\ taken' = <<>> /\ UNCHANGED <<call, sent, rbyte, out>>
      /\ \A u \in Callers \ {t} : pc'[u] = "idle"
  BY <1>2 DEF deassertCS, TypeInv, TypeOK
<1>10. CASE c = EnableCmd
  <2>1. pc'[t] = "select" /\ cmd'[t] = call[t] /\ writeEnabled' = 1
    BY <1>10 DEF deassertCS, TypeInv, TypeOK
  <2>2. c.op = "EWEN" /\ ~Programs(c)
    BY <1>10, CommandsAreRecords DEF Programs
  <2>3. mem' = mem /\ busy' = 0 /\ wen' = 1 /\ done'[t] = done[t]
    BY <1>3, <1>7, <1>8, <2>2 DEF TypeInv, TypeOK
  <2>4. Commanded(t)' /\ Heard(t)' /\ Ready(t)'
    BY <1>2, <1>9, <2>1, <2>3, CommandsAreRecords DEF InOrder, Commanded, Heard, Ready, Sending
  <2>5. Told(t)'
    <3>1. ~Performed(t) /\ ~Performed(t)'
      BY <1>1, <2>1, <2>2 DEF Performed, Sending
    <3>2. QED
      BY <1>2, <2>3, <3>1 DEF InOrder, Told
  <2>6. Orderly'
    BY <1>9, <2>1, <2>3, <2>4, <2>5, StaysOrderly DEF InOrder, FlagIsTrue
  <2>7. Releases(t)
    BY <1>1, <1>8, <1>9, <2>1, <2>3 DEF Releases
  <2>8. QED
    BY <2>6, <2>7
<1>11. CASE c # EnableCmd
  <2>1. c = call[t] /\ c # NoCall
    BY <1>2, <1>11 DEF InOrder, Commanded
  <2>2. /\ pc'[t] = "return" /\ UNCHANGED <<cmd, writeEnabled>>
        /\ delay'[t] = IF call[t].op = "READ" THEN 0 ELSE WriteTime
    BY <1>11 DEF deassertCS, TypeInv, TypeOK
  <2>3. Programs(c) <=> c.op # "READ"
    BY <1>3, <1>11, <2>1, CommandsAreRecords
  <2>4. wen' = wen
    BY <1>3, <1>7, <1>11, CommandsAreRecords
  <2>5. Commanded(t)' /\ Heard(t)'
    BY <1>2, <1>9, <2>1, <2>2 DEF InOrder, Commanded, Heard, Sending
  <2>6. Ready(t)'
    BY <1>3, <1>7, <2>1, <2>2, <2>3, ChipTimeAssumption, DriverAssumption DEF Ready
  <2>7. Performed(t)' /\ (Performed(t) <=> c.op = "READ")
    BY <1>1, <1>2, <2>2 DEF Performed, Sending, InOrder, Heard
  <2>8. done'[t] = TRUE /\ done[t] = (c.op = "READ")
    BY <1>2, <1>8, <2>3, <2>7 DEF InOrder, Told
  <2>9. Told(t)'
    <3>1. c.op = "READ" => rbyte[t] = mem[Cell(c.addr)] /\ mem' = mem
      BY <1>2, <1>7, <2>1, <2>3, <2>7 DEF InOrder, Told
    <3>2. QED
      BY <1>9, <2>1, <2>7, <2>8, <3>1 DEF Told
  <2>10. Orderly'
    BY <1>2, <1>9, <2>2, <2>4, <2>5, <2>6, <2>9, StaysOrderly DEF InOrder, FlagIsTrue
  <2>11. ProgramsCells(t) \/ Releases(t)
    <3>1. CASE Programs(c)
      BY <1>1, <1>7, <1>8, <1>9, <2>1, <2>2, <2>3, <2>8, <3>1 DEF ProgramsCells
    <3>2. CASE ~Programs(c)
      BY <1>1, <1>7, <1>8, <1>9, <2>1, <2>2, <2>3, <2>8, <3>2 DEF Releases
    <3>3. QED
      BY <3>1, <3>2
  <2>12. QED
    BY <2>10, <2>11
<1>12. QED
  BY <1>10, <1>11

LEMMA ReturnOrderly ==
  ASSUME TypeInv, Resting, Orderly, NEW t \in Callers, Return(t)
  PROVE  Orderly' /\ \A u \in Callers : pc'[u] = "idle"
<1>1. pc[t] = "return" /\ delay[t] = 0
  BY DEF Return, Running
<1>2. InOrder(t) /\ FlagIsTrue /\ \A u \in Callers \ {t} : pc[u] = "idle"
  BY <1>1, OthersRest DEF Orderly
<1>3. CS = 0 /\ taken = <<>> /\ busy = 0
  BY <1>1, <1>2, ChipTimeAssumption, DriverAssumption DEF InOrder, Heard, Ready, Sending, TypeInv, TypeOK
<1>4. \A u \in Callers : pc'[u] = "idle"
  BY <1>2 DEF Return, TypeInv, TypeOK
<1>5. QED
  BY <1>2, <1>3, <1>4 DEF Return, chipvars, Orderly, Alone, FlagIsTrue

LEMMA TickOrderly == ASSUME TypeInv, Orderly, Tick PROVE Orderly'
<1>1. /\ UNCHANGED <<pc, call, cmd, sent, rbyte, done, taken, wen, mem, writeEnabled, CS>>
      /\ delay' = [t \in Callers |-> Down(delay[t])] /\ busy' = Down(busy)
  BY DEF Tick
<1>2. busy \in Nat /\ \A t \in Callers : delay[t] \in Nat
  BY DriverAssumption, ChipTimeAssumption DEF TypeInv, TypeOK
<1>3. ASSUME NEW t \in Callers, InOrder(t)
      PROVE  InOrder(t)'
  <2>1. Ready(t)'
    BY <1>1, <1>2, <1>3 DEF InOrder, Ready, Down
  <2>2. Told(t)'
    BY <1>1, <1>3 DEF InOrder, Told, Performed, Sending
  <2>3. Commanded(t)' /\ Heard(t)'
    BY <1>1, <1>3 DEF InOrder, Commanded, Heard, Sending
  <2>4. QED
    BY <2>1, <2>2, <2>3 DEF InOrder
<1>4. FlagIsTrue' /\ Alone'
  BY <1>1 DEF Orderly, FlagIsTrue, Alone
<1>5. (\A t \in Callers : pc'[t] = "idle") => CS' = 0 /\ taken' = <<>> /\ busy' = 0
  BY <1>1, <1>2 DEF Orderly, Down
<1>6. QED
  BY <1>1, <1>3, <1>4, <1>5 DEF Orderly

\* What EepromStore sees of the tasks: the call of the task inside one, and
\* whether anything is done.
Current(p, c) == IF \E t \in Callers : p[t] # "idle" THEN c[CHOOSE t \in Callers : p[t] # "idle"]
                                                     ELSE NoCall
AnyDone(d) == \E t \in Callers : d[t]

LEMMA OnlyCurrent ==
  ASSUME NEW p, NEW c, NEW t \in Callers, p[t] # "idle", \A u \in Callers \ {t} : p[u] = "idle"
  PROVE  Current(p, c) = c[t]
<1>1. t = CHOOSE u \in Callers : p[u] # "idle"
  OBVIOUS
<1>2. QED
  BY <1>1 DEF Current

LEMMA NoneCurrent ==
  ASSUME NEW p, NEW c, \A t \in Callers : p[t] = "idle"
  PROVE  Current(p, c) = NoCall
BY DEF Current

\* How EepromStore's variables change.
Begins   == \E c \in AnyCall \ {NoCall} :
              /\ Current(pc, call) = NoCall /\ Current(pc', call') = c
              /\ AnyDone(done') = AnyDone(done) /\ UNCHANGED <<mem, out>>
Performs == /\ Current(pc, call) # NoCall /\ ~AnyDone(done) /\ AnyDone(done') = TRUE
            /\ mem' = After(mem, Current(pc, call))
            /\ Current(pc', call') = Current(pc, call) /\ out' = out
Finishes == /\ AnyDone(done) /\ AnyDone(done') = FALSE
            /\ Current(pc', call') = NoCall
            /\ out' = IF Current(pc, call).op = "READ" THEN mem[Cell(Current(pc, call).addr)] ELSE out
            /\ UNCHANGED mem
Pauses   == /\ Current(pc', call') = Current(pc, call) /\ AnyDone(done') = AnyDone(done)
            /\ UNCHANGED <<mem, out>>

LEMMA DoneOf ==
  ASSUME NEW d \in [Callers -> BOOLEAN], NEW t \in Callers, \A u \in Callers \ {t} : d[u] = FALSE
  PROVE  AnyDone(d) = d[t]
BY DEF AnyDone

LEMMA StoreStep ==
  ASSUME TypeInv, TypeInv', Resting, Resting', Orderly, [Next]_vars, ~overlapped'
  PROVE  Orderly' /\ (Begins \/ Performs \/ Finishes \/ Pauses)
<1>0. done \in [Callers -> BOOLEAN] /\ done' \in [Callers -> BOOLEAN] /\ pc \in [Callers -> Points]
  BY DEF TypeInv, TypeOK
<1>1. ASSUME NEW t \in Callers, NEW c \in CallsOf[t], Invoke(t, c)
      PROVE  Orderly' /\ Begins
  <2>1. \A u \in Callers : pc[u] = "idle"
    BY <1>1, Zenon DEF Invoke
  <2>2. /\ pc'[t] # "idle" /\ call'[t] = c /\ \A u \in Callers \ {t} : pc'[u] = "idle"
        /\ UNCHANGED <<mem, out>>
    BY <1>1, <2>1 DEF Invoke, chipvars, TypeInv, TypeOK
  <2>3. c \in AnyCall \ {NoCall}
    <3>1. c \in AnyCall
      BY Zenon DEF AnyCall
    <3>2. c \in CallRecords
      BY DriverAssumption
    <3>3. QED
      BY <3>1, <3>2, CommandsAreRecords DEF CallRecords
  <2>4. Current(pc, call) = NoCall /\ Current(pc', call') = c
    BY <2>1, <2>2, NoneCurrent, OnlyCurrent
  <2>5. AnyDone(done) = FALSE /\ AnyDone(done') = FALSE
    <3>1. \A u \in Callers : done[u] = FALSE
      BY <2>1 DEF Resting, Rests
    <3>2. done'[t] = FALSE /\ \A u \in Callers \ {t} : done'[u] = done[u]
      BY <1>0, <1>1 DEF Invoke
    <3>3. QED
      BY <3>1, <3>2 DEF AnyDone
  <2>6. QED
    BY <1>1, <2>2, <2>3, <2>4, <2>5, InvokeOrderly DEF Begins
<1>2. ASSUME NEW t \in Callers, writeEnable(t) \/ assertCS(t) \/ HoldCS(t)
      PROVE  Orderly' /\ Pauses
  <2>1. pc[t] \in {"enable", "select", "shift"} /\ pc'[t] # "idle" /\ UNCHANGED <<call, done, mem, out>>
    BY <1>0, <1>2 DEF writeEnable, assertCS, HoldCS, Running, chipvars
  <2>2. \A u \in Callers \ {t} : pc[u] = "idle" /\ pc'[u] = "idle"
    BY <1>0, <1>2, <2>1, OthersRest DEF writeEnable, assertCS, HoldCS
  <2>3. Current(pc, call) = call[t] /\ Current(pc', call') = call[t]
    BY <2>1, <2>2, OnlyCurrent
  <2>4. QED
    BY <1>2, <2>1, <2>3, SelectOrderly DEF Pauses
<1>3. ASSUME NEW t \in Callers, spi_xfer(t)
      PROVE  Orderly' /\ (Performs \/ Pauses)
  <2>1. pc[t] = "shift"
    BY <1>3 DEF spi_xfer, Running
  <2>2. Current(pc, call) = call[t] /\ \A u \in Callers \ {t} : pc[u] = "idle"
    BY <2>1, OthersRest, OnlyCurrent
  <2>3. CASE ReadsOut(t)
    <3>1. \A u \in Callers \ {t} : done[u] = FALSE /\ done'[u] = FALSE
      BY <1>0, <2>2, <2>3 DEF Resting, Rests, ReadsOut
    <3>2. AnyDone(done) = FALSE /\ AnyDone(done') = TRUE
      BY <1>0, <2>3, <3>1, DoneOf DEF ReadsOut
    <3>3. After(mem, call[t]) = mem
      BY <2>3, Zenon DEF ReadsOut, After
    <3>4. QED
      BY <1>3, <2>2, <2>3, <3>2, <3>3, XferOrderly DEF ReadsOut, Performs
  <2>4. CASE UNCHANGED <<pc, call, done, mem, out>>
    BY <1>3, <2>4, XferOrderly DEF Pauses
  <2>5. QED
    BY <1>3, <2>3, <2>4, XferOrderly
<1>4. ASSUME NEW t \in Callers, deassertCS(t)
      PROVE  Orderly' /\ (Performs \/ Pauses)
  <2>1. pc[t] # "idle" /\ pc'[t] # "idle" /\ UNCHANGED call /\ \A u \in Callers \ {t} : pc'[u] = pc[u]
    BY <1>0, <1>4 DEF deassertCS, Running
  <2>2. \A u \in Callers \ {t} : pc[u] = "idle" /\ pc'[u] = "idle"
    BY <2>1, OthersRest
  <2>3. Current(pc, call) = call[t] /\ Current(pc', call') = call[t]
    BY <2>1, <2>2, OnlyCurrent
  <2>4. \A u \in Callers \ {t} : done[u] = FALSE /\ done'[u] = FALSE
    BY <2>2 DEF Resting, Rests
  <2>5. AnyDone(done) = done[t] /\ AnyDone(done') = done'[t]
    BY <1>0, <2>4, DoneOf
  <2>6. CASE ProgramsCells(t)
    BY <1>4, <2>3, <2>5, <2>6, DeassertOrderly DEF ProgramsCells, Performs
  <2>7. CASE Releases(t)
    BY <1>4, <2>3, <2>5, <2>7, DeassertOrderly DEF Releases, Pauses
  <2>8. QED
    BY <1>4, <2>6, <2>7, DeassertOrderly
<1>5. ASSUME NEW t \in Callers, Return(t)
      PROVE  Orderly' /\ Finishes
  <2>1. pc[t] = "return"
    BY <1>5 DEF Return, Running
  <2>2. InOrder(t) /\ Current(pc, call) = call[t] /\ \A u \in Callers \ {t} : pc[u] = "idle"
    BY <2>1, OthersRest, OnlyCurrent
  <2>3. done[t] = TRUE /\ (call[t].op = "READ" => rbyte[t] = mem[Cell(call[t].addr)])
    BY <2>1, <2>2 DEF InOrder, Told, Performed
  <2>4. Orderly' /\ \A u \in Callers : pc'[u] = "idle"
    BY <1>5, ReturnOrderly
  <2>5. Current(pc', call') = NoCall /\ \A u \in Callers : done'[u] = FALSE
    BY <2>4, NoneCurrent DEF Resting, Rests
  <2>6. AnyDone(done) /\ AnyDone(done') = FALSE
    BY <2>3, <2>5 DEF AnyDone
  <2>7. out' = IF call[t].op = "READ" THEN mem[Cell(call[t].addr)] ELSE out
    BY <1>5, <2>3 DEF Return
  <2>8. UNCHANGED mem
    BY <1>5 DEF Return, chipvars
  <2>9. QED
    BY <2>2, <2>4, <2>5, <2>6, <2>7, <2>8 DEF Finishes
<1>6. CASE Tick
  BY <1>6, TickOrderly DEF Tick, Pauses
<1>7. CASE UNCHANGED vars
  <2>1. UNCHANGED <<pc, call, cmd, sent, rbyte, delay, done, taken, wen, busy, mem, writeEnabled, CS, out>>
    BY <1>7 DEF vars, taskvars, chipvars
  <2>2. Orderly'
    BY <2>1 DEF Orderly, Alone, FlagIsTrue, InOrder, Commanded, Heard, Ready, Told, Performed, Sending
  <2>3. QED
    BY <2>1, <2>2 DEF Pauses
<1>8. QED
  BY <1>1, <1>2, <1>3, <1>4, <1>5, <1>6, <1>7 DEF Next, Step

\* Once two calls have overlapped nothing is promised any more.
LEMMA OverlapLasts == ASSUME [Next]_vars, overlapped PROVE overlapped'
BY Zenon DEF Next, Step, Invoke, writeEnable, assertCS, spi_xfer, HoldCS, deassertCS, Return, Tick, vars,
   taskvars

Lone == ~overlapped => Orderly

\* EepromStore has the cells of the driver.
LEMMA SameCells ==
  /\ Store!NoCall = NoCall /\ \A a : Store!Cell(a) = Cell(a)
  /\ Store!Cells = Cells
  /\ \A m, c : Store!After(m, c) = After(m, c)
<1>1. Store!NoCall = NoCall /\ Store!Cells = Cells /\ Store!AllErased = AllErased
  BY DEF Store!NoCall, NoCall, Store!Cells, Cells, Store!AllErased, AllErased
<1>2. \A a : Store!Cell(a) = Cell(a)
  BY Zenon DEF Store!Cell, Cell
<1>3. \A m, c : Store!After(m, c) = After(m, c)
  BY <1>1, <1>2, Zenon DEF Store!After, After
<1>4. QED
  BY <1>1, <1>2, <1>3

LEMMA MappedStep ==
  ASSUME Begins \/ Performs \/ Finishes \/ Pauses, ~overlapped, overlapped' = overlapped
  PROVE  [Store!StNext]_(Store!stvars)
<1>1. CASE Begins
  <2>1. PICK c \in AnyCall \ {NoCall} :
          /\ Current(pc, call) = NoCall /\ Current(pc', call') = c
          /\ AnyDone(done') = AnyDone(done) /\ UNCHANGED <<mem, out>>
    BY <1>1, Zenon DEF Begins
  <2>2. Store!Exclusive(Store!StInvoke(c))
    BY <2>1, SameCells, Zenon DEF Current, AnyDone, Store!Exclusive, Store!StInvoke
  <2>3. QED
    BY <2>2, Zenon DEF Store!StNext
<1>2. CASE Performs
  <2>1. Store!Exclusive(Store!StPerform)
    BY <1>2, SameCells, Zenon DEF Performs, Current, AnyDone, Store!Exclusive, Store!StPerform
  <2>2. QED
    BY <2>1, Zenon DEF Store!StNext
<1>3. CASE Finishes
  <2>1. Store!Exclusive(Store!StReturn)
    BY <1>3, SameCells, Zenon DEF Finishes, Current, AnyDone, Store!Exclusive, Store!StReturn
  <2>2. QED
    BY <2>1, Zenon DEF Store!StNext
<1>4. CASE Pauses
  BY <1>4, Zenon DEF Pauses, Current, AnyDone, Store!stvars
<1>5. QED
  BY <1>1, <1>2, <1>3, <1>4

LEMMA StepIsStore ==
  ASSUME TypeInv, TypeInv', Resting, Resting', Lone, [Next]_vars
  PROVE  Lone' /\ [Store!StNext]_(Store!stvars)
<1>1. CASE overlapped'
  <2>1. overlapped' = TRUE
    BY <1>1, Zenon DEF TypeInv, TypeOK
  <2>2. QED
    BY <1>1, <2>1, Zenon DEF Lone, Store!StNext
<1>2. CASE ~overlapped'
  <2>1. ~overlapped
    BY <1>2, OverlapLasts
  <2>2. overlapped' = overlapped
    BY <1>2, <2>1, Zenon DEF TypeInv, TypeOK
  <2>3. Orderly' /\ (Begins \/ Performs \/ Finishes \/ Pauses)
    BY <1>2, <2>1, StoreStep DEF Lone
  <2>4. QED
    BY <2>1, <2>2, <2>3, MappedStep, Zenon DEF Lone
<1>3. QED
  BY <1>1, <1>2

\* Until two calls overlap, the bytes that the driver shifts, its sleeps and the
\* chip's own time amount to a memory: every step is one of EepromStore or none,
\* so a write is performed once, before its call returns, and a read returns
\* what is stored.
THEOREM EepromImplementsStore == Spec => Store!StSafe
<1>1. Init => Resting /\ Lone
  BY DEF Init, Resting, Rests, Lone, Orderly, Alone, FlagIsTrue
<1>2. Init => Store!StInit
  <2>1. ASSUME Init PROVE Current(pc, call) = NoCall /\ AnyDone(done) = FALSE
    BY <2>1 DEF Init, Current, AnyDone
  <2>2. QED
    BY <2>1, SameCells, Zenon DEF Init, Current, AnyDone, Store!StInit
<1>3. QED
  BY <1>1, <1>2, InitTypes, TypeStep, RestingStep, StepIsStore, PTL DEF Spec, Store!StSafe
=============================================================================
