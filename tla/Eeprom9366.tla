----------------------------- MODULE Eeprom9366 -----------------------------
(***************************************************************************)
(* The driver of the configuration EEPROM (app/eeprom9366.c), the chip     *)
(* behind SPI2 (external), and the two tasks that call the driver without  *)
(* a lock: the instrument task (CMD_READEE, CMD_WRITEEE, CMD_ERASEALL) and *)
(* the debug shell (eraseee and testee).                                   *)
(*                                                                         *)
(* One action is one access to the chip select, one byte of a transaction  *)
(* or one delay.  A byte on the bus stands for the command it belongs to   *)
(* and its place in it; the chip is given the bytes in the order in which  *)
(* the tasks shift them.  Time is the RTOS tick.                           *)
(***************************************************************************)
EXTENDS EepromCells, Sequences

CONSTANTS
  Callers,     \* the tasks that call the driver, out of "instr" and "shell"
  CallsOf,     \* CallsOf[t]: the calls that task t makes
  SelectLow,   \* ticks of delayms(1) in deassertCS: 0, for a tick is 2 ms
  WriteTime,   \* ticks of delayms(10) after a command that programs cells: 5
  ChipTime     \* the most ticks the chip is busy programming

\* The command writeEnable sends.
EnableCmd == [op |-> "EWEN", addr |-> 0, data |-> Erased]

ASSUME DriverAssumption ==
  /\ Callers \subseteq {"instr", "shell"}
  /\ \A t \in Callers : CallsOf[t] \subseteq CallRecords
  /\ SelectLow \in Nat /\ WriteTime \in Nat \ {0} /\ ChipTime \in Nat

\* The chip has finished when the caller comes back: 6 ms against 10 at most.
ASSUME ChipTimeAssumption == ChipTime <= WriteTime

VARIABLES
  pc, call,    \* each task's next step and the call it is in
  cmd,         \* the command each task is shifting: its call or EnableCmd
  sent,        \* bytes of it shifted
  rbyte,       \* the byte the task has read
  delay,       \* ticks left of the delay it sleeps in
  writeEnabled,\* the driver's static flag
  CS,          \* the chip select
  taken,       \* bytes the chip has taken since CS rose
  wen,         \* the chip's write-enable latch
  busy,        \* ticks the chip goes on programming
  mem,         \* the cells
  done,        \* whether the chip has performed each task's call
  overlapped,  \* whether two calls have overlapped
  out          \* the byte that eeprom9366_read last returned

taskvars == <<pc, call, cmd, sent, rbyte, delay, done, overlapped>>
chipvars == <<taken, wen, busy, mem>>
vars == <<taskvars, chipvars, writeEnabled, CS, out>>

\* Mutant: a byte too many.
LengthMore(c) == IF c.op \in {"READ", "WRITE"} THEN 4 ELSE 3

\* spiTransaction shifts three bytes, spiCMD two.
Length(c) == IF c.op \in {"READ", "WRITE"} THEN 3 ELSE 2
Frame(c) == [k \in 1 .. Length(c) |-> <<c, k>>]

Init ==
  /\ pc = [t \in Callers |-> "idle"] /\ call = [t \in Callers |-> NoCall]
  /\ cmd = [t \in Callers |-> NoCall] /\ sent = [t \in Callers |-> 0]
  /\ rbyte = [t \in Callers |-> Erased] /\ delay = [t \in Callers |-> 0]
  /\ done = [t \in Callers |-> FALSE] /\ overlapped = FALSE
  /\ writeEnabled = 0 /\ CS = 0
  /\ taken = <<>> /\ wen = 0 /\ busy = 0
  /\ mem \in [Cells -> Bytes]
  /\ out = Erased

Running(t, point) == pc[t] = point /\ delay[t] = 0

-----------------------------------------------------------------------------
(* The driver.                                                              *)

\* eeprom9366_read, _write, _erase, _eraseAll
Invoke(t, c) ==
  /\ pc[t] = "idle" /\ c \in CallsOf[t]
  /\ call' = [call EXCEPT ![t] = c]
  /\ cmd' = [cmd EXCEPT ![t] = c]
  /\ done' = [done EXCEPT ![t] = FALSE]
  /\ overlapped' = (overlapped \/ \E u \in Callers \ {t} : pc[u] # "idle")
  /\ pc' = [pc EXCEPT ![t] = IF c.op = "READ" THEN "select" ELSE "enable"]
  /\ UNCHANGED <<sent, rbyte, delay, chipvars, writeEnabled, CS, out>>

\* Mutant: the flag is set without a word to the chip.
FlagOnly(t) ==
  /\ Running(t, "enable")
  /\ pc' = [pc EXCEPT ![t] = "select"]
  /\ writeEnabled' = 1
  /\ UNCHANGED <<call, cmd, sent, rbyte, delay, done, chipvars, CS, out, overlapped>>

\* writeEnable returns at once when the flag is set.
writeEnable(t) ==
  /\ Running(t, "enable")
  /\ pc' = [pc EXCEPT ![t] = "select"]
  /\ cmd' = [cmd EXCEPT ![t] = IF writeEnabled = 1 THEN call[t] ELSE EnableCmd]
  /\ UNCHANGED <<call, sent, rbyte, delay, done, chipvars, writeEnabled, CS, out, overlapped>>

\* The chip starts afresh when CS rises.
assertCS(t) ==
  /\ Running(t, "select")
  /\ pc' = [pc EXCEPT ![t] = "shift"]
  /\ sent' = [sent EXCEPT ![t] = 0]
  /\ CS' = 1
  /\ taken' = IF CS = 0 THEN <<>> ELSE taken
  /\ UNCHANGED <<call, cmd, rbyte, delay, done, wen, busy, mem, writeEnabled, out, overlapped>>

\* The byte that the chip shifts back: the cell, for the last byte of an
\* undisturbed READ; anything else is noise.
Answers(c, bytes) ==
  IF bytes = Frame(c) /\ c.op = "READ" THEN {mem[Cell(c.addr)]} ELSE Bytes

\* spi_xfer.  A chip that is not selected, or is programming, takes nothing.
spi_xfer(t) ==
  /\ Running(t, "shift") /\ sent[t] < Length(cmd[t])
  /\ LET k == sent[t] + 1
         bytes == IF CS = 1 /\ busy = 0 THEN Append(taken, <<cmd[t], k>>) ELSE taken
     IN /\ sent' = [sent EXCEPT ![t] = k]
        /\ taken' = bytes
        /\ IF k < Length(cmd[t]) \/ cmd[t].op # "READ" THEN UNCHANGED <<rbyte, done>>
           ELSE /\ \E b \in Answers(cmd[t], bytes) : rbyte' = [rbyte EXCEPT ![t] = b]
                /\ done' = [done EXCEPT ![t] = bytes = Frame(cmd[t])]
  /\ UNCHANGED <<pc, call, cmd, delay, wen, busy, mem, writeEnabled, CS, out, overlapped>>

\* deassertCS first sleeps, which lets the other task run even for no ticks.
HoldCS(t) ==
  /\ Running(t, "shift") /\ sent[t] = Length(cmd[t])
  /\ pc' = [pc EXCEPT ![t] = "release"]
  /\ delay' = [delay EXCEPT ![t] = SelectLow]
  /\ UNCHANGED <<call, cmd, sent, rbyte, done, chipvars, writeEnabled, CS, out, overlapped>>

Intact(c) == taken = Frame(c)
Complete == taken # <<>> /\ Intact(taken[1][1])

\* CS falls after one whole command: the chip executes it.  A command that
\* programs cells is ignored unless the chip is write-enabled.
ChipExecutes ==
  /\ Complete
  /\ LET c == taken[1][1]
         programs == Programs(c) /\ wen = 1
     IN /\ wen' = IF c.op = "EWEN" THEN 1 ELSE wen
        /\ mem' = IF programs THEN After(mem, c) ELSE mem
        /\ IF programs THEN busy' \in 0 .. ChipTime ELSE busy' = busy
        /\ done' = [t \in Callers |-> done[t] \/ (programs /\ call[t] = c)]

\* CS falls after the bytes of two commands, or of part of one: the chip does
\* nothing, or executes whatever their bits amount to.
ChipMisreads ==
  /\ ~Complete /\ UNCHANGED done
  /\ \/ UNCHANGED <<mem, wen, busy>>
     \/ /\ taken # <<>>
        /\ \/ wen' \in {0, 1} /\ UNCHANGED <<mem, busy>>
           \/ /\ wen = 1 /\ wen' = wen
              /\ \/ \E a \in Cells, b \in Bytes : mem' = [mem EXCEPT ![a] = b]
                 \/ mem' = AllErased
              /\ busy' \in 0 .. ChipTime

\* Mutant: a read returns before deassertCS.
ReadKeepsCS(t) ==
  /\ Running(t, "release")
  /\ CS' = IF cmd[t].op = "READ" THEN CS ELSE 0
  /\ taken' = IF cmd[t].op = "READ" THEN taken ELSE <<>>
  /\ pc' = [pc EXCEPT ![t] = IF cmd[t] = EnableCmd THEN "select" ELSE "return"]
  /\ cmd' = [cmd EXCEPT ![t] = call[t]]
  /\ UNCHANGED <<call, sent, rbyte, delay, done, wen, busy, mem, writeEnabled, out, overlapped>>

\* gpio_clear.  A caller that has sent EWEN sets the flag and goes on to the
\* command of its call; a read returns; the others sleep 10 ms.
deassertCS(t) ==
  /\ Running(t, "release")
  /\ CS' = 0 /\ taken' = <<>>
  /\ IF CS = 1 THEN ChipExecutes \/ ChipMisreads ELSE UNCHANGED <<mem, wen, busy, done>>
  /\ IF cmd[t] = EnableCmd
       THEN /\ writeEnabled' = 1
            /\ cmd' = [cmd EXCEPT ![t] = call[t]]
            /\ pc' = [pc EXCEPT ![t] = "select"]
            /\ UNCHANGED delay
       ELSE /\ pc' = [pc EXCEPT ![t] = "return"]
            /\ delay' = [delay EXCEPT ![t] = IF call[t].op = "READ" THEN 0 ELSE WriteTime]
            /\ UNCHANGED <<writeEnabled, cmd>>
  /\ UNCHANGED <<call, sent, rbyte, out, overlapped>>

Return(t) ==
  /\ Running(t, "return")
  /\ pc' = [pc EXCEPT ![t] = "idle"]
  /\ call' = [call EXCEPT ![t] = NoCall]
  /\ cmd' = [cmd EXCEPT ![t] = NoCall]
  /\ done' = [done EXCEPT ![t] = FALSE]
  /\ out' = IF call[t].op = "READ" THEN rbyte[t] ELSE out
  /\ UNCHANGED <<sent, rbyte, delay, chipvars, writeEnabled, CS, overlapped>>

-----------------------------------------------------------------------------
Down(n) == IF n > 0 THEN n - 1 ELSE 0

Tick ==
  /\ busy > 0 \/ \E t \in Callers : delay[t] > 0
  /\ delay' = [t \in Callers |-> Down(delay[t])]
  /\ busy' = Down(busy)
  /\ UNCHANGED <<pc, call, cmd, sent, rbyte, done, taken, wen, mem, writeEnabled, CS, out, overlapped>>

Step(t) == writeEnable(t) \/ assertCS(t) \/ spi_xfer(t) \/ HoldCS(t) \/ deassertCS(t) \/ Return(t)

Next == Tick \/ \E t \in Callers : Step(t) \/ \E c \in CallsOf[t] : Invoke(t, c)
Spec == Init /\ [][Next]_vars
FairSpec == Spec /\ WF_vars(Tick) /\ \A t \in Callers : WF_vars(Step(t))

-----------------------------------------------------------------------------
Points == {"idle", "enable", "select", "shift", "release", "return"}
AnyCall == (UNION {CallsOf[t] : t \in Callers}) \cup {NoCall}

\* Every variable stays in its range.
TypeOK ==
  /\ pc \in [Callers -> Points]
  /\ call \in [Callers -> AnyCall] /\ cmd \in [Callers -> AnyCall \cup {EnableCmd}]
  /\ sent \in [Callers -> 0 .. 3] /\ rbyte \in [Callers -> Bytes]
  /\ delay \in [Callers -> 0 .. SelectLow + WriteTime]
  /\ done \in [Callers -> BOOLEAN] /\ overlapped \in BOOLEAN
  /\ writeEnabled \in {0, 1} /\ CS \in {0, 1} /\ wen \in {0, 1}
  /\ busy \in 0 .. ChipTime
  /\ mem \in [Cells -> Bytes] /\ out \in Bytes

\* As long as no two calls overlap, driver and chip are the memory of
\* EepromStore: every call is performed once, a write is there when the call
\* returns, a read returns what was written last by whichever task, and every
\* call returns.
Store == INSTANCE EepromStore WITH
  Calls <- AnyCall \ {NoCall},
  call <- IF \E t \in Callers : pc[t] # "idle" THEN call[CHOOSE t \in Callers : pc[t] # "idle"]
                                               ELSE NoCall,
  done <- \E t \in Callers : done[t]
ImplementsStore == Store!StSpec

\* However two callers interleave, the chip is deselected and has forgotten their
\* bytes once both have returned: the next command starts from its first byte.
DeselectedAtRest == (\A t \in Callers : pc[t] = "idle") => CS = 0 /\ taken = <<>>
=============================================================================
