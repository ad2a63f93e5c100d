----------------------------- MODULE HiresTimer -----------------------------
(***************************************************************************)
(* The 64-bit clock of app/hiresTimer.c, built on a 32-bit counter, and    *)
(* its two readers: the shell command timer (app/command.c), and the       *)
(* kernel, which reads it at every context switch for its run-time         *)
(* statistics (app/FreeRTOSConfig.h) and so in the midst of the command's  *)
(* own readings.                                                           *)
(***************************************************************************)
EXTENDS Integers

CONSTANTS
  CounterSize,  \* 2^32: the counter of TIM2 wraps here
  TicsPerUs,    \* 48: the timer counts every second cycle of 96 MHz
  MaxTime       \* bound on time

ASSUME TimerAssumption ==
  CounterSize \in Nat \ {0} /\ TicsPerUs \in Nat \ {0} /\ MaxTime \in Nat

VARIABLES
  now,          \* counter ticks since init_hiresTimer, never wrapped
  upperWord, lastReading,
  pc,           \* where cmd_timer stands
  current, new, \* locals of its call of hiresTimer_getTime
  readAt,       \* `now' when it read the counter
  start, startAt,
  delta, elapsed, \* of its last measurement, and the time that really passed
  shown,        \* what it prints, in us
  kernelTime    \* what the kernel last read

locals == <<pc, current, new, readAt, start, startAt, delta, elapsed, shown>>
vars == <<now, upperWord, lastReading, locals, kernelTime>>

Init ==
  /\ now = 0 /\ upperWord = 0 /\ lastReading = 0
  /\ pc = "idle" /\ current = 0 /\ new = 0 /\ readAt = 0
  /\ start = -1 /\ startAt = 0 /\ delta = 0 /\ elapsed = 0 /\ shown = 0
  /\ kernelTime = 0

Counter == now % CounterSize
Clock(upper, low) == upper * CounterSize + low

-----------------------------------------------------------------------------
(* The command: two readings about a delay.  Each step may be followed by a *)
(* context switch.                                                          *)

Only(changed) == UNCHANGED <<now, kernelTime>> /\ changed

ReadCounter ==
  /\ pc \in {"idle", "awake"} /\ pc' = "compare"
  /\ current' = Counter /\ readAt' = now
  /\ start' = IF pc = "idle" THEN -1 ELSE start
  /\ Only(UNCHANGED <<upperWord, lastReading, new, startAt, delta, elapsed, shown>>)

Compare ==
  /\ pc = "compare"
  /\ pc' = IF current < lastReading THEN "add" ELSE "set"
  /\ Only(UNCHANGED <<upperWord, lastReading, current, new, readAt, start, startAt, delta, elapsed, shown>>)

\* __atomic_fetch_add returns the value before the addition.
FetchAdd ==
  /\ pc = "add" /\ pc' = "store"
  /\ new' = upperWord /\ upperWord' = upperWord + 1
  /\ Only(UNCHANGED <<lastReading, current, readAt, start, startAt, delta, elapsed, shown>>)

\* That value is stored back, which undoes the addition.
Store ==
  /\ pc = "store" /\ pc' = "set"
  /\ upperWord' = new
  /\ Only(UNCHANGED <<lastReading, current, new, readAt, start, startAt, delta, elapsed, shown>>)

SetLast ==
  /\ pc = "set" /\ pc' = "get"
  /\ lastReading' = current
  /\ Only(UNCHANGED <<upperWord, current, new, readAt, start, startAt, delta, elapsed, shown>>)

\* Mutant: neither a negative nor a short difference is looked for.
tics2usRaw(d) == d \div TicsPerUs

\* Mutant: the sign of a negative difference is dropped.
tics2usAbs(d) == IF d > TicsPerUs THEN d \div TicsPerUs
                 ELSE IF -d > TicsPerUs THEN (-d) \div TicsPerUs ELSE 1

\* tics2us: a negative difference becomes 0, and nothing less than 1 is returned.
tics2us(d) == IF d > TicsPerUs THEN d \div TicsPerUs ELSE 1

\* Mutant: the reading returned is the shared one, which the kernel may have moved.
GetShared ==
  /\ pc = "get"
  /\ IF start < 0
       THEN /\ pc' = "asleep"
            /\ start' = Clock(upperWord, lastReading) /\ startAt' = readAt
            /\ UNCHANGED <<delta, elapsed, shown>>
       ELSE /\ pc' = "idle"
            /\ delta' = Clock(upperWord, lastReading) - start
            /\ elapsed' = readAt - startAt
            /\ shown' = tics2us(delta')
            /\ UNCHANGED <<start, startAt>>
  /\ Only(UNCHANGED <<upperWord, lastReading, current, new, readAt>>)

\* The first reading begins the delay, the second ends the measurement.
Get ==
  /\ pc = "get"
  /\ IF start < 0
       THEN /\ pc' = "asleep"
            /\ start' = Clock(upperWord, current) /\ startAt' = readAt
            /\ UNCHANGED <<delta, elapsed, shown>>
       ELSE /\ pc' = "idle"
            /\ delta' = Clock(upperWord, current) - start
            /\ elapsed' = readAt - startAt
            /\ shown' = tics2us(delta')
            /\ UNCHANGED <<start, startAt>>
  /\ Only(UNCHANGED <<upperWord, lastReading, current, new, readAt>>)

Wake ==
  /\ pc = "asleep" /\ pc' = "awake"
  /\ Only(UNCHANGED <<upperWord, lastReading, current, new, readAt, start, startAt, delta, elapsed, shown>>)

\* hiresTimer_getTime at a context switch, which no task interrupts.
KernelReads ==
  /\ lastReading' = Counter
  /\ kernelTime' = Clock(upperWord, Counter)
  /\ UNCHANGED <<now, upperWord, locals>>

Tick ==
  /\ now < MaxTime /\ now' = now + 1
  /\ UNCHANGED <<upperWord, lastReading, locals, kernelTime>>

Next == ReadCounter \/ Compare \/ FetchAdd \/ Store \/ SetLast \/ Get \/ Wake
          \/ KernelReads \/ Tick
Spec == Init /\ [][Next]_vars

-----------------------------------------------------------------------------
\* Every variable stays in its range: a reading is one of the counter, and what
\* is shown is no less than 0, though a measurement in which the counter wraps is.
TypeOK ==
  /\ now \in 0 .. MaxTime
  /\ {upperWord, new, kernelTime, shown} \subseteq Nat
  /\ {lastReading, current} \subseteq 0 .. CounterSize - 1

Measured == pc = "get" /\ pc' = "idle"

Wraps == readAt \div CounterSize - startAt \div CounterSize

\* A measurement in which the counter does not wrap is the time that passed,
\* however often the kernel reads the clock in the midst of the command's own two
\* readings, moving lastReading past what the command holds and so sending it
\* into the rollover branch without a rollover.  (A measurement in which the counter
\* does wrap loses CounterSize, as the upper word never advances: a departure from
\* what the branch is for, of which nothing is claimed here.)
MeasuresElapsedTime ==
  [][Measured /\ Wraps = 0 => delta' = elapsed']_vars

\* "values to nearest 1 uSec [...] minimum return set to 1": without a wrap in the
\* measurement the command shows the time that passed, in whole microseconds, and
\* with one it may show less, but never more.
ShowsNoMore ==
  [][Measured => /\ shown' <= tics2us(elapsed')
                 /\ Wraps = 0 => shown' = tics2us(elapsed')]_vars

\* The inductive strengthening: between its reading of the counter and its use
\* the command holds the counter of that moment, and the upper word is 0 again
\* when the rollover branch is left.  A clock that really advanced it would need
\* another strengthening, and a guard against the kernel's readings, to keep
\* MeasuresElapsedTime.
Reading == {"compare", "add", "store", "set", "get"}
IndInv ==
  /\ TypeOK
  /\ pc \in Reading \cup {"idle", "asleep", "awake"}
  /\ readAt \in Nat /\ startAt \in Nat /\ start \in Nat \cup {-1}
  /\ startAt <= readAt /\ readAt <= now
  /\ upperWord = IF pc = "store" THEN 1 ELSE 0
  /\ pc \in Reading => current = readAt % CounterSize
  /\ pc = "store" => new = 0
  /\ start # -1 => start = startAt % CounterSize
=============================================================================
