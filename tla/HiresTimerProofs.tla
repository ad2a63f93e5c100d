-------------------------- MODULE HiresTimerProofs --------------------------
(***************************************************************************)
(* IndInv of HiresTimer is inductive and what the command measures follows *)
(* from it, for every size of the counter and every interleaving with the  *)
(* kernel's readings.                                                      *)
(***************************************************************************)
EXTENDS HiresTimer, TLAPS

\* What division by the size of the counter leaves.
LEMMA Remainder ==
  ASSUME NEW n \in Nat \ {0}, NEW a \in Nat
  PROVE  /\ a % n \in 0 .. n - 1
         /\ a \div n \in Nat
         /\ a % n = a - n * (a \div n)
OBVIOUS

LEMMA InitOK == Init => IndInv
BY TimerAssumption DEF Init, IndInv, TypeOK, Reading

\* Every step of the command, of the kernel and of time keeps the invariant.
LEMMA IndStep == ASSUME IndInv, [Next]_vars PROVE IndInv'
<1> USE TimerAssumption DEF IndInv, TypeOK, Reading
<1>0. now \in Nat /\ CounterSize \in Nat \ {0}
  OBVIOUS
<1>00. Counter \in 0 .. CounterSize - 1
  BY <1>0, Remainder DEF Counter
<1>1. CASE ReadCounter
  BY <1>1, <1>00 DEF ReadCounter, Only, Counter
<1>2. CASE Compare
  BY <1>2 DEF Compare, Only
<1>3. CASE FetchAdd
  BY <1>3 DEF FetchAdd, Only
<1>4. CASE Store
  BY <1>4 DEF Store, Only
<1>5. CASE SetLast
  BY <1>5 DEF SetLast, Only
<1>6. CASE Get
  <2>1. Clock(upperWord, current) = current
    BY <1>6 DEF Get, Clock
  <2>2. shown' \in Nat
    <3>1. ASSUME NEW d \in Int PROVE tics2us(d) \in Nat
      <4>1. CASE d > TicsPerUs
        <5>1. d \in Nat
          BY <4>1
        <5>2. d \div TicsPerUs \in Nat
          BY <5>1, Remainder
        <5>3. QED
          BY <4>1, <5>2 DEF tics2us
      <4>2. CASE ~(d > TicsPerUs)
        BY <4>2 DEF tics2us
      <4>3. QED
        BY <4>1, <4>2
    <3>2. CASE start < 0
      BY <1>6, <3>2 DEF Get
    <3>3. CASE ~(start < 0)
      <4>1. current - start \in Int
        BY <1>6 DEF Get
      <4>2. shown' = tics2us(current - start)
        BY <1>6, <2>1, <3>3 DEF Get
      <4>3. QED
        BY <3>1, <4>1, <4>2
    <3>4. QED
      BY <3>2, <3>3
  <2>3. QED
    BY <1>6, <2>1, <2>2 DEF Get, Only
<1>7. CASE Wake
  BY <1>7 DEF Wake, Only
<1>8. CASE KernelReads
  <2>1. kernelTime' \in Nat
    BY <1>8, <1>00 DEF KernelReads, Clock
  <2>2. QED
    BY <1>8, <1>00, <2>1 DEF KernelReads, locals
<1>9. CASE Tick
  BY <1>9 DEF Tick, locals
<1>10. CASE UNCHANGED vars
  BY <1>10 DEF vars, locals
<1>11. QED
  BY <1>1, <1>2, <1>3, <1>4, <1>5, <1>6, <1>7, <1>8, <1>9, <1>10 DEF Next

\* The clock, its readings and what is shown keep their ranges, for every size of
\* the counter.
THEOREM TimerTypeCorrect == Spec => []TypeOK
<1>1. IndInv => TypeOK
  BY DEF IndInv
<1>2. QED
  BY <1>1, InitOK, IndStep, PTL DEF Spec

\* The quotient of a larger number is no smaller.
LEMMA QuotientGrows ==
  ASSUME NEW n \in Nat \ {0}, NEW a \in Nat, NEW b \in Nat, a <= b
  PROVE  a \div n <= b \div n
<1> DEFINE q == a \div n
           r == b \div n
<1>1. /\ q \in Nat /\ r \in Nat
      /\ a = n * q + (a % n) /\ b = n * r + (b % n)
      /\ a % n \in 0 .. n - 1 /\ b % n \in 0 .. n - 1
  BY Remainder
<1> HIDE DEF q, r
<1>2. SUFFICES ASSUME r + 1 <= q PROVE FALSE
  BY <1>1 DEF q, r
<1>3. n * (r + 1) <= n * q /\ n * (r + 1) = n * r + n
  <2>1. n * q = n * (r + 1) + n * (q - (r + 1)) /\ q - (r + 1) \in Nat
    BY <1>1, <1>2
  <2>2. n * (q - (r + 1)) \in Nat /\ n * (r + 1) \in Nat /\ n * q \in Nat
    BY <1>1, <2>1
  <2>3. QED
    BY <1>1, <2>1, <2>2
<1>4. n * r \in Nat /\ n * q \in Nat
  BY <1>1
<1>5. QED
  BY <1>1, <1>3, <1>4

\* Wraps are counted from 0.
LEMMA LostTime ==
  ASSUME NEW n \in Nat, NEW w \in Int, w >= 0 PROVE n * w \in Nat /\ (w = 0 => n * w = 0)
<1>1. w \in Nat
  OBVIOUS
<1>2. QED
  BY <1>1

\* What a step that ends a measurement leaves, in the terms of its two readings.
LEMMA MeasuredStep ==
  ASSUME IndInv, [Next]_vars, Measured
  PROVE  /\ delta' = elapsed' - CounterSize * Wraps
         /\ shown' = tics2us(delta')
         /\ elapsed' \in Int /\ Wraps \in Int
         /\ Wraps >= 0
<1>1. IndInv /\ [Next]_vars /\ Measured
  OBVIOUS
<1>2. Get /\ start >= 0
  <2>1. ~(ReadCounter \/ Compare \/ FetchAdd \/ Store \/ SetLast \/ Wake)
    BY <1>1 DEF Measured, ReadCounter, Compare, FetchAdd, Store, SetLast, Wake
  <2>2. ~(KernelReads \/ Tick \/ UNCHANGED vars)
    BY <1>1 DEF Measured, KernelReads, Tick, vars, locals
  <2>3. Get
    BY <1>1, <2>1, <2>2 DEF Next
  <2>4. start \in Int
    BY <1>1 DEF IndInv
  <2>5. CASE start < 0
    BY <1>1, <2>3, <2>5 DEF Get, Measured
  <2>6. QED
    BY <2>3, <2>4, <2>5
<1>3. /\ delta' = current - start
      /\ elapsed' = readAt - startAt
      /\ shown' = tics2us(delta')
  BY <1>1, <1>2, TimerAssumption DEF Get, Clock, IndInv, TypeOK, Reading, Measured
<1>4. current = readAt % CounterSize /\ start = startAt % CounterSize
  BY <1>1, <1>2 DEF IndInv, Reading, Measured
<1>5. /\ readAt % CounterSize = readAt - CounterSize * (readAt \div CounterSize)
      /\ startAt % CounterSize = startAt - CounterSize * (startAt \div CounterSize)
      /\ readAt \div CounterSize \in Nat /\ startAt \div CounterSize \in Nat
  BY <1>1, Remainder, TimerAssumption DEF IndInv
<1>6. QED
  <2> DEFINE r == readAt \div CounterSize
             s == startAt \div CounterSize
  <2>1. CounterSize * (r - s) = CounterSize * r - CounterSize * s
    BY <1>5, TimerAssumption
  <2>2. readAt \in Nat /\ startAt \in Nat /\ CounterSize * r \in Int /\ CounterSize * s \in Int
    BY <1>1, <1>5, TimerAssumption DEF IndInv
  <2>3. delta' = (readAt - CounterSize * r) - (startAt - CounterSize * s)
    BY <1>3, <1>4, <1>5
  <2> HIDE DEF r, s
  <2>4. delta' = elapsed' - CounterSize * (r - s)
    BY <1>3, <2>1, <2>2, <2>3
  <2>5. Wraps = r - s /\ delta' = elapsed' - CounterSize * Wraps
    BY <2>4 DEF r, s, Wraps
  <2>6. r - s >= 0
    <3>1. readAt >= startAt
      BY <1>1 DEF IndInv
    <3>2. QED
      BY <2>2, <3>1, QuotientGrows, TimerAssumption DEF r, s
  <2>7. r \in Nat /\ s \in Nat
    BY <1>5 DEF r, s
  <2>8. QED
    BY <1>3, <2>2, <2>5, <2>6, <2>7

\* A measurement without a wrap is the time that passed, for every size of the
\* counter and every interleaving with the kernel's readings.
THEOREM MeasurementIsExact == Spec => MeasuresElapsedTime
<1>1. ASSUME IndInv, [Next]_vars
      PROVE [Measured /\ Wraps = 0 => delta' = elapsed']_vars
  <2>1. SUFFICES ASSUME Measured, Wraps = 0 PROVE delta' = elapsed'
    OBVIOUS
  <2>2. delta' = elapsed' - CounterSize * Wraps /\ elapsed' \in Int
    BY <1>1, <2>1, MeasuredStep
  <2>3. CounterSize * Wraps = 0
    BY <2>1, LostTime, TimerAssumption
  <2>4. QED
    BY <2>2, <2>3
<1>2. QED
  BY <1>1, InitOK, IndStep, PTL DEF Spec, MeasuresElapsedTime

\* What the command shows is the time that passed without a wrap, and never more.
THEOREM MeasurementShowsNoMore == Spec => ShowsNoMore
<1> USE TimerAssumption
<1>1. ASSUME IndInv, [Next]_vars, Measured
      PROVE  shown' <= tics2us(elapsed') /\ (Wraps = 0 => shown' = tics2us(elapsed'))
  <2>1. /\ delta' = elapsed' - CounterSize * Wraps /\ shown' = tics2us(delta')
        /\ elapsed' \in Int /\ Wraps \in Int /\ Wraps >= 0
    BY <1>1, MeasuredStep
  <2>2. /\ delta' \in Int /\ delta' <= elapsed'
        /\ Wraps = 0 => delta' = elapsed'
    <3>1. ASSUME NEW e \in Int, NEW l \in Nat PROVE e - l \in Int /\ e - l <= e /\ (l = 0 => e - l = e)
      OBVIOUS
    <3>2. CounterSize * Wraps \in Nat /\ (Wraps = 0 => CounterSize * Wraps = 0)
      BY <2>1, LostTime
    <3>3. delta' = elapsed' - CounterSize * Wraps /\ elapsed' \in Int
      BY <2>1
    <3>4. QED
      BY <3>1, <3>2, <3>3, Zenon
  <2>3. ASSUME NEW d \in Int, NEW e \in Int, d <= e PROVE tics2us(d) <= tics2us(e)
    <3>1. CASE d > TicsPerUs
      <4>1. d \in Nat /\ e \in Nat /\ e > TicsPerUs
        BY <2>3, <3>1
      <4>2. d \div TicsPerUs <= e \div TicsPerUs
        BY <2>3, <4>1, QuotientGrows
      <4>3. QED
        BY <3>1, <4>1, <4>2 DEF tics2us
    <3>2. CASE ~(d > TicsPerUs) /\ e > TicsPerUs
      <4>1. TicsPerUs \div TicsPerUs = 1
        BY Remainder
      <4>2. e \in Nat /\ TicsPerUs <= e
        BY <3>2
      <4>3. e \div TicsPerUs >= 1
        BY <4>1, <4>2, QuotientGrows
      <4>4. QED
        BY <3>2, <4>2, <4>3 DEF tics2us
    <3>3. CASE ~(d > TicsPerUs) /\ ~(e > TicsPerUs)
      BY <3>3 DEF tics2us
    <3>4. QED
      BY <3>1, <3>2, <3>3
  <2>5. QED
    BY <2>1, <2>2, <2>3
<1>2. ASSUME IndInv, [Next]_vars
      PROVE  [Measured => /\ shown' <= tics2us(elapsed')
                          /\ Wraps = 0 => shown' = tics2us(elapsed')]_vars
  BY <1>1, <1>2
<1>3. QED
  BY <1>2, InitOK, IndStep, PTL DEF Spec, ShowsNoMore
=============================================================================
