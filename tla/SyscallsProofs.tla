--------------------------- MODULE SyscallsProofs ---------------------------
(***************************************************************************)
(* The console ring for every buffer size and every length of write, the   *)
(* heap for every layout and size of block, and that both hold where they  *)
(* are composed.                                                           *)
(***************************************************************************)
EXTENDS Syscalls, TLAPS

(* The ring.  Clean is what a ring in order looks like; Ordered adds what    *)
(* the echo may leave half done.                                            *)

Fields == {"buffer", "wPtr", "size"}

Shape ==
  /\ TypeOK
  /\ rPtr = 0 /\ size \in Slots /\ reg.size \in Slots
  /\ echo = "send" => reg.ptr = 0
  /\ echo = "reset" => "buffer" \notin stores

\* What the histories say of the phases.
Phases ==
  /\ hit => mixed
  /\ ~EchoHolds => ~hit
  /\ pc = "put" /\ EchoHolds => hit

\* The n newest of p characters are in the first n slots.
Newest(buf, n, p) == \A i \in 0 .. n - 1 : buf[i] = p - n + 1 + i
\* Of p characters, each is pending (n) or gone (g), unless the ring was filled (f).
Kept(f, n, p, g) == ~f => p = g + n

Clean == wPtr = size /\ Newest(buffer, size, put) /\ Kept(filled, size, put, offset + given)

Succ(i) == IF i = BUFFER_SIZE - 1 THEN 0 ELSE i + 1

HalfStored ==
  /\ reg.ptr = reg.size /\ reg.char = put /\ put > 0
  /\ Newest(buffer, reg.size, put - 1) /\ Kept(filled, reg.size, put - 1, offset + given)
  /\ "size" \notin stores /\ Succ(reg.size) = 0 => filled
  /\ wPtr = IF "wPtr" \in stores THEN reg.size ELSE Succ(reg.size)
  /\ size = IF "size" \in stores THEN reg.size ELSE Succ(reg.size)
  /\ "buffer" \notin stores => buffer[reg.size] = put

HalfReset ==
  /\ "wPtr" \notin stores => wPtr = 0
  /\ "size" \notin stores => size = 0

Ordered ==
  /\ ~mixed /\ echo \notin {"store", "reset"} => Clean
  /\ ~mixed /\ echo = "send" => reg.size = size
  /\ ~mixed /\ echo = "store" => HalfStored
  /\ ~hit /\ echo = "reset" => HalfReset
  /\ ~mixed /\ echo = "reset" => Kept(filled, 0, put, offset + given)

IndInv == Shape /\ Phases /\ Ordered

-----------------------------------------------------------------------------
\* Advancing an index of the ring: it wraps exactly at the last slot.
LEMMA Advance ==
  ASSUME NEW i \in Slots
  PROVE  (i + 1) % BUFFER_SIZE = Succ(i) /\ Succ(i) \in Slots
<1>1. ASSUME NEW n \in Nat \ {0}, NEW j \in 0 .. n - 1
      PROVE  (j + 1) % n = IF j = n - 1 THEN 0 ELSE j + 1
  OBVIOUS
<1>2. BUFFER_SIZE \in Nat \ {0} /\ i \in 0 .. BUFFER_SIZE - 1
  BY ConsoleAssumption DEF Slots
<1>3. QED
  BY <1>1, <1>2 DEF Succ, Slots

\* Types and the ranges of the pointers.
LEMMA ShapeStep == ASSUME Shape, [Next]_vars PROVE Shape'
<1> USE ConsoleAssumption DEF Shape, TypeOK, Nothing, Resets, history
<1>0. 0 \in Slots /\ BUFFER_SIZE \in Nat /\ Slots \subseteq 0 .. BUFFER_SIZE
  BY DEF Slots
<1>1. ASSUME NEW n \in Lengths, myprintf(n) PROVE Shape'
  BY <1>0, <1>1 DEF myprintf, ringvars, echovars, endpoint
<1>2. CASE enq
  <2>1. wPtr' \in Slots /\ size' \in Slots
    BY <1>2, Advance DEF enq
  <2>2. filled' \in BOOLEAN
    BY <1>2, Zenon DEF enq
  <2>3. QED
    BY <1>0, <1>2, <2>1, <2>2 DEF enq, echovars, endpoint
<1>3. CASE sendPacket
  <2>1. pc' \in {"idle", "put"} /\ left' \in Nat
    BY <1>3 DEF sendPacket, NextCharacter
  <2>2. rPtr' = 0 /\ wPtr' \in Slots /\ size' \in Slots /\ given' \in Nat
    BY <1>0, <1>3 DEF sendPacket
  <2>3. /\ offset' = offset \/ offset' = put - given'
        /\ hit' = hit /\ (mixed' = mixed \/ mixed' = (mixed /\ EchoHolds))
        /\ filled' = filled \/ filled' = (filled /\ EchoHolds)
    <3> HIDE DEF Shape, TypeOK
    <3> QED
      BY <1>3 DEF sendPacket, Emptied, EchoHolds, history
  <2>5. offset' \in Int
    BY <2>2, <2>3
  <2>6. mixed' \in BOOLEAN /\ hit' \in BOOLEAN /\ filled' \in BOOLEAN
    BY <2>3, Zenon
  <2>4. QED
    BY <1>0, <1>3, <2>1, <2>2, <2>5, <2>6 DEF sendPacket, echovars
<1>4. ASSUME NEW n \in Lengths, Echo(n) PROVE Shape'
  BY <1>0, <1>4 DEF Echo, ringvars, printvars, endpoint
<1>5. CASE EchoLoad
  BY <1>0, <1>5 DEF EchoLoad, ringvars, printvars, endpoint
<1>6. ASSUME NEW f \in Fields, EchoStore(f) PROVE Shape'
  <2>1. wPtr' \in Slots /\ size' \in Slots
    BY <1>6, Advance DEF EchoStore
  <2>2. buffer' \in [Slots -> Nat]
    BY <1>6 DEF EchoStore
  <2>3. reg' \in [ptr : Slots, size : 0 .. BUFFER_SIZE, char : Nat] /\ reg'.size \in Slots
        /\ echo' \in {"next", "store"}
    BY <1>0, <1>6 DEF EchoStore, Forget
  <2>5. hit' \in BOOLEAN
    BY <1>6, Zenon DEF EchoStore, Forget
  <2>6. filled' \in BOOLEAN
    BY <1>6, Zenon DEF EchoStore
  <2>4. QED
    BY <1>0, <1>6, <2>1, <2>2, <2>3, <2>5, <2>6 DEF EchoStore, printvars, endpoint
<1>7. CASE EchoSend
  BY <1>0, <1>7 DEF EchoSend, ringvars, printvars, endpoint
<1>8. CASE EchoPacket
  <2>4. given' = given \/ given' = given + reg.size
    BY <1>8 DEF EchoPacket
  <2>1. /\ echo' \in {"idle", "reset"}
        /\ reg' = Nothing /\ stores' \subseteq {"buffer", "wPtr", "size"}
        /\ echo' = "reset" => "buffer" \notin stores'
    BY <1>0, <1>8 DEF EchoPacket, Forget
  <2>2. hit' \in BOOLEAN
    BY <1>8, Zenon DEF EchoPacket, Forget
  <2>3. QED
    BY <1>0, <1>8, <2>1, <2>2, <2>4 DEF EchoPacket, ringvars, printvars
<1>9. ASSUME NEW f \in Fields, EchoReset(f) PROVE Shape'
  <2>1. wPtr' \in Slots /\ size' \in Slots
    BY <1>0, <1>9 DEF EchoReset
  <2>2. reg' \in [ptr : Slots, size : 0 .. BUFFER_SIZE, char : Nat] /\ reg'.size \in Slots
        /\ echo' \in {"idle", "reset"}
    BY <1>0, <1>9 DEF EchoReset, Forget
  <2>3. mixed' \in BOOLEAN /\ hit' \in BOOLEAN /\ filled' \in BOOLEAN
    BY <1>9, Zenon DEF EchoReset, Forget
  <2>5. offset' = offset \/ offset' = put - given
    BY <1>9 DEF EchoReset
  <2>4. QED
    BY <1>0, <1>9, <2>1, <2>2, <2>3, <2>5 DEF EchoReset, printvars, endpoint
<1>10. CASE Configure
  BY <1>10 DEF Configure, ringvars, printvars, echovars
<1>11. CASE Collect
  BY <1>11 DEF Collect, ringvars, printvars, echovars
<1>12. CASE UNCHANGED vars
  BY <1>12 DEF vars, ringvars, printvars, echovars, endpoint
<1>13. QED
  BY <1>1, <1>2, <1>3, <1>4, <1>5, <1>6, <1>7, <1>8, <1>9, <1>10, <1>11, <1>12
     DEF Next, EchoStep, Fields

\* The histories and the phases.
LEMMA PhasesStep == ASSUME Shape, Phases, [Next]_vars PROVE Phases'
<1> USE DEF Shape, TypeOK, Phases, EchoHolds, Forget, history, echovars, printvars
<1>1. ASSUME NEW n \in Lengths, myprintf(n) PROVE Phases'
  BY <1>1 DEF myprintf
<1>2. CASE enq
  BY <1>2 DEF enq
<1>3. CASE sendPacket
  BY <1>3 DEF sendPacket, NextCharacter, Emptied
<1>4. ASSUME NEW n \in Lengths, Echo(n) PROVE Phases'
  BY <1>4 DEF Echo
<1>5. CASE EchoLoad
  BY <1>5 DEF EchoLoad
<1>6. ASSUME NEW f \in Fields, EchoStore(f) PROVE Phases'
  BY <1>6 DEF EchoStore
<1>7. CASE EchoSend
  BY <1>7 DEF EchoSend
<1>8. CASE EchoPacket
  BY <1>8 DEF EchoPacket
<1>9. ASSUME NEW f \in Fields, EchoReset(f) PROVE Phases'
  BY <1>9 DEF EchoReset
<1>10. CASE Configure
  BY <1>10 DEF Configure
<1>11. CASE Collect
  BY <1>11 DEF Collect
<1>12. CASE UNCHANGED vars
  BY <1>12 DEF vars
<1>13. QED
  BY <1>1, <1>2, <1>3, <1>4, <1>5, <1>6, <1>7, <1>8, <1>9, <1>10, <1>11, <1>12
     DEF Next, EchoStep, Fields

\* One more character behind the newest ones.
LEMMA Append ==
  ASSUME NEW buf, NEW s \in Slots, NEW p \in Nat, Newest(buf, s, p), buf[s] = p + 1
  PROVE  Newest(buf, Succ(s), p + 1)
BY ConsoleAssumption DEF Newest, Succ, Slots

\* One more character is pending, but for the wrap that fills the ring.
LEMMA OneMore ==
  ASSUME NEW s \in Slots, NEW p \in Int, NEW g \in Int, Succ(s) # 0, p = g + s
  PROVE  p + 1 = g + Succ(s)
BY ConsoleAssumption DEF Succ, Slots

\* A store behind the newest characters leaves them alone.
LEMMA KeepsNewest ==
  ASSUME NEW buf \in [Slots -> Nat], NEW s \in Slots, NEW p \in Nat, NEW c \in Nat,
         Newest(buf, s, p)
  PROVE  Newest([buf EXCEPT ![s] = c], s, p) /\ [buf EXCEPT ![s] = c][s] = c
BY ConsoleAssumption DEF Newest, Slots

\* Given means no longer pending.
LEMMA Gives ==
  ASSUME NEW f, NEW n \in Nat, NEW p \in Nat, NEW o \in Int, NEW g \in Nat, Kept(f, n, p, o + g)
  PROVE  Kept(f, 0, p, o + (g + n))
BY DEF Kept

\* An empty ring is in order, given the right offset.
LEMMA EmptyIsClean ==
  ASSUME NEW buf, NEW p \in Nat, NEW g \in Nat, NEW f
  PROVE  Newest(buf, 0, p) /\ Kept(f, 0, p, (p - g) + g)
BY DEF Newest, Kept

\* myprintf runs either while the echo holds nothing, or mixed up with it.
LEMMA OrderedPrintStep ==
  ASSUME Shape, Phases, Ordered, enq \/ sendPacket PROVE Ordered'
<1> USE ConsoleAssumption DEF Shape, TypeOK
<1>1. pc = "put" /\ echo' = echo /\ reg' = reg /\ stores' = stores /\ hit' = hit
  BY DEF enq, sendPacket, echovars, history, Emptied
<1>2. CASE EchoHolds
  <2>1. hit /\ mixed
    BY <1>1, <1>2 DEF Phases
  <2>2. hit' /\ mixed'
    <3>1. hit' = hit /\ (mixed' = mixed \/ mixed' = (mixed /\ EchoHolds))
      BY DEF enq, sendPacket, history, Emptied
    <3>2. QED
      BY <1>2, <2>1, <3>1, Zenon
  <2>3. QED
    BY <2>2 DEF Ordered
<1>3. CASE ~EchoHolds
  <2>1. echo \notin {"store", "send", "reset"}
    BY <1>3 DEF EchoHolds
  <2>2. SUFFICES ASSUME ~mixed' PROVE Clean'
    BY <1>1, <2>1, <2>2 DEF Ordered
  <2>3. CASE enq
    <3>1. ~mixed
      BY <2>2, <2>3 DEF enq, history
    <3>2. Clean
      BY <2>1, <3>1 DEF Ordered
    <3>3. /\ wPtr' = Succ(size) /\ size' = Succ(size) /\ size \in Slots
          /\ put' = put + 1 /\ given' = given /\ offset' = offset
          /\ (filled => filled') /\ (Succ(size) = 0 => filled')
          /\ buffer' = [buffer EXCEPT ![size] = put + 1]
      BY <2>3, <3>2, Advance DEF enq, Clean, history
    <3>7. /\ put \in Nat /\ put + 1 \in Nat /\ offset + given \in Int
          /\ buffer \in [Slots -> Nat] /\ size \in Slots
          /\ Newest(buffer, size, put) /\ Kept(filled, size, put, offset + given)
      BY <3>2 DEF Clean
    <3>4. Newest(buffer', size, put) /\ buffer'[size] = put + 1
      <4> HIDE DEF Shape, TypeOK
      <4> QED
        BY <3>3, <3>7, KeepsNewest
    <3>5. Newest(buffer', Succ(size), put + 1)
      <4> HIDE DEF Shape, TypeOK
      <4> QED
        BY <3>7, <3>4, Append
    <3>8. ASSUME ~filled' PROVE put + 1 = (offset + given) + Succ(size)
      <4>1. ~filled /\ Succ(size) # 0
        BY <3>3, <3>8, Zenon
      <4>2. put = (offset + given) + size
        BY <3>7, <4>1 DEF Kept
      <4>3. QED
        BY <3>7, <4>1, <4>2, OneMore
    <3>6. QED
      BY <3>3, <3>5, <3>8 DEF Clean, Kept
  <2>4. CASE sendPacket
    <3>1. CASE USBConfigured = 1 /\ busy = 0 /\ size # 0
      <4>1. /\ wPtr' = 0 /\ size' = 0 /\ given' = given + size /\ given' \in Nat
            /\ put' = put /\ buffer' = buffer
        BY <2>4, <3>1 DEF sendPacket, Resets
      <4>2. CASE mixed \/ filled
        <5>1. offset' = put - given'
          BY <1>3, <2>4, <3>1, <4>2 DEF sendPacket, Emptied
        <5>2. QED
          BY <4>1, <5>1, EmptyIsClean DEF Clean
      <4>3. CASE ~(mixed \/ filled)
        <5>1. offset' = offset
          BY <2>4, <3>1, <4>3 DEF sendPacket, Emptied
        <5>2. Kept(filled, size, put, offset + given)
          BY <2>1, <4>3 DEF Ordered, Clean
        <5>3. put = offset + (given + size)
          BY <4>3, <5>2 DEF Kept
        <5>4. QED
          BY <4>1, <5>1, <5>3, EmptyIsClean DEF Clean, Kept
      <4>4. QED
        BY <4>2, <4>3
    <3>2. CASE ~(USBConfigured = 1 /\ busy = 0 /\ size # 0)
      <4>1. UNCHANGED <<wPtr, size, given, put, buffer, offset, mixed, filled>>
        BY <2>4, <3>2 DEF sendPacket, history
      <4>2. Clean
        BY <2>1, <2>2, <4>1 DEF Ordered
      <4>3. QED
        BY <4>1, <4>2 DEF Clean
    <3>3. QED
      BY <3>1, <3>2
  <2>5. QED
    BY <2>3, <2>4
<1>4. QED
  BY <1>2, <1>3

\* The echo from its loading to its storing.
LEMMA OrderedStoreStep ==
  ASSUME Shape, Phases, Ordered,
         EchoLoad \/ (\E f \in Fields : EchoStore(f))
  PROVE  Ordered'
<1> USE ConsoleAssumption DEF Shape, TypeOK
<1>1. CASE EchoLoad
  <2>1. /\ echo = "next" /\ echo' = "store" /\ stores' = Fields
        /\ mixed' = mixed /\ hit' = hit
        /\ UNCHANGED <<wPtr, size, buffer, given, filled, offset>> /\ put' = put + 1
        /\ reg' = [ptr |-> wPtr, size |-> size, char |-> put + 1]
    BY <1>1 DEF EchoLoad, ringvars, history, Fields
  <2>2. SUFFICES ASSUME ~mixed' PROVE HalfStored'
    BY <2>1, <2>2 DEF Ordered
  <2>3. Clean
    BY <2>1, <2>2 DEF Ordered
  <2>4. reg'.size = size /\ reg'.ptr = size /\ reg'.char = put' /\ put' - 1 = put /\ put' > 0
    BY <2>1, <2>3 DEF Clean
  <2>5. QED
    BY <2>1, <2>3, <2>4 DEF Clean, HalfStored, Fields
<1>2. ASSUME NEW f \in Fields, EchoStore(f) PROVE Ordered'
  <2>1. /\ echo = "store" /\ f \in stores /\ stores' = stores \ {f}
        /\ mixed' = mixed /\ UNCHANGED <<put, given, offset>>
        /\ echo' = IF stores' = {} THEN "next" ELSE "store"
        /\ stores' # {} => reg' = reg
    BY <1>2 DEF EchoStore
  <2>2. SUFFICES ASSUME ~mixed'
                 PROVE  IF stores' = {} THEN Clean' ELSE HalfStored'
    BY <2>1, <2>2 DEF Ordered
  <2>3. HalfStored /\ reg.size \in Slots
    BY <2>1, <2>2 DEF Ordered
  <2>4. /\ wPtr' = IF "wPtr" \in stores' THEN reg.size ELSE Succ(reg.size)
        /\ size' = IF "size" \in stores' THEN reg.size ELSE Succ(reg.size)
    <3>1. f = "wPtr" => wPtr' = Succ(reg.size) /\ size' = size
      BY <1>2, <2>1, <2>3, Advance DEF EchoStore, HalfStored
    <3>2. f = "size" => size' = Succ(reg.size) /\ wPtr' = wPtr
      BY <1>2, <2>1, <2>3, Advance DEF EchoStore, HalfStored
    <3>3. f = "buffer" => size' = size /\ wPtr' = wPtr
      BY <1>2 DEF EchoStore
    <3>4. QED
      BY <2>1, <2>3, <3>1, <3>2, <3>3 DEF HalfStored, Fields
  <2>5. /\ Newest(buffer', reg.size, put - 1)
        /\ "buffer" \notin stores' => buffer'[reg.size] = put
    <3>1. CASE f = "buffer"
      <4>1. buffer' = [buffer EXCEPT ![reg.size] = put]
        BY <1>2, <2>3, <3>1 DEF EchoStore, HalfStored
      <4>2. /\ put \in Nat /\ put - 1 \in Nat /\ reg.size \in Slots
            /\ buffer \in [Slots -> Nat] /\ Newest(buffer, reg.size, put - 1)
        BY <2>3 DEF HalfStored
      <4>3. QED
        <5> HIDE DEF Shape, TypeOK
        <5> QED
          BY <4>1, <4>2, KeepsNewest
    <3>2. CASE f # "buffer"
      BY <1>2, <2>1, <2>3, <3>2 DEF EchoStore, HalfStored, Fields
    <3>3. QED
      BY <3>1, <3>2
  <2>8. /\ filled => filled'
        /\ "size" \notin stores' /\ Succ(reg.size) = 0 => filled'
    <3>1. filled => filled'
      BY <1>2 DEF EchoStore
    <3>2. CASE f = "size"
      BY <1>2, <2>1, <2>4, <3>2 DEF EchoStore
    <3>3. CASE f # "size"
      BY <2>1, <2>3, <3>1, <3>3 DEF HalfStored
    <3>4. QED
      BY <3>1, <3>2, <3>3
  <2>6. CASE stores' = {}
    <3>1. put - 1 \in Nat /\ (put - 1) + 1 = put /\ offset + given \in Int
      BY <2>3 DEF HalfStored
    <3>2. Newest(buffer', Succ(reg.size), put)
      <4>1. /\ Newest(buffer', reg.size, put - 1) /\ buffer'[reg.size] = (put - 1) + 1
            /\ reg.size \in Slots
        BY <2>3, <2>5, <2>6, <3>1
      <4> HIDE DEF Shape, TypeOK
      <4>2. Newest(buffer', Succ(reg.size), (put - 1) + 1)
        BY <3>1, <4>1, Append
      <4>3. QED
        BY <3>1, <4>2
    <3>4. ASSUME ~filled' PROVE put = (offset + given) + Succ(reg.size)
      <4>1. ~filled /\ Succ(reg.size) # 0
        <5>1. "size" \notin stores'
          BY <2>6
        <5>2. QED
          BY <2>8, <3>4, <5>1, Zenon
      <4>2. put - 1 = (offset + given) + reg.size
        BY <2>3, <4>1 DEF HalfStored, Kept
      <4>3. (put - 1) + 1 = (offset + given) + Succ(reg.size)
        <5> HIDE DEF Shape, TypeOK
        <5> QED
          BY <2>3, <3>1, <4>1, <4>2, OneMore
      <4>4. QED
        BY <3>1, <4>3
    <3>3. QED
      BY <2>1, <2>4, <2>6, <3>2, <3>4 DEF Clean, Kept
  <2>7. CASE stores' # {}
    BY <2>1, <2>3, <2>4, <2>5, <2>7, <2>8 DEF HalfStored, Kept
  <2>9. QED
    BY <2>6, <2>7
<1>3. QED
  BY <1>1, <1>2

\* The echo's sendPacket.
LEMMA OrderedSendStep ==
  ASSUME Shape, Phases, Ordered,
         EchoSend \/ EchoPacket \/ (\E f \in Fields : EchoReset(f))
  PROVE  Ordered'
<1> USE ConsoleAssumption DEF Shape, TypeOK
<1>1. CASE EchoSend
  <2>1. /\ echo = "next" /\ echo' \in {"send", "idle"}
        /\ UNCHANGED <<wPtr, size, buffer, put, given, offset, hit, mixed, filled>>
        /\ echo' = "send" => reg'.size = size
    BY <1>1 DEF EchoSend, ringvars, history
  <2>2. mixed' \/ Clean'
    BY <2>1 DEF Ordered, Clean
  <2>3. QED
    BY <2>1, <2>2 DEF Ordered
<1>2. CASE EchoPacket
  <2>1. /\ echo = "send" /\ echo' \in {"reset", "idle"}
        /\ UNCHANGED <<wPtr, size, buffer, put, offset, mixed, filled>>
        /\ echo' = "reset" => stores' = {"wPtr", "size"} /\ given' = given + reg.size
        /\ echo' = "idle" => given' = given
    BY <1>2 DEF EchoPacket, ringvars
  <2>2. mixed' \/ (Clean /\ reg.size = size)
    BY <2>1 DEF Ordered
  <2>3. CASE echo' = "idle"
    BY <2>1, <2>2, <2>3 DEF Ordered, Clean
  <2>4. CASE echo' = "reset"
    <3>1. HalfReset'
      BY <2>1, <2>4 DEF HalfReset
    <3>2. mixed' \/ Kept(filled, 0, put, offset + (given + size))
      <4>1. size \in Nat /\ put \in Nat /\ offset \in Int /\ given \in Nat
        OBVIOUS
      <4>2. Clean => Kept(filled, 0, put, offset + (given + size))
        <5> HIDE DEF Shape, TypeOK
        <5> QED
          BY <4>1, Gives DEF Clean
      <4>3. QED
        BY <2>2, <4>2
    <3>3. mixed' \/ Kept(filled, 0, put, offset + given)'
      BY <2>1, <2>2, <2>4, <3>2
    <3>4. QED
      BY <2>4, <3>1, <3>3 DEF Ordered
  <2>5. QED
    BY <2>1, <2>3, <2>4
<1>3. ASSUME NEW f \in Fields, EchoReset(f) PROVE Ordered'
  <2>1. /\ echo = "reset" /\ f \in stores /\ stores' = stores \ {f} /\ f # "buffer"
        /\ echo' = IF stores' = {} THEN "idle" ELSE "reset"
        /\ wPtr' = (IF f = "wPtr" THEN 0 ELSE wPtr)
        /\ size' = (IF f = "size" THEN 0 ELSE size)
        /\ UNCHANGED <<put, given, buffer>>
    BY <1>3 DEF EchoReset
  <2>2. hit \/ HalfReset'
    BY <2>1 DEF Ordered, HalfReset, Fields
  <2>3. CASE stores' = {}
    <3>1. SUFFICES ASSUME ~mixed' PROVE Clean'
      BY <2>1, <2>3, <3>1 DEF Ordered
    <3>2. ~hit
      BY <1>3, <3>1 DEF EchoReset, Phases
    <3>3. wPtr' = 0 /\ size' = 0
      BY <2>1, <2>2, <2>3, <3>2 DEF HalfReset, Fields
    <3>4. Newest(buffer', 0, put)
      BY EmptyIsClean
    <3>5. CASE mixed \/ filled
      <4>1. offset' = put - given
        BY <1>3, <2>3, <3>2, <3>5 DEF EchoReset
      <4>2. Kept(filled', 0, put, (put - given) + given)
        BY EmptyIsClean
      <4>3. QED
        BY <2>1, <3>3, <3>4, <4>1, <4>2 DEF Clean
    <3>6. CASE ~(mixed \/ filled)
      <4>1. offset' = offset /\ filled' = filled
        BY <1>3, <3>6 DEF EchoReset
      <4>2. QED
        BY <2>1, <3>3, <3>4, <3>6, <4>1 DEF Clean, Ordered
    <3>7. QED
      BY <3>5, <3>6
  <2>4. CASE stores' # {}
    <3>1. UNCHANGED <<hit, mixed, filled, offset>>
      BY <1>3, <2>4 DEF EchoReset
    <3>2. QED
      BY <2>1, <2>2, <2>4, <3>1 DEF Ordered
  <2>5. QED
    BY <2>3, <2>4
<1>4. QED
  BY <1>1, <1>2, <1>3

\* The other steps leave the ring alone.
LEMMA OrderedIdleStep ==
  ASSUME Shape, Phases, Ordered,
         (\E n \in Lengths : myprintf(n) \/ Echo(n)) \/ Configure \/ Collect
           \/ UNCHANGED vars
  PROVE  Ordered'
<1> USE DEF Ordered, Clean, HalfStored, HalfReset, ringvars, echovars, history
<1>1. ASSUME NEW n \in Lengths, myprintf(n) PROVE Ordered'
  <2>1. /\ UNCHANGED <<ringvars, echovars, put, given, filled, offset>>
        /\ hit' = (hit \/ EchoHolds) /\ mixed' = (mixed \/ EchoHolds)
    BY <1>1 DEF myprintf
  <2>2. QED
    BY <2>1 DEF EchoHolds
<1>2. ASSUME NEW n \in Lengths, Echo(n) PROVE Ordered'
  BY <1>2 DEF Echo
<1>3. CASE Configure
  BY <1>3 DEF Configure
<1>4. CASE Collect
  BY <1>4 DEF Collect
<1>5. CASE UNCHANGED vars
  BY <1>5 DEF vars
<1>6. QED
  BY <1>1, <1>2, <1>3, <1>4, <1>5

LEMMA InitIndInv == Init => IndInv
<1> SUFFICES ASSUME Init PROVE IndInv
  OBVIOUS
<1> USE ConsoleAssumption DEF Init, Nothing
<1>1. 0 \in Slots /\ Slots \subseteq 0 .. BUFFER_SIZE
  BY DEF Slots
<1>2. hit \in BOOLEAN /\ mixed \in BOOLEAN /\ filled \in BOOLEAN
  BY Zenon
<1>3. Shape
  BY <1>1, <1>2 DEF Shape, TypeOK
<1>4. Phases
  BY DEF Phases, EchoHolds
<1>5. Newest(buffer, 0, put) /\ Kept(filled, 0, put, (put - given) + given)
  BY EmptyIsClean
<1>6. (put - given) + given = offset + given
  OBVIOUS
<1>7. Clean
  BY <1>5, <1>6 DEF Clean
<1>8. QED
  BY <1>3, <1>4, <1>7 DEF IndInv, Ordered

\* What the invariant is for.
LEMMA IndInvImplies ==
  ASSUME IndInv PROVE TypeOK /\ PacketInsideBuffer /\ SendsNewest /\ NothingLost
<1> USE ConsoleAssumption DEF IndInv, Shape
<1>1. PacketInsideBuffer
  BY DEF PacketInsideBuffer, Slots
<1>2. InOrder => Clean
  BY DEF InOrder, Ordered
<1>3. SendsNewest
  BY <1>2 DEF SendsNewest, Clean, Newest
<1>4. NothingLost
  BY <1>2 DEF NothingLost, Clean, Kept
<1>5. QED
  BY <1>1, <1>3, <1>4

\* IndInv is inductive, for every size of the ring and every length of a write.
THEOREM ConsoleInductive == Spec => []IndInv
<1>1. IndInv /\ [Next]_vars => IndInv'
  BY ShapeStep, PhasesStep, OrderedPrintStep, OrderedStoreStep, OrderedSendStep, OrderedIdleStep
     DEF IndInv, Next, EchoStep, Fields
<1>2. QED
  BY InitIndInv, <1>1, PTL DEF Spec

\* Type correctness.
THEOREM ConsoleTypeCorrect == Spec => []TypeOK
BY ConsoleInductive, IndInvImplies, PTL

\* However the writers mix, a packet lies inside the buffer.
THEOREM ConsolePacketInsideBuffer == Spec => []PacketInsideBuffer
BY ConsoleInductive, IndInvImplies, PTL

\* Unless they mixed, a packet is exactly the newest characters, in order.
THEOREM ConsoleSendsNewest == Spec => []SendsNewest
BY ConsoleInductive, IndInvImplies, PTL

\* Unless they mixed or the ring was filled, every character written is in the ring or
\* has been handed to the endpoint.
THEOREM ConsoleLosesNothing == Spec => []NothingLost
BY ConsoleInductive, IndInvImplies, PTL

-----------------------------------------------------------------------------
(* The heap.                                                               *)

InHeap(p) == p \in Nat /\ HeapStart <= p /\ p <= HeapEnd /\ (p = HeapStart \/ p % Align = 0)

HeapType ==
  /\ heap_ptr = 0 \/ InHeap(heap_ptr)
  /\ blocks \subseteq [from : Nat, to : Nat]
  /\ sbrk \in {"idle", "store"}

\* What the shell's call holds; another task can only have raised heap_ptr since.
Holding ==
  sbrk = "store" =>
    /\ InHeap(base) /\ InHeap(heap_ptr) /\ base <= heap_ptr /\ nbytes \in Nat \ {0}
    /\ ~overlapped => heap_ptr = base

\* All that was handed out lies below heap_ptr.
Below == ~overlapped => \A b \in blocks : b.to <= heap_ptr

HeapInv == HeapType /\ Holding /\ BlocksInHeap /\ Below /\ BlocksDisjoint

-----------------------------------------------------------------------------
\* Division by a variable: the quotient and the remainder.
LEMMA Division ==
  ASSUME NEW a \in Nat \ {0}, NEW y \in Nat
  PROVE  y = a * (y \div a) + (y % a) /\ y % a \in 0 .. a - 1 /\ y \div a \in Nat
OBVIOUS

\* The only multiple of a below a is 0.
LEMMA SmallMultiple ==
  ASSUME NEW a \in Nat \ {0}, NEW e \in Int, e * a < a, 0 <= e * a
  PROVE  e = 0
<1>1. CASE e >= 1
  <2>1. e * a = (e - 1) * a + a /\ (e - 1) * a >= 0
    BY <1>1
  <2>2. QED
    BY <2>1
<1>2. CASE e <= -1
  <2>1. (0 - e) * a = ((0 - e) - 1) * a + a /\ ((0 - e) - 1) * a >= 0 /\ (0 - e) * a = 0 - (e * a)
    BY <1>2
  <2>2. QED
    BY <2>1
<1>3. QED
  BY <1>1, <1>2

\* AlignUp rounds up to a multiple of Align.
LEMMA AlignUpRounds ==
  ASSUME NEW x \in Nat
  PROVE  AlignUp(x) \in Nat /\ AlignUp(x) >= x /\ AlignUp(x) % Align = 0
<1> DEFINE q == (x + Align - 1) \div Align
<1>1. Align \in Nat \ {0} /\ x + Align - 1 \in Nat
  BY HeapAssumption
<1>2. q \in Nat /\ q * Align >= x /\ q * Align \in Nat
  BY <1>1, Division
<1> HIDE DEF q
<1>3. (q * Align) % Align = 0
  <2> DEFINE d == (q * Align) \div Align
  <2>1. q * Align = Align * d + ((q * Align) % Align) /\ (q * Align) % Align \in 0 .. Align - 1
        /\ d \in Nat
    BY <1>1, <1>2, Division
  <2> HIDE DEF d
  <2>2. (q - d) * Align = (q * Align) % Align
    BY <1>1, <1>2, <2>1
  <2>3. q - d = 0
    BY <1>1, <1>2, <2>1, <2>2, SmallMultiple
  <2>4. QED
    BY <1>1, <1>2, <2>2, <2>3
<1>4. QED
  BY <1>2, <1>3 DEF AlignUp, q

LEMMA BottomInHeap == ASSUME HeapType PROVE InHeap(Bottom)
<1>1. InHeap(HeapStart)
  BY HeapAssumption DEF InHeap
<1>2. QED
  BY <1>1 DEF HeapType, Bottom

\* A call that read b and then p: the block lies in the heap, wherever p is.
LEMMA GrowInHeap ==
  ASSUME HeapType, BlocksInHeap, NEW p, NEW b, NEW n \in Nat \ {0},
         InHeap(p), InHeap(b), b <= p, Grow(p, b, n)
  PROVE  /\ InHeap(heap_ptr') /\ BlocksInHeap'
         /\ blocks' \subseteq [from : Nat, to : Nat]
         /\ p = Bottom => heap_ptr' >= Bottom
<1> USE HeapAssumption DEF InHeap
<1>1. p + n \in Nat /\ AlignUp(p + n) \in Nat /\ AlignUp(p + n) >= p + n /\ AlignUp(p + n) % Align = 0
  BY AlignUpRounds
<1>2. InHeap(Bottom)
  BY BottomInHeap
<1>3. CASE AlignUp(p + n) <= HeapEnd
  <2>1. heap_ptr' = AlignUp(p + n) /\ blocks' = blocks \cup {[from |-> b, to |-> b + n]}
    BY <1>3 DEF Grow
  <2>2. QED
    BY <1>1, <1>3, <2>1 DEF BlocksInHeap, HeapType
<1>4. CASE ~(AlignUp(p + n) <= HeapEnd)
  BY <1>2, <1>4 DEF Grow, BlocksInHeap, HeapType
<1>5. QED
  BY <1>3, <1>4

\* A call that nobody came between: the block is apart from all others.
LEMMA GrowApart ==
  ASSUME HeapType, BlocksInHeap, Below, BlocksDisjoint, ~overlapped,
         NEW p, NEW n \in Nat \ {0}, p = Bottom, Grow(p, p, n)
  PROVE  /\ \A c, d \in blocks' : c = d \/ Apart(c, d)
         /\ \A c \in blocks' : c.to <= heap_ptr'
<1> USE HeapAssumption
<1>1. p \in Nat /\ heap_ptr <= p /\ heap_ptr \in Nat
  BY DEF HeapType, InHeap, Bottom
<1>2. p + n \in Nat /\ AlignUp(p + n) \in Nat /\ AlignUp(p + n) >= p + n
  BY <1>1, AlignUpRounds
<1>3. \A c \in blocks : c.to <= p /\ c.to \in Nat
  BY <1>1 DEF Below, HeapType
<1>4. CASE AlignUp(p + n) <= HeapEnd
  <2>1. heap_ptr' = AlignUp(p + n) /\ blocks' = blocks \cup {[from |-> p, to |-> p + n]}
    BY <1>4 DEF Grow
  <2>2. \A c \in blocks' : c.to <= heap_ptr'
    BY <1>1, <1>2, <1>3, <2>1
  <2>3. ASSUME NEW c \in blocks', NEW d \in blocks' PROVE c = d \/ Apart(c, d)
    BY <1>1, <1>3, <2>1 DEF BlocksDisjoint, Apart
  <2>4. QED
    BY <2>2, <2>3
<1>5. CASE ~(AlignUp(p + n) <= HeapEnd)
  BY <1>1, <1>3, <1>5 DEF Grow, BlocksDisjoint
<1>6. QED
  BY <1>4, <1>5

LEMMA HeapStep == ASSUME HeapInv, [HeapNext]_heapvars PROVE HeapInv'
<1> USE HeapAssumption DEF HeapInv
<1>0. InHeap(Bottom)
  BY BottomInHeap
<1>1. ASSUME NEW n \in Sizes, SbrkLoad(n) PROVE HeapInv'
  <2>1. heap_ptr' = Bottom /\ heap_ptr <= heap_ptr'
    BY <1>0, <1>1 DEF SbrkLoad, Bottom, InHeap, HeapType
  <2>2. Below'
    BY <1>0, <1>1, <2>1 DEF SbrkLoad, Below, HeapType, InHeap
  <2>3. QED
    BY <1>0, <1>1, <2>1, <2>2
       DEF SbrkLoad, HeapType, Holding, BlocksInHeap, BlocksDisjoint, InHeap
<1>2. CASE SbrkStore
  <2>1. /\ sbrk = "store" /\ sbrk' = "idle" /\ overlapped' = overlapped
        /\ InHeap(base) /\ InHeap(heap_ptr) /\ base <= heap_ptr /\ nbytes \in Nat \ {0}
        /\ heap_ptr = Bottom
    BY <1>2 DEF SbrkStore, Holding, Bottom, InHeap
  <2>2. PICK p \in {base, heap_ptr} : Grow(p, base, nbytes)
    BY <1>2 DEF SbrkStore
  <2>3. InHeap(heap_ptr') /\ BlocksInHeap' /\ blocks' \subseteq [from : Nat, to : Nat]
    <3>1. base <= p /\ InHeap(p)
      BY <2>1, <2>2 DEF InHeap
    <3>2. QED
      BY <2>1, <2>2, <3>1, GrowInHeap
  <2>4. ASSUME ~overlapped'
        PROVE  /\ \A c, d \in blocks' : c = d \/ Apart(c, d)
               /\ \A c \in blocks' : c.to <= heap_ptr'
    <3>3. ~overlapped
      BY <2>1, <2>4, Zenon
    <3>1. base = p /\ p = Bottom /\ ~overlapped
      BY <2>1, <2>2, <3>3 DEF Holding
    <3>2. Grow(p, p, nbytes) /\ nbytes \in Nat \ {0}
      BY <2>1, <2>2, <3>1
    <3>4. HeapType /\ BlocksInHeap /\ Below /\ BlocksDisjoint
      OBVIOUS
    <3> HIDE DEF HeapInv
    <3>5. QED
      BY <3>1, <3>2, <3>4, GrowApart
  <2>5. QED
    BY <2>1, <2>3, <2>4 DEF HeapType, Holding, Below, BlocksDisjoint, Apart
<1>3. ASSUME NEW n \in Sizes, pvPortMalloc(n) PROVE HeapInv'
  <2>1. /\ Grow(Bottom, Bottom, n) /\ n \in Nat \ {0}
        /\ UNCHANGED <<sbrk, base, nbytes>>
        /\ ~overlapped' => ~overlapped /\ sbrk # "store"
    BY <1>3 DEF pvPortMalloc
  <2>2. /\ InHeap(heap_ptr') /\ BlocksInHeap' /\ blocks' \subseteq [from : Nat, to : Nat]
        /\ heap_ptr' >= Bottom
    BY <1>0, <2>1, GrowInHeap DEF InHeap
  <2>3. ASSUME ~overlapped'
        PROVE  /\ \A c, d \in blocks' : c = d \/ Apart(c, d)
               /\ \A c \in blocks' : c.to <= heap_ptr'
    BY <2>1, <2>3, GrowApart
  <2>4. Holding'
    <3>1. sbrk = "store" => Bottom = heap_ptr
      BY DEF Holding, Bottom, InHeap
    <3>2. CASE sbrk = "store"
      <4>1. /\ InHeap(base) /\ InHeap(heap_ptr) /\ base <= heap_ptr
            /\ nbytes \in Nat \ {0} /\ base' = base /\ nbytes' = nbytes
        BY <2>1, <2>2, <3>1, <3>2 DEF Holding
      <4>2. base <= heap_ptr'
        BY <2>2, <3>1, <3>2, <4>1 DEF InHeap
      <4>3. overlapped'
        BY <2>1, <3>2
      <4>4. QED
        BY <2>2, <4>1, <4>2, <4>3, Zenon DEF Holding, InHeap
    <3>3. QED
      BY <2>1, <3>2 DEF Holding
  <2>5. QED
    BY <2>1, <2>2, <2>3, <2>4 DEF HeapType, Below, BlocksDisjoint, Apart
<1>4. CASE UNCHANGED heapvars
  BY <1>4 DEF heapvars, HeapType, Holding, BlocksInHeap, Below, BlocksDisjoint, InHeap
<1>5. QED
  BY <1>1, <1>2, <1>3, <1>4 DEF HeapNext

\* The composition takes the steps of its parts, one at a time.
LEMMA SyscallsSteps == SSpec => Spec /\ HeapInit /\ [][HeapNext]_heapvars
<1>1. [SNext]_svars => [Next]_vars /\ [HeapNext]_heapvars
  BY DEF SNext, svars
<1>2. QED
  BY <1>1, PTL DEF SSpec, SInit, Spec

\* The inductive invariant of the heap beside the console: all that was handed
\* out by _sbrk lies in the heap, and below heap_ptr until calls overlapped.
THEOREM HeapInductive == SSpec => []HeapInv
<1>1. HeapInit => HeapInv
  BY DEF HeapInit, HeapInv, HeapType, Holding, BlocksInHeap, Below, BlocksDisjoint
<1>2. HeapInv /\ [HeapNext]_heapvars => HeapInv'
  BY HeapStep
<1>3. QED
  BY <1>1, <1>2, SyscallsSteps, PTL

\* Whatever overlaps, a block lies in the heap, and begins at its start or aligned.
THEOREM HeapBlocksInHeap == SSpec => []BlocksInHeap
BY HeapInductive, PTL DEF HeapInv

\* Without the race of malloc, no byte is handed out twice.
THEOREM HeapBlocksDisjoint == SSpec => []BlocksDisjoint
BY HeapInductive, PTL DEF HeapInv

\* The properties of Console hold beside the heap.
THEOREM SyscallsConsole ==
  SSpec => [](TypeOK /\ PacketInsideBuffer /\ SendsNewest /\ NothingLost)
BY SyscallsSteps, ConsoleTypeCorrect, ConsolePacketInsideBuffer, ConsoleSendsNewest,
   ConsoleLosesNothing, PTL
=============================================================================
