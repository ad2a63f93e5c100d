------------------------------- MODULE Console -------------------------------
(***************************************************************************)
(* The output half of the debug console (app/syscalls.c): _write puts      *)
(* characters into a ring buffer, and sendPacket hands what the ring holds *)
(* to the CDC-ACM endpoint 0x82 whenever the endpoint is free.             *)
(*                                                                         *)
(* There are two ways into _write.  myprintf (app/printf-stdarg.c) turns   *)
(* interrupts off, so that nothing but the endpoint moves until it is      *)
(* done.  The echo of the shell (app/debug_shell.c) leaves them on, so     *)
(* that a myprintf of another task comes between any two of its accesses   *)
(* to the ring.  The host collects from the endpoint when it likes, or     *)
(* never.                                                                  *)
(*                                                                         *)
(* Characters are numbered 1, 2, ... in the order their writers begin to   *)
(* put them into the ring.                                                 *)
(***************************************************************************)
EXTENDS Integers

CONSTANTS
  BUFFER_SIZE,  \* 64
  Lengths,      \* characters that one call of _write puts into the ring
  MaxChars      \* bound on the number of characters written

ASSUME ConsoleAssumption ==
  /\ BUFFER_SIZE \in Nat \ {0} /\ MaxChars \in Nat
  /\ Lengths \subseteq Nat \ {0}

VARIABLES
  buffer, rPtr, wPtr, size,  \* ringBuffer
  pc,                        \* "idle", or "put" inside myprintf, interrupts off
  left,                      \* characters its call of _write has yet to put
  echo,                      \* where the shell stands in the _write of its echo
  toEcho,                    \* characters that has yet to put
  reg,                       \* what it has loaded: a pointer, a size, its character
  stores,                    \* the fields of the ring it has yet to store
  USBConfigured,
  busy,                      \* endpoint 0x82 holds a packet
  put,                       \* characters put into the ring since power-on
  given,                     \* characters handed to the endpoint since power-on
  hit,                       \* history: myprintf ran since the echo last loaded
  mixed,                     \* history: it did, and the ring was not emptied since
  filled,                    \* history: the ring was full, and not emptied since
  offset                     \* history: put - given when the last of these was over

ringvars == <<buffer, rPtr, wPtr, size>>
printvars == <<pc, left>>
echovars == <<echo, toEcho, reg, stores>>
endpoint == <<USBConfigured, busy>>
history == <<hit, mixed, filled, offset>>
vars == <<ringvars, printvars, echovars, endpoint, put, given, history>>

Slots == 0 .. BUFFER_SIZE - 1
Nothing == [ptr |-> 0, size |-> 0, char |-> 0]

Init ==
  /\ buffer = [i \in Slots |-> 0]
  /\ rPtr = 0 /\ wPtr = 0 /\ size = 0
  /\ pc = "idle" /\ left = 0
  /\ echo = "idle" /\ toEcho = 0 /\ stores = {}
  /\ reg = Nothing
  /\ USBConfigured = 0 /\ busy = 0
  /\ put = 0 /\ given = 0
  /\ hit = FALSE /\ mixed = FALSE /\ filled = FALSE /\ offset = 0

\* The echo holds values it has loaded from the ring.
EchoHolds == echo \in {"store", "send", "reset"}

-----------------------------------------------------------------------------
(* myprintf: a _write for each character of its text.                       *)

\* cm_disable_interrupts, and the first _write: a character, or a \n, which
\* becomes \r\n.
myprintf(n) ==
  /\ pc = "idle" /\ pc' = "put"
  /\ put + n <= MaxChars
  /\ left' = n
  /\ hit' = (hit \/ EchoHolds) /\ mixed' = (mixed \/ EchoHolds)
  /\ UNCHANGED <<ringvars, echovars, endpoint, put, given, filled, offset>>

\* Mutant: the write pointer does not wrap.
enqNoWrap ==
  /\ pc = "put" /\ size # BUFFER_SIZE /\ left > 0
  /\ buffer' = [buffer EXCEPT ![wPtr] = put + 1]
  /\ wPtr' = wPtr + 1
  /\ size' = (size + 1) % BUFFER_SIZE
  /\ put' = put + 1
  /\ left' = left - 1
  /\ filled' = (filled \/ size' = 0)
  /\ UNCHANGED <<rPtr, pc, echovars, endpoint, given, hit, mixed, offset>>

\* enq of one character, which _write reaches only when the ring is not full.  A
\* size that wraps has taken a full ring for an empty one.
enq ==
  /\ pc = "put" /\ size # BUFFER_SIZE /\ left > 0
  /\ buffer' = [buffer EXCEPT ![wPtr] = put + 1]
  /\ wPtr' = (wPtr + 1) % BUFFER_SIZE
  /\ size' = (size + 1) % BUFFER_SIZE
  /\ put' = put + 1
  /\ left' = left - 1
  /\ filled' = (filled \/ size' = 0)
  /\ UNCHANGED <<rPtr, pc, echovars, endpoint, given, hit, mixed, offset>>

\* After a packet of its own the ring is empty, and in order again unless the
\* echo still holds what it loaded before.
Emptied ==
  /\ hit' = hit
  /\ mixed' = (mixed /\ EchoHolds) /\ filled' = (filled /\ EchoHolds)
  /\ offset' = IF (mixed \/ filled) /\ ~EchoHolds THEN put - given' ELSE offset

\* The last character, or another one: _write is entered once for each.
NextCharacter ==
  \/ pc' = "idle" /\ left' = 0
  \/ pc' = "put" /\ left' \in Lengths /\ put + left' <= MaxChars

Resets(p, w, s) == rPtr' = p /\ wPtr' = w /\ size' = s

\* Mutants: the write pointer is not reset; the ring is reset although the
\* endpoint took nothing; the read pointer moves on, as it does in other rings.
sendKeepsPointer ==
  /\ pc = "put" /\ left = 0 /\ NextCharacter
  /\ IF USBConfigured = 1 /\ busy = 0 /\ size # 0
       THEN Resets(0, wPtr, 0) /\ given' = given + size /\ Emptied
       ELSE UNCHANGED <<rPtr, wPtr, size, given, history>>
  /\ busy' = IF USBConfigured = 1 THEN 1 ELSE busy
  /\ UNCHANGED <<buffer, echovars, USBConfigured, put>>
sendAlwaysResets ==
  /\ pc = "put" /\ left = 0 /\ NextCharacter
  /\ Resets(0, 0, 0) /\ Emptied
  /\ given' = IF USBConfigured = 1 /\ busy = 0 THEN given + size ELSE given
  /\ busy' = IF USBConfigured = 1 THEN 1 ELSE busy
  /\ UNCHANGED <<buffer, echovars, USBConfigured, put>>
sendAdvances ==
  /\ pc = "put" /\ left = 0 /\ NextCharacter
  /\ IF USBConfigured = 1 /\ busy = 0 /\ size # 0
       THEN Resets((rPtr + size) % BUFFER_SIZE, wPtr, 0) /\ given' = given + size /\ Emptied
       ELSE UNCHANGED <<rPtr, wPtr, size, given, history>>
  /\ busy' = IF USBConfigured = 1 THEN 1 ELSE busy
  /\ UNCHANGED <<buffer, echovars, USBConfigured, put>>

\* sendPacket at the end of each _write.  The endpoint driver returns the bytes
\* it took: 0 when the endpoint is busy, but also when it was given no byte to
\* send, which sends an empty packet.
sendPacket ==
  /\ pc = "put" /\ left = 0 /\ NextCharacter
  /\ IF USBConfigured = 1 /\ busy = 0 /\ size # 0
       THEN Resets(0, 0, 0) /\ given' = given + size /\ Emptied
       ELSE UNCHANGED <<rPtr, wPtr, size, given, history>>
  /\ busy' = IF USBConfigured = 1 THEN 1 ELSE busy
  /\ UNCHANGED <<buffer, echovars, USBConfigured, put>>

-----------------------------------------------------------------------------
(* The echo.  A build may keep what it has loaded or load it again, and may *)
(* store the fields of the ring in any order.                               *)

\* What was loaded is of no use any more.
Forget == reg' = Nothing /\ hit' = FALSE

\* cmd_term_get calls _write with a character, or with the three that rub one out.
Echo(n) ==
  /\ pc = "idle" /\ echo = "idle" /\ echo' = "next"
  /\ put + n <= MaxChars
  /\ toEcho' = n
  /\ UNCHANGED <<ringvars, printvars, reg, stores, endpoint, put, given, history>>

EchoLoad ==
  /\ pc = "idle" /\ echo = "next" /\ echo' = "store"
  /\ size # BUFFER_SIZE /\ toEcho > 0
  /\ toEcho' = toEcho - 1
  /\ reg' = [ptr |-> wPtr, size |-> size, char |-> put + 1]
  /\ stores' = {"buffer", "wPtr", "size"}
  /\ put' = put + 1
  /\ UNCHANGED <<ringvars, printvars, endpoint, given, history>>

\* One of the three stores of enq.  The index is not loaded again after the new
\* one is stored.
EchoStore(field) ==
  /\ pc = "idle" /\ echo = "store" /\ field \in stores
  /\ stores' = stores \ {field}
  /\ IF stores' = {} THEN echo' = "next" /\ Forget ELSE UNCHANGED <<echo, reg, hit>>
  /\ \/ /\ field = "buffer"
        /\ \E w \in {reg.ptr} \cup (IF "wPtr" \in stores THEN {wPtr} ELSE {}) :
             buffer' = [buffer EXCEPT ![w] = reg.char]
        /\ UNCHANGED <<wPtr, size>>
     \/ /\ field = "wPtr"
        /\ \E w \in {reg.ptr, wPtr} : wPtr' = (w + 1) % BUFFER_SIZE
        /\ UNCHANGED <<buffer, size>>
     \/ /\ field = "size"
        /\ \E s \in {reg.size, size} : size' = (s + 1) % BUFFER_SIZE
        /\ UNCHANGED <<buffer, wPtr>>
  /\ filled' = (filled \/ (field = "size" /\ size' = 0))
  /\ UNCHANGED <<rPtr, printvars, toEcho, endpoint, put, given, mixed, offset>>

\* sendPacket loads the place and the length of the packet ...
EchoSend ==
  /\ pc = "idle" /\ echo = "next" /\ toEcho = 0
  /\ IF USBConfigured = 1
       THEN echo' = "send" /\ reg' = [ptr |-> rPtr, size |-> size, char |-> 0]
       ELSE echo' = "idle" /\ reg' = reg
  /\ UNCHANGED <<ringvars, printvars, toEcho, stores, endpoint, put, given, history>>

\* ... hands them to the endpoint ...
EchoPacket ==
  /\ pc = "idle" /\ echo = "send"
  /\ busy' = 1
  /\ IF busy = 0 /\ reg.size # 0
       THEN /\ echo' = "reset" /\ stores' = {"wPtr", "size"}
            /\ given' = given + reg.size
            /\ reg' = Nothing /\ hit' = hit
       ELSE echo' = "idle" /\ Forget /\ UNCHANGED <<stores, given>>
  /\ UNCHANGED <<ringvars, printvars, toEcho, USBConfigured, put, mixed, filled, offset>>

\* ... and resets the pointers (the read pointer is 0 in any case) and the size.
EchoReset(field) ==
  /\ pc = "idle" /\ echo = "reset" /\ field \in stores
  /\ stores' = stores \ {field}
  /\ wPtr' = IF field = "wPtr" THEN 0 ELSE wPtr
  /\ size' = IF field = "size" THEN 0 ELSE size
  /\ IF stores' = {} THEN echo' = "idle" /\ Forget ELSE UNCHANGED <<echo, reg, hit>>
  /\ IF stores' = {} /\ (mixed \/ filled) /\ ~hit
       THEN mixed' = FALSE /\ filled' = FALSE /\ offset' = put - given
       ELSE UNCHANGED <<mixed, filled, offset>>
  /\ UNCHANGED <<buffer, rPtr, printvars, toEcho, endpoint, put, given>>

-----------------------------------------------------------------------------
\* cdcacm_set_config, in the USB task: the host has configured the device.
Configure ==
  /\ pc = "idle" /\ USBConfigured = 0 /\ USBConfigured' = 1
  /\ UNCHANGED <<ringvars, printvars, echovars, busy, put, given, history>>

\* The host takes the packet.
Collect ==
  /\ busy = 1 /\ busy' = 0
  /\ UNCHANGED <<ringvars, printvars, echovars, USBConfigured, put, given, history>>

EchoStep ==
  \/ \E n \in Lengths : Echo(n)
  \/ EchoLoad \/ EchoSend \/ EchoPacket
  \/ \E field \in {"buffer", "wPtr", "size"} : EchoStore(field) \/ EchoReset(field)

Next == (\E n \in Lengths : myprintf(n)) \/ enq \/ sendPacket \/ EchoStep
          \/ Configure \/ Collect
Spec == Init /\ [][Next]_vars

-----------------------------------------------------------------------------
\* Every variable stays in its range.
TypeOK ==
  /\ buffer \in [Slots -> Nat]
  /\ rPtr \in Slots /\ wPtr \in Slots /\ size \in 0 .. BUFFER_SIZE
  /\ pc \in {"idle", "put"} /\ left \in Nat
  /\ echo \in {"idle", "next", "store", "send", "reset"} /\ toEcho \in Nat
  /\ reg \in [ptr : Slots, size : 0 .. BUFFER_SIZE, char : Nat]
  /\ stores \subseteq {"buffer", "wPtr", "size"}
  /\ USBConfigured \in {0, 1} /\ busy \in {0, 1}
  /\ put \in Nat /\ given \in Nat
  /\ hit \in BOOLEAN /\ mixed \in BOOLEAN /\ filled \in BOOLEAN /\ offset \in Int

\* However the two writers interleave, a packet lies inside the buffer.
PacketInsideBuffer ==
  /\ rPtr + size <= BUFFER_SIZE
  /\ echo = "send" => reg.ptr + reg.size <= BUFFER_SIZE

\* The writers have not mixed since the ring was last empty, and the echo is not
\* between two of its stores.
InOrder == ~mixed /\ echo \notin {"store", "reset"}

\* What sendPacket would send is exactly the newest characters, in order: nothing
\* is sent twice, out of order, or from a slot that no character was put into.
\* A myprintf that came upon a half-done echo can spoil that, but only up to the
\* next packet that goes out undisturbed.
SendsNewest ==
  InOrder => \A i \in 0 .. size - 1 : buffer[rPtr + i] = put - size + 1 + i

\* "We wrote it all": every character written has been handed to the endpoint or is
\* still in the ring, whenever the host collects and however the packets fall.  This
\* fails when the ring fills up before a packet can go, which _write does not notice,
\* and after a mix-up of the writers; it holds anew once a packet has gone.
NothingLost == InOrder /\ ~filled => put = offset + given + size
=============================================================================
