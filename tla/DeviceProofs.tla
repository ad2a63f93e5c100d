---------------------------- MODULE DeviceProofs ----------------------------
(***************************************************************************)
(* The command link for any commands, queue length, number of attempts and *)
(* host deaths: types, the interrupt handshake, the blinker, the order of  *)
(* the commands and the service of CommandService.  Then the device: it is *)
(* the link once it has come up, and comes up without a task that hangs,   *)
(* for every length of a time slice of three statements or more.           *)
(***************************************************************************)
EXTENDS Device, SequenceTheorems, TLAPS

LEMMA InitOK == Init => TypeOK /\ NoLostWakeup
<1> SUFFICES ASSUME Init PROVE TypeOK /\ NoLostWakeup
  OBVIOUS
<1>1. died \in BOOLEAN
  BY Zenon DEF Init
<1>2. QED
  BY <1>1, KindsAssumption, LinkAssumption
     DEF Init, TypeOK, NoLostWakeup, Requests, Replies, NoRequest, NoReply, Packet, BlinkerInit

\* Every step keeps every variable in its range.
LEMMA TypeStep == ASSUME TypeOK, [Next]_vars PROVE TypeOK'
<1> USE KindsAssumption, LinkAssumption DEF TypeOK, Requests, Replies, blinkvars
<1>1. CASE Connect \/ CallMethod
  <2>1. PICK k \in Kinds : Send(k)
    BY <1>1 DEF Connect, CallMethod
  <2>2. request' \in Requests
    BY <2>1 DEF Send, Packet
  <2>3. QED
    BY <2>1, <2>2 DEF Send, epvars, usbvars, instrvars
<1>2. CASE BulkWrite
  BY <1>2 DEF BulkWrite, usbvars, instrvars
<1>3. CASE BulkRead
  BY <1>3 DEF BulkRead, NoReply, usbvars, instrvars
<1>4. CASE Disconnect \/ HostDies
  <2>1. died' = TRUE \/ died' = died
    BY <1>4 DEF Disconnect, HostDies
  <2>2. died' \in BOOLEAN
    BY <2>1, Zenon
  <2>3. /\ host' = "off" /\ UNCHANGED <<request, reply, epvars, usbvars>>
        /\ UNCHANGED <<CTRLinQ, instrvars, blinkvars>>
    BY <1>4 DEF Disconnect, HostDies
  <2>4. QED
    BY <2>2, <2>3 DEF epvars, usbvars, instrvars
<1>5. CASE otg_fs_isr
  BY <1>5 DEF otg_fs_isr, hostvars, epvars, instrvars
<1>6. CASE TakeSemaphore
  BY <1>6 DEF TakeSemaphore, hostvars, epvars, instrvars
<1>7. CASE PollIn
  BY <1>7 DEF PollIn, hostvars, instrvars
<1>8. CASE PollOut
  <2>1. CTRLinQ' \in Seq(Requests) /\ Len(CTRLinQ') <= QueueLength
    <3> DEFINE longer == Append(CTRLinQ, outEp)
    <3>1. longer \in Seq(Requests) /\ Len(longer) = Len(CTRLinQ) + 1
      BY AppendProperties
    <3>2. Len(CTRLinQ) \in Nat
      BY LenProperties
    <3>3. CTRLinQ' = IF Len(CTRLinQ) < QueueLength THEN longer ELSE CTRLinQ
      BY <1>8 DEF PollOut
    <3> HIDE DEF longer
    <3>4. QED
      BY <3>1, <3>2, <3>3
  <2>2. QED
    BY <1>8, <2>1 DEF PollOut, NoRequest, Packet, hostvars, instrvars
<1>9. CASE EnableIrq
  BY <1>9 DEF EnableIrq, hostvars, epvars, instrvars
<1>10. CASE ReadPacket
  <2>1. /\ inpkt' \in Requests
        /\ CTRLinQ' \in Seq(Requests) /\ Len(CTRLinQ') <= QueueLength
    <3>1. CTRLinQ \in Seq(Requests) /\ CTRLinQ # <<>>
      BY <1>10 DEF ReadPacket
    <3>2. /\ Head(CTRLinQ) \in Requests
          /\ Tail(CTRLinQ) \in Seq(Requests) /\ Len(Tail(CTRLinQ)) = Len(CTRLinQ) - 1
      BY <3>1, HeadTailProperties
    <3>3. QED
      BY <1>10, <3>2 DEF ReadPacket
  <2>2. QED
    BY <1>10, <2>1 DEF ReadPacket, hostvars, epvars, usbvars
<1>11. CASE Execute \/ id_blinkEnd
  <2>1. Respond
    BY <1>11 DEF Execute, id_blinkEnd
  <2>2. IDBlinkOn' \in {0, 1} /\ xIDBlinkerTaskHandle' \in {0, 1}
        /\ blinker' \in {"none", "test", "dark", "returned"}
    BY <1>11 DEF Execute, id_blinkEnd, BlinkOn, DeleteBlinker
  <2>3. QED
    BY <2>1, <2>2 DEF Respond, Reply, copyPacket, hostvars, epvars, usbvars
<1>12. CASE WritePacket
  BY <1>12 DEF WritePacket, hostvars, usbvars
<1>13. CASE EndpointBusy
  BY <1>13 DEF EndpointBusy, hostvars, epvars, usbvars
<1>14. CASE UNCHANGED vars
  BY <1>14 DEF vars, hostvars, epvars, usbvars, instrvars
<1>15. CASE id_blinkOff
  BY <1>15 DEF id_blinkOff, AskToEnd, hostvars, epvars, usbvars
<1>16. CASE BlinkTask \/ LEDTask
  <2>1. /\ UNCHANGED <<hostvars, epvars, usbvars, CTRLinQ, instrvars>>
        /\ UNCHANGED <<IDBlinkOn, xIDBlinkerTaskHandle>>
    BY <1>16 DEF BlinkTask, LEDTask, vIDBlinkerTask, BlinkDark, BlinkLit, BlinkReturn, vLEDTask1
  <2>2. red' \in {0, 1} /\ blinker' \in {"none", "test", "dark", "returned"}
    BY <1>16 DEF BlinkTask, LEDTask, vIDBlinkerTask, BlinkDark, BlinkLit, BlinkReturn, vLEDTask1
  <2>3. QED
    BY <2>1, <2>2 DEF hostvars, epvars, usbvars, instrvars
<1>17. QED
  BY <1>1, <1>2, <1>3, <1>4, <1>5, <1>6, <1>7, <1>8, <1>9, <1>10, <1>11,
     <1>12, <1>13, <1>14, <1>15, <1>16 DEF Next, HostStep, UsbTask, InstrTask

\* The token between the interrupt, the semaphore and the USB task is neither
\* lost nor doubled, and a packet that caused the interrupt is still there when
\* the task polls.
LEMMA WakeupStep == ASSUME TypeOK, NoLostWakeup, [Next]_vars PROVE NoLostWakeup'
<1> USE DEF TypeOK, NoLostWakeup, blinkvars
<1>1. CASE Connect \/ CallMethod
  BY <1>1 DEF Connect, CallMethod, Send, epvars, usbvars, instrvars
<1>2. CASE BulkWrite
  BY <1>2 DEF BulkWrite, usbvars, instrvars
<1>3. CASE BulkRead
  BY <1>3 DEF BulkRead, usbvars, instrvars
<1>4. CASE Disconnect \/ HostDies
  BY <1>4 DEF Disconnect, HostDies, epvars, usbvars, instrvars
<1>5. CASE otg_fs_isr
  BY <1>5 DEF otg_fs_isr, hostvars, epvars, instrvars
<1>6. CASE TakeSemaphore
  BY <1>6 DEF TakeSemaphore, hostvars, epvars, instrvars
<1>7. CASE PollIn
  BY <1>7 DEF PollIn, hostvars, instrvars
<1>8. CASE PollOut
  BY <1>8 DEF PollOut, hostvars, instrvars
<1>9. CASE EnableIrq
  BY <1>9 DEF EnableIrq, hostvars, epvars, instrvars
<1>10. CASE ReadPacket
  BY <1>10 DEF ReadPacket, hostvars, epvars, usbvars
<1>11. CASE Execute \/ id_blinkEnd
  <2>1. Respond
    BY <1>11 DEF Execute, id_blinkEnd
  <2>2. QED
    BY <2>1 DEF Respond, hostvars, epvars, usbvars
<1>12. CASE WritePacket
  BY <1>12 DEF WritePacket, hostvars, usbvars
<1>13. CASE EndpointBusy
  BY <1>13 DEF EndpointBusy, hostvars, epvars, usbvars
<1>14. CASE UNCHANGED vars
  BY <1>14 DEF vars, hostvars, epvars, usbvars, instrvars
<1>15. CASE id_blinkOff
  BY <1>15 DEF id_blinkOff, AskToEnd, hostvars, epvars, usbvars
<1>16. CASE BlinkTask \/ LEDTask
  BY <1>16 DEF BlinkTask, LEDTask, vIDBlinkerTask, BlinkDark, BlinkLit, BlinkReturn, vLEDTask1,
               hostvars, epvars, usbvars, instrvars
<1>17. QED
  BY <1>1, <1>2, <1>3, <1>4, <1>5, <1>6, <1>7, <1>8, <1>9, <1>10, <1>11,
     <1>12, <1>13, <1>14, <1>15, <1>16 DEF Next, HostStep, UsbTask, InstrTask

\* In the 100 ms of id_blink(0) the task has been asked to end.
AskedToEnd == instr = "blinkoff" => IDBlinkOn = 0 /\ xIDBlinkerTaskHandle = 1

\* The flag, the handle and the task agree.
LEMMA OwnedStep ==
  ASSUME TypeOK, AskedToEnd, BlinkerOwned, [Next]_vars PROVE AskedToEnd' /\ BlinkerOwned'
<1> USE DEF TypeOK, AskedToEnd, BlinkerOwned
<1>1. CASE HostStep \/ otg_fs_isr \/ UsbTask
  <2>1. UNCHANGED <<IDBlinkOn, xIDBlinkerTaskHandle, blinker, instr>>
    BY <1>1 DEF HostStep, Connect, CallMethod, Send, BulkWrite, BulkRead, Disconnect, HostDies,
                otg_fs_isr, UsbTask, TakeSemaphore, PollIn, PollOut, EnableIrq, blinkvars, instrvars
  <2>2. QED
    BY <2>1
<1>2. CASE ReadPacket \/ WritePacket \/ EndpointBusy
  <2>1. /\ UNCHANGED <<IDBlinkOn, xIDBlinkerTaskHandle, blinker>>
        /\ instr # "blinkoff" /\ instr' # "blinkoff"
    BY <1>2 DEF ReadPacket, WritePacket, EndpointBusy, blinkvars
  <2>2. QED
    BY <2>1
<1>3. CASE Execute
  BY <1>3 DEF Execute, BlinkOn, Respond
<1>4. CASE id_blinkOff
  BY <1>4 DEF id_blinkOff, EndsBlinking, AskToEnd
<1>5. CASE id_blinkEnd
  <2>1. xIDBlinkerTaskHandle' = 0 /\ blinker' = "none" /\ IDBlinkOn' = IDBlinkOn
    BY <1>5 DEF id_blinkEnd, DeleteBlinker
  <2>2. QED
    BY <1>5, <2>1 DEF id_blinkEnd, Respond
<1>6. CASE BlinkTask
  <2>1. UNCHANGED <<IDBlinkOn, xIDBlinkerTaskHandle, instr>>
    BY <1>6 DEF BlinkTask, vIDBlinkerTask, BlinkDark, BlinkLit, BlinkReturn, instrvars
  <2>2. /\ blinker # "none" /\ blinker' # "none"
        /\ blinker' = "returned" => IDBlinkOn = 0
    BY <1>6 DEF BlinkTask, vIDBlinkerTask, BlinkDark, BlinkLit, BlinkReturn
  <2>3. QED
    BY <2>1, <2>2
<1>7. CASE LEDTask \/ UNCHANGED vars
  BY <1>7 DEF LEDTask, vLEDTask1, vars, blinkvars, instrvars
<1>8. QED
  BY <1>1, <1>2, <1>3, <1>4, <1>5, <1>6, <1>7 DEF Next, InstrTask

\* Type correctness, with the bounds of the queue and of the endpoints.
THEOREM LinkTypeCorrect == Spec => []TypeOK
<1>1. QED
  BY InitOK, TypeStep, PTL DEF Spec

\* No wake-up of the USB task is lost.
THEOREM NoWakeupIsLost == Spec => []NoLostWakeup
<1>1. Init => TypeOK /\ NoLostWakeup
  BY InitOK
<1>2. TypeOK /\ NoLostWakeup /\ [Next]_vars => (TypeOK /\ NoLostWakeup)'
  BY TypeStep, WakeupStep
<1>3. QED
  BY <1>1, <1>2, PTL DEF Spec

\* The blinker task is created, told to end and deleted in step with its handle.
THEOREM BlinkerIsOwned == Spec => []BlinkerOwned
<1>1. Init => AskedToEnd /\ BlinkerOwned
  BY DEF Init, BlinkerInit, AskedToEnd, BlinkerOwned
<1>2. TypeOK /\ AskedToEnd /\ BlinkerOwned /\ [Next]_vars => (AskedToEnd /\ BlinkerOwned)'
  BY OwnedStep
<1>3. QED
  BY <1>1, <1>2, LinkTypeCorrect, PTL DEF Spec

-----------------------------------------------------------------------------
\* Everything the device has taken off the endpoint is older than request n.
Older(n) == inpkt.id < n /\ \A k \in 1 .. Len(CTRLinQ) : CTRLinQ[k].id < n

\* From the command that is performed through the queue and the endpoint to the
\* request that the host is about to write, each is younger than the one before.
InOrder ==
  /\ \A k \in 1 .. Len(CTRLinQ) : inpkt.id < CTRLinQ[k].id
  /\ \A i, k \in 1 .. Len(CTRLinQ) : i < k => CTRLinQ[i].id < CTRLinQ[k].id
  /\ outEp # NoRequest => Older(outEp.id) /\ outEp.id <= request.id
  /\ host = "writing" => Older(request.id) /\ (outEp # NoRequest => outEp.id < request.id)
  /\ Older(request.id + 1)

LEMMA NumbersAreNaturals ==
  ASSUME TypeOK
  PROVE  /\ request.id \in Nat /\ outEp.id \in Nat /\ inpkt.id \in Nat /\ Len(CTRLinQ) \in Nat
         /\ \A k \in 1 .. Len(CTRLinQ) : CTRLinQ[k].id \in Nat
<1>1. \A r \in Requests : r.id \in Nat
  BY KindsAssumption DEF Requests
<1>2. Len(CTRLinQ) \in Nat /\ \A k \in 1 .. Len(CTRLinQ) : CTRLinQ[k] \in Requests
  BY LenProperties DEF TypeOK
<1>3. QED
  BY <1>1, <1>2 DEF TypeOK

\* A new request is younger than all there are, and what leaves one place for the
\* next keeps its place in the order; what the queue drops leaves a gap only.
LEMMA OrderStep == ASSUME TypeOK, InOrder, [Next]_vars PROVE InOrder'
<1> USE NumbersAreNaturals
<1>1. CASE Connect \/ CallMethod
  <2>1. PICK k \in Kinds : Send(k)
    BY <1>1, KindsAssumption DEF Connect, CallMethod
  <2>2. /\ request'.id = request.id + 1
        /\ UNCHANGED <<outEp, CTRLinQ, inpkt>>
    BY <2>1 DEF Send, Packet, epvars, instrvars
  <2>3. QED
    BY <2>2 DEF InOrder, Older
<1>2. CASE BulkWrite
  BY <1>2 DEF BulkWrite, InOrder, Older, instrvars
<1>3. CASE BulkRead \/ Disconnect \/ HostDies
  <2>1. /\ host' # "writing"
        /\ UNCHANGED <<request, outEp, CTRLinQ, inpkt>>
    BY <1>3 DEF BulkRead, Disconnect, HostDies, epvars, instrvars
  <2>2. QED
    BY <2>1 DEF InOrder, Older
<1>4. CASE PollOut
  <2>1. /\ outEp # NoRequest /\ outEp' = NoRequest
        /\ UNCHANGED <<host, request, inpkt>>
    BY <1>4 DEF PollOut, hostvars, instrvars
  <2>2. CASE CTRLinQ' = CTRLinQ
    BY <2>1, <2>2 DEF InOrder, Older
  <2>3. CASE CTRLinQ' = Append(CTRLinQ, outEp)
    <3>1. /\ Len(CTRLinQ') = Len(CTRLinQ) + 1
          /\ \A k \in 1 .. Len(CTRLinQ) : CTRLinQ'[k] = CTRLinQ[k]
          /\ CTRLinQ'[Len(CTRLinQ) + 1] = outEp
      BY <2>3, AppendProperties DEF TypeOK
    <3>2. \A k \in 1 .. Len(CTRLinQ') :
            \/ k \in 1 .. Len(CTRLinQ) /\ CTRLinQ'[k] = CTRLinQ[k]
            \/ k = Len(CTRLinQ) + 1 /\ CTRLinQ'[k] = outEp
      BY <3>1
    <3>3. \A i, k \in 1 .. Len(CTRLinQ') : i < k => CTRLinQ'[i].id < CTRLinQ'[k].id
      BY <2>1, <3>1, <3>2 DEF InOrder, Older
    <3>4. \A k \in 1 .. Len(CTRLinQ') : inpkt.id < CTRLinQ'[k].id
      BY <2>1, <3>2 DEF InOrder, Older
    <3>5. \A n \in Nat : outEp.id < n /\ Older(n) => Older(n)'
      BY <2>1, <3>2 DEF Older
    <3>6. Older(request.id + 1)' /\ (host = "writing" => Older(request.id)')
      BY <2>1, <3>5 DEF InOrder
    <3>7. QED
      BY <2>1, <3>3, <3>4, <3>6 DEF InOrder
  <2>4. QED
    BY <1>4, <2>2, <2>3 DEF PollOut
<1>5. CASE ReadPacket
  <2>1. /\ CTRLinQ # <<>> /\ inpkt' = Head(CTRLinQ) /\ CTRLinQ' = Tail(CTRLinQ)
        /\ UNCHANGED <<host, request, outEp>>
    BY <1>5 DEF ReadPacket, hostvars, epvars
  <2>2. /\ inpkt' = CTRLinQ[1] /\ 1 \in 1 .. Len(CTRLinQ)
        /\ Len(CTRLinQ') = Len(CTRLinQ) - 1
        /\ \A k \in 1 .. Len(CTRLinQ') : CTRLinQ'[k] = CTRLinQ[k + 1] /\ k + 1 \in 1 .. Len(CTRLinQ)
    BY <2>1, HeadTailProperties, EmptySeq DEF TypeOK
  <2>3. QED
    BY <2>1, <2>2 DEF InOrder, Older
<1>6. CASE \/ otg_fs_isr \/ TakeSemaphore \/ PollIn \/ EnableIrq \/ Execute \/ id_blinkOff \/ id_blinkEnd
           \/ WritePacket \/ EndpointBusy \/ BlinkTask \/ LEDTask \/ UNCHANGED vars
  <2>1. UNCHANGED <<host, request, outEp, CTRLinQ, inpkt>>
    BY <1>6 DEF otg_fs_isr, TakeSemaphore, PollIn, EnableIrq, Execute, Respond, id_blinkOff,
                id_blinkEnd, WritePacket, EndpointBusy, BlinkTask, LEDTask, vars, hostvars, epvars, instrvars
  <2>2. QED
    BY <2>1 DEF InOrder, Older
<1>7. QED
  BY <1>1, <1>2, <1>3, <1>4, <1>5, <1>6 DEF Next, HostStep, UsbTask, InstrTask

\* A command is performed at most once and never before an earlier one, for any
\* queue and any number of requests, whatever dies and whatever is dropped.
THEOREM LinkPerformsInOrder == Spec => OnceInOrder
<1> DEFINE Younger == instr = "receive" /\ instr' = "execute" => inpkt'.id > inpkt.id
<1>1. Init => InOrder
  BY DEF Init, InOrder, Older, NoRequest, Packet
<1>2. TypeOK /\ InOrder /\ [Next]_vars => InOrder'
  BY OrderStep
<1>3. ASSUME TypeOK, InOrder, [Next]_vars PROVE [Younger]_vars
  <2>1. SUFFICES ASSUME instr = "receive", instr' = "execute" PROVE inpkt'.id > inpkt.id
    OBVIOUS
  <2>2. ReadPacket
    BY <1>3, <2>1 DEF Next, HostStep, Connect, CallMethod, Send, BulkWrite, BulkRead, Disconnect, HostDies,
       otg_fs_isr, UsbTask, TakeSemaphore, PollIn, PollOut, EnableIrq, InstrTask, Execute, id_blinkOff,
       id_blinkEnd, Respond, WritePacket, EndpointBusy, BlinkTask, LEDTask, vars, instrvars
  <2>3. CTRLinQ # <<>> /\ inpkt' = Head(CTRLinQ)
    BY <2>2 DEF ReadPacket
  <2>4. inpkt' = CTRLinQ[1] /\ 1 \in 1 .. Len(CTRLinQ)
    BY <2>3, EmptySeq DEF TypeOK
  <2>5. QED
    BY <1>3, <2>4, NumbersAreNaturals DEF InOrder
<1>4. QED
  BY <1>1, <1>2, <1>3, LinkTypeCorrect, PTL DEF Spec, OnceInOrder

-----------------------------------------------------------------------------
(* The link implements the service of CommandService.  As long as no host    *)
(* process has died there is one request at a time, in one place.            *)

Still == outEp = NoRequest /\ CTRLinQ = <<>> /\ inEp = NoReply /\ instr = "receive"

\* The places of a request between bulk_write and bulk_read.
OnEndpoint == /\ outEp = request /\ CTRLinQ = <<>> /\ inEp = NoReply
              /\ instr = "receive" /\ performed = request.id - 1
Queued     == /\ outEp = NoRequest /\ CTRLinQ = <<request>> /\ inEp = NoReply
              /\ instr = "receive" /\ performed = request.id - 1
InWork     == /\ outEp = NoRequest /\ CTRLinQ = <<>> /\ inEp = NoReply
              /\ instr \in {"execute", "blinkoff"} /\ inpkt = request /\ performed = request.id - 1
Answering  == /\ outEp = NoRequest /\ CTRLinQ = <<>> /\ inEp = NoReply
              /\ instr = "write" /\ outpkt = Reply(request) /\ performed = request.id
Answered   == /\ outEp = NoRequest /\ CTRLinQ = <<>> /\ inEp = Reply(request)
              /\ instr = "receive" /\ performed = request.id

Idle    == host \in {"off", "ready"} /\ Still /\ performed = request.id
Writing == host = "writing" /\ Still /\ request.id > 0 /\ performed = request.id - 1
Reading == host = "reading" /\ request.id > 0
             /\ (OnEndpoint \/ Queued \/ InWork \/ Answering \/ Answered)
OneRequest == Idle \/ Writing \/ Reading

Mapped == IF host \in {"off", "ready"} THEN "idle"
          ELSE IF performed < request.id THEN "asked" ELSE "done"

\* What the steps are to the service, and that they keep the request in one place.
Asks     == \E k \in Kinds : /\ Mapped = "idle" /\ Mapped' = "asked"
                             /\ request.id < MaxRequests
                             /\ request' = Packet(request.id + 1, k)
                             /\ UNCHANGED <<performed, reply, died>>
Performs == /\ Mapped = "asked" /\ Mapped' = "done" /\ performed' = performed + 1
            /\ UNCHANGED <<request, reply, died>>
Answers  == /\ Mapped = "done" /\ Mapped' = "idle" /\ reply' = Reply(request)
            /\ UNCHANGED <<request, performed, died>>
Stutters == Mapped' = Mapped /\ UNCHANGED <<request, performed, reply, died>>

LEMMA NumbersOfRequest ==
  ASSUME TypeOK
  PROVE  /\ request.id \in Nat /\ performed \in Nat
         /\ request.id > 0 => request # NoRequest /\ Reply(request) # NoReply
<1>1. request.id \in Nat /\ performed \in Nat
  BY NumbersAreNaturals DEF TypeOK
<1>2. NoRequest.id = 0 /\ NoReply.id = 0
  BY DEF NoRequest, NoReply, Packet
<1>3. Reply(request).id = request.id
  BY DEF Reply, copyPacket
<1>4. QED
  BY <1>1, <1>2, <1>3

LEMMA ServiceStep ==
  ASSUME TypeOK, OneRequest, [Next]_vars, ~HostDies
  PROVE  OneRequest' /\ (Asks \/ Performs \/ Answers \/ Stutters)
<1> USE NumbersOfRequest
<1> USE DEF OneRequest, Idle, Writing, Reading, Still, OnEndpoint, Queued, InWork, Answering, Answered
<1>1. CASE Connect \/ CallMethod
  <2>1. PICK k \in Kinds : Send(k)
    BY <1>1, KindsAssumption DEF Connect, CallMethod
  <2>2. /\ host \in {"off", "ready"} /\ host' = "writing"
        /\ request.id < MaxRequests /\ request' = Packet(request.id + 1, k)
        /\ UNCHANGED <<reply, died, outEp, inEp, CTRLinQ, instr, performed>>
    BY <1>1, <2>1 DEF Connect, CallMethod, Send, epvars, instrvars
  <2>3. request'.id = request.id + 1
    BY <2>2 DEF Packet
  <2>4. OneRequest'
    BY <2>2, <2>3
  <2>5. Mapped = "idle" /\ Mapped' = "asked"
    BY <2>2, <2>3 DEF Mapped
  <2>6. QED
    BY <2>1, <2>2, <2>4, <2>5 DEF Asks
<1>2. CASE BulkWrite
  <2>1. /\ host = "writing" /\ host' = "reading" /\ outEp' = request
        /\ UNCHANGED <<request, reply, died, inEp, CTRLinQ, instr, performed>>
    BY <1>2 DEF BulkWrite, instrvars
  <2>2. QED
    BY <2>1 DEF Stutters, Mapped
<1>3. CASE BulkRead
  <2>1. /\ host = "reading" /\ host' = "ready" /\ inEp # NoReply /\ reply' = inEp /\ inEp' = NoReply
        /\ UNCHANGED <<request, died, outEp, CTRLinQ, instr, performed>>
    BY <1>3 DEF BulkRead, instrvars
  <2>2. Answered
    BY <2>1
  <2>3. QED
    BY <2>1, <2>2 DEF Answers, Mapped
<1>4. CASE Disconnect
  <2>1. /\ host = "ready" /\ host' = "off"
        /\ UNCHANGED <<request, reply, died, outEp, inEp, CTRLinQ, instr, performed>>
    BY <1>4 DEF Disconnect, epvars, instrvars
  <2>2. QED
    BY <2>1 DEF Stutters, Mapped
<1>5. CASE PollOut
  <2>1. /\ outEp # NoRequest /\ outEp' = NoRequest
        /\ CTRLinQ' = IF Len(CTRLinQ) < QueueLength THEN Append(CTRLinQ, outEp) ELSE CTRLinQ
        /\ UNCHANGED <<host, request, reply, died, inEp, instr, performed>>
    BY <1>5 DEF PollOut, hostvars, instrvars
  <2>2. host = "reading" /\ OnEndpoint
    BY <2>1
  <2>3. CTRLinQ' = <<request>>
    BY <2>1, <2>2, LinkAssumption
  <2>4. QED
    BY <2>1, <2>2, <2>3 DEF Stutters, Mapped
<1>6. CASE ReadPacket
  <2>1. /\ CTRLinQ # <<>> /\ inpkt' = Head(CTRLinQ) /\ CTRLinQ' = Tail(CTRLinQ)
        /\ instr' = "execute"
        /\ UNCHANGED <<host, request, reply, died, outEp, inEp, performed>>
    BY <1>6 DEF ReadPacket, hostvars, epvars
  <2>2. host = "reading" /\ Queued
    BY <2>1
  <2>3. inpkt' = request /\ CTRLinQ' = <<>>
    BY <2>1, <2>2
  <2>4. QED
    BY <2>1, <2>2, <2>3 DEF Stutters, Mapped
<1>7. CASE Execute \/ id_blinkEnd
  <2>1. /\ instr \in {"execute", "blinkoff"} /\ instr' = "write" /\ performed' = performed + 1
        /\ outpkt' = Reply(inpkt)
        /\ UNCHANGED <<host, request, reply, died, outEp, inEp, CTRLinQ>>
    BY <1>7 DEF Execute, id_blinkEnd, Respond, hostvars, epvars
  <2>2. host = "reading" /\ InWork
    BY <2>1
  <2>3. QED
    BY <2>1, <2>2 DEF Performs, Mapped
<1>8. CASE id_blinkOff
  <2>1. /\ instr = "execute" /\ instr' = "blinkoff"
        /\ UNCHANGED <<host, request, reply, died, outEp, inEp, CTRLinQ, inpkt, performed>>
    BY <1>8 DEF id_blinkOff, hostvars, epvars
  <2>2. QED
    BY <2>1 DEF Stutters, Mapped
<1>9. CASE WritePacket
  <2>1. /\ instr = "write" /\ instr' = "receive" /\ inEp' = outpkt
        /\ UNCHANGED <<host, request, reply, died, outEp, CTRLinQ, performed>>
    BY <1>9 DEF WritePacket, hostvars
  <2>2. host = "reading" /\ Answering
    BY <2>1
  <2>3. QED
    BY <2>1, <2>2 DEF Stutters, Mapped
<1>10. CASE EndpointBusy
  BY <1>10 DEF EndpointBusy
<1>11. CASE otg_fs_isr \/ TakeSemaphore \/ PollIn \/ EnableIrq \/ BlinkTask \/ LEDTask \/ UNCHANGED vars
  <2>1. UNCHANGED <<host, request, reply, died, outEp, inEp, CTRLinQ, instr, inpkt, outpkt, performed>>
    BY <1>11 DEF otg_fs_isr, TakeSemaphore, PollIn, EnableIrq, BlinkTask, LEDTask, vars, hostvars, epvars,
                 instrvars
  <2>2. QED
    BY <2>1 DEF Stutters, Mapped
<1>12. QED
  BY <1>1, <1>2, <1>3, <1>4, <1>5, <1>6, <1>7, <1>8, <1>9, <1>10, <1>11
     DEF Next, HostStep, UsbTask, InstrTask

LEMMA OnlyHostsDie == ASSUME [Next]_vars, ~HostDies PROVE died' = died
BY Zenon DEF Next, HostStep, Connect, CallMethod, Send, BulkWrite, BulkRead, Disconnect, UsbTask,
   InstrTask, otg_fs_isr, TakeSemaphore, PollIn, PollOut, EnableIrq, ReadPacket, Execute, id_blinkOff,
   id_blinkEnd, Respond, WritePacket, EndpointBusy, BlinkTask, LEDTask, vars, hostvars

\* Until a process dies there is one request at a time.
Undied == died = FALSE => OneRequest

LEMMA UndiedStep ==
  ASSUME TypeOK, Undied, [Next]_vars
  PROVE  Undied' /\ (died = FALSE /\ ~HostDies => Asks \/ Performs \/ Answers \/ Stutters)
<1>1. CASE HostDies
  <2>1. died' = TRUE
    BY <1>1 DEF HostDies
  <2>2. QED
    BY <1>1, <2>1, Zenon DEF Undied
<1>2. CASE ~HostDies /\ died = FALSE
  <2>1. OneRequest
    BY <1>2 DEF Undied
  <2>2. QED
    BY <1>2, <2>1, ServiceStep DEF Undied
<1>3. CASE ~HostDies /\ died # FALSE
  <2>1. died' = died
    BY <1>3, OnlyHostsDie
  <2>2. QED
    BY <1>3, <2>1, Zenon DEF Undied
<1>4. QED
  BY <1>1, <1>2, <1>3

\* A step of the link is a step of the service, or none.
LEMMA StepIsService ==
  ASSUME TypeOK, Undied, [Next]_vars
  PROVE  [Service!SNext]_(Service!svars)
<1>1. CASE HostDies
  BY <1>1, Zenon DEF HostDies, Service!SNext
<1>2. CASE ~HostDies /\ died = FALSE
  <2>1. Asks \/ Performs \/ Answers \/ Stutters
    BY <1>2, UndiedStep
  <2>2. CASE Asks
    <3>1. PICK k \in Kinds : /\ Mapped = "idle" /\ Mapped' = "asked"
                             /\ request.id < MaxRequests
                             /\ request' = Packet(request.id + 1, k)
                             /\ UNCHANGED <<performed, reply, died>>
      BY <2>2 DEF Asks
    <3>2. Service!Undisturbed(Service!Ask(k))
      BY <1>2, <3>1 DEF Mapped, Service!Undisturbed, Service!Ask, Service!Packet, Packet
    <3>3. QED
      BY <3>2 DEF Service!SNext
  <2>3. CASE Performs
    BY <1>2, <2>3 DEF Performs, Mapped, Service!SNext, Service!Undisturbed, Service!Perform
  <2>4. CASE Answers
    BY <1>2, <2>4 DEF Answers, Mapped, Service!SNext, Service!Undisturbed, Service!Answer,
                      Service!Reply, Reply, Service!Copied, Copied, Service!Acked, Acked,
                      Service!copyPacket, copyPacket
  <2>5. CASE Stutters
    BY <2>5 DEF Stutters, Mapped, Service!svars
  <2>6. QED
    BY <2>1, <2>2, <2>3, <2>4, <2>5
<1>3. CASE ~HostDies /\ died # FALSE
  <2>1. died' = died
    BY <1>3, OnlyHostsDie
  <2>2. died = TRUE
    BY <1>3, Zenon DEF TypeOK
  <2>3. QED
    BY <2>1, <2>2, Zenon DEF Service!SNext
<1>4. QED
  BY <1>1, <1>2, <1>3

\* The safety half of LinkServes: until a host process dies in send_packet each
\* request is performed once and answered with its own reply, for all commands,
\* queues and numbers of requests.
THEOREM LinkImplementsService == Spec => Service!SSafe
<1>1. Init => OneRequest /\ Undied
  BY DEF Init, Undied, OneRequest, Idle, Still, NoRequest, Packet
<1>2. Init => Service!SInit
  BY DEF Init, Service!SInit, NoRequest, NoReply, Packet, Service!NoRequest, Service!NoReply, Service!Packet
<1>3. TypeOK /\ Undied /\ [Next]_vars => Undied' /\ [Service!SNext]_(Service!svars)
  BY UndiedStep, StepIsService
<1>4. QED
  BY <1>1, <1>2, <1>3, LinkTypeCorrect, PTL DEF Spec, Service!SSafe

-----------------------------------------------------------------------------
\* Every behaviour of the device is, seen from the link, one of the link.
THEOREM DeviceIsLink == DSpec => Spec
<1>1. DInit => Init
  BY DEF DInit
<1>2. [DNext]_devicevars => [Next]_vars
  BY DEF DNext, devicevars
<1> QED
  BY <1>1, <1>2, PTL DEF DSpec, Spec

\* All that is proved of the link holds of the device from the start of its
\* scheduler on: no wake-up of the USB task is lost, commands run at most once
\* and in order, the blinker is owned, and until a host process dies every step
\* is one of CommandService.
THEOREM DeviceKeepsLink ==
  DSpec => /\ [](TypeOK /\ NoLostWakeup /\ BlinkerOwned)
           /\ OnceInOrder /\ Service!SSafe
BY DeviceIsLink, LinkTypeCorrect, NoWakeupIsLost, BlinkerIsOwned, LinkPerformsInOrder,
   LinkImplementsService, PTL

-----------------------------------------------------------------------------
(* Before the USB task has created both queues nobody else has run but the  *)
(* timer task, for what it does until then fits into its first slice.       *)

StartShape ==
  /\ running \in Tasks /\ ready \in Seq(Tasks)
  /\ done \in [Tasks -> Nat]
  /\ slice \in 0 .. Slice

\* Only the idle task runs when no other is ready.
SomeReady == running \notin {"timer", "idle"} => ready # <<>>

ObjectsExist ==
  /\ "TimerQ" \in objects /\ "delay" \in objects
  /\ done["usb"] >= 1 => "UARTinQ" \in objects
  /\ done["usb"] >= 2 => "CTRLinQ" \in objects
  /\ done["usb"] >= 4 => "usbInterrupted" \in objects

QueuesFirst ==
  done["usb"] < 2 =>
    \/ running = "timer" /\ slice = 0 /\ done["usb"] = 0 /\ ready = TaskOrder
    \/ running = "usb" /\ slice <= done["usb"] + 1

StartInv == StartShape /\ SomeReady /\ ObjectsExist /\ QueuesFirst /\ NobodyAsserts

LEMMA StartInvInit == StartInit => StartInv
<1> SUFFICES ASSUME StartInit PROVE StartInv
  OBVIOUS
<1>1. StartShape /\ ObjectsExist /\ QueuesFirst /\ NobodyAsserts
  BY SliceAssumption
     DEF StartInit, StartShape, ObjectsExist, QueuesFirst, NobodyAsserts, Tasks, First, TaskOrder
<1>2. SomeReady
  BY DEF StartInit, SomeReady, First
<1> QED
  BY <1>1, <1>2 DEF StartInv

\* The CPU goes on to a task that is ready, or to the idle task.
LEMMA SwitchKeeps ==
  ASSUME NEW r \in Seq(Tasks), SwitchTo(r)
  PROVE  /\ running' \in Tasks /\ ready' \in Seq(Tasks) /\ SomeReady'
         /\ r # <<>> => running' = r[1]
<1>1. CASE r = <<>>
  BY <1>1 DEF SwitchTo, SomeReady, Tasks
<1>2. CASE r # <<>>
  <2>1. Head(r) = r[1] /\ r[1] \in Tasks /\ Tail(r) \in Seq(Tasks)
    BY <1>2
  <2>2. ready' = Append(Tail(r), r[1]) /\ running' = r[1]
    BY <1>2, <2>1 DEF SwitchTo
  <2>3. ready' \in Seq(Tasks) /\ Len(ready') # 0
    BY <2>1, <2>2
  <2> QED
    BY <2>1, <2>2, <2>3 DEF SomeReady
<1> QED
  BY <1>1, <1>2

\* What a task waits on exists by the time that it gets there.
LEMMA AwaitedExists ==
  ASSUME StartInv, Pending, Now.op = "wait"
  PROVE  Now.object \in objects
<1> DEFINE n == done[running]
<1>1. n \in Nat /\ running \in Tasks
  BY DEF StartInv, StartShape
<1>2. CASE running = "usb"
  <2>1. n \in 0 .. 5
    BY <1>1, <1>2 DEF Pending, Program
  <2>2. n = 5
    BY <2>1, <1>2 DEF Now, Program, Create, Work, Await
  <2> QED
    BY <2>2, <1>2 DEF StartInv, ObjectsExist, Now, Program, Await
<1>3. CASE running = "shell"
  <2>1. n \in 0 .. 1
    BY <1>1, <1>3 DEF Pending, Program
  <2>2. Now.object = "UARTinQ"
    BY <2>1, <1>3 DEF Now, Program, Work, Await
  <2>3. done["usb"] >= 2
    BY <1>3 DEF StartInv, StartShape, QueuesFirst, Tasks
  <2> QED
    BY <2>2, <2>3 DEF StartInv, StartShape, ObjectsExist, Tasks
<1>4. CASE running = "instr"
  <2>1. n \in 0 .. 1
    BY <1>1, <1>4 DEF Pending, Program
  <2>2. Now.object = "CTRLinQ"
    BY <2>1, <1>4 DEF Now, Program, Poll, Await
  <2>3. done["usb"] >= 2
    BY <1>4 DEF StartInv, StartShape, QueuesFirst, Tasks
  <2> QED
    BY <2>2, <2>3 DEF StartInv, ObjectsExist
<1>5. CASE running = "timer"
  BY <1>1, <1>5 DEF StartInv, ObjectsExist, Pending, Now, Program, Await
<1>6. CASE running = "led"
  <2>1. n \in 0 .. 1
    BY <1>1, <1>6 DEF Pending, Program
  <2> QED
    BY <2>1, <1>6 DEF StartInv, ObjectsExist, Now, Program, Poll, Await
<1>7. CASE running = "idle"
  BY <1>1, <1>7 DEF Pending, Program
<1> QED
  BY <1>1, <1>2, <1>3, <1>4, <1>5, <1>6, <1>7 DEF Tasks

\* A task other than the USB task gives the CPU to the next only when both
\* queues are there, and the timer task when it waits.
LEMMA SwitchInv ==
  ASSUME StartInv, NEW r \in Seq(Tasks), SwitchTo(r),
         done' \in [Tasks -> Nat], done'["usb"] >= done["usb"], done["usb"] < 2 => r = TaskOrder,
         done["usb"] < 2 => done["usb"] = 0 /\ done'["usb"] = 0 /\ slice' <= 1,
         slice' \in 0 .. Slice,
         \A k \in {1, 2, 4} : done'["usb"] >= k => done["usb"] >= k,
         UNCHANGED <<objects, asserted>>
  PROVE  StartInv'
<1>1. StartShape' /\ SomeReady'
  BY SwitchKeeps, SliceAssumption DEF StartShape
<1>2. QueuesFirst'
  <2>1. done["usb"] \in Nat /\ done'["usb"] \in Nat
    BY DEF StartInv, StartShape, Tasks
  <2>2. CASE done["usb"] < 2
    BY <2>2, SwitchKeeps DEF QueuesFirst, TaskOrder
  <2>3. CASE done["usb"] >= 2
    BY <2>1, <2>3 DEF QueuesFirst
  <2> QED
    BY <2>1, <2>2, <2>3
<1>3. ObjectsExist' /\ NobodyAsserts'
  BY DEF StartInv, ObjectsExist, NobodyAsserts
<1> QED
  BY <1>1, <1>2, <1>3 DEF StartInv

\* Each step keeps the invariant.
LEMMA StartInvStep == ASSUME StartInv, StartNext PROVE StartInv'
<1>0. /\ done \in [Tasks -> Nat] /\ done["usb"] \in Nat /\ ready \in Seq(Tasks)
      /\ running \in Tasks /\ slice \in 0 .. Slice
  BY DEF StartInv, StartShape, Tasks
<1>a. Pending => running # "idle"
  BY <1>0 DEF Pending, Program
<1>1. CASE Statement
  <2> DEFINE d == [done EXCEPT ![running] = @ + 1]
  <2>0. done' = d /\ Pending /\ UNCHANGED <<running, ready, asserted>>
    BY <1>1 DEF Statement
  <2>1. d \in [Tasks -> Nat] /\ d["usb"] = IF running = "usb" THEN done["usb"] + 1 ELSE done["usb"]
    BY <1>0 DEF Tasks
  <2>2. slice' \in 0 .. Slice /\ (slice < Slice => slice' = slice + 1)
    BY <1>0, <1>a, <1>1, SliceAssumption DEF Statement, TakesTime
  <2>3. StartShape' /\ SomeReady' /\ NobodyAsserts'
    BY <1>0, <2>0, <2>1, <2>2 DEF StartInv, StartShape, SomeReady, NobodyAsserts
  <2>4. ObjectsExist'
    <3>1. CASE running = "usb"
      <4>1. done["usb"] \in 0 .. 5
        BY <1>0, <2>0, <3>1 DEF Pending, Program
      <4>2. /\ done["usb"] = 0 => Now = Create("UARTinQ")
            /\ done["usb"] = 1 => Now = Create("CTRLinQ")
            /\ done["usb"] = 3 => Now = Create("usbInterrupted")
        BY <3>1 DEF Now, Program
      <4>3. objects \subseteq objects' /\ (Now.op = "create" => Now.object \in objects')
        BY <1>1 DEF Statement
      <4> QED
        BY <4>1, <4>2, <4>3, <2>0, <2>1, <3>1 DEF StartInv, ObjectsExist, Create
    <3>2. CASE running # "usb"
      BY <3>2, <2>0, <2>1, <1>1 DEF StartInv, ObjectsExist, Statement
    <3> QED
      BY <3>1, <3>2
  <2>5. QueuesFirst'
    <3>1. CASE running = "usb"
      BY <3>1, <2>0, <2>1, <2>2, <1>0, SliceAssumption DEF StartInv, QueuesFirst
    <3>2. CASE running # "usb" /\ done["usb"] < 2
      <4>1. running = "timer"
        BY <3>2 DEF StartInv, QueuesFirst
      <4>2. Now.op = "wait"
        BY <4>1, <2>0, <1>0 DEF Pending, Now, Program, Await
      <4> QED
        BY <4>2, <1>1 DEF Statement
    <3>3. CASE done["usb"] >= 2
      BY <3>3, <2>0, <2>1, <1>0 DEF QueuesFirst
    <3> QED
      BY <3>1, <3>2, <3>3, <1>0
  <2> QED
    BY <2>3, <2>4, <2>5 DEF StartInv
<1>2. CASE Wait
  <2> DEFINE d == [done EXCEPT ![running] = @ + 1]
  <2>0. done' = d /\ Pending /\ Now.op = "wait" /\ SwitchTo(Others) /\ UNCHANGED <<objects, asserted>>
    BY <1>2 DEF Wait
  <2>1. d \in [Tasks -> Nat] /\ d["usb"] = IF running = "usb" THEN done["usb"] + 1 ELSE done["usb"]
    BY <1>0 DEF Tasks
  <2>3. Others \in Seq(Tasks)
    <3>1. CASE running = "timer"
      BY <3>1, <1>0 DEF Others
    <3>2. CASE running # "timer"
      <4>1. ready # <<>>
        BY <1>a, <2>0, <3>2 DEF StartInv, SomeReady
      <4> QED
        BY <3>2, <4>1, <1>0 DEF Others
    <3> QED
      BY <3>1, <3>2
  <2>4. running = "usb" => done["usb"] = 5
    <3> SUFFICES ASSUME running = "usb" PROVE done["usb"] = 5
      OBVIOUS
    <3>1. done["usb"] \in 0 .. 5
      BY <1>0, <2>0 DEF Pending, Program
    <3> QED
      BY <3>1, <2>0 DEF Now, Program, Create, Work, Await
  <2>5. done["usb"] < 2 => running = "timer" /\ slice = 0 /\ done["usb"] = 0 /\ ready = TaskOrder
    BY <2>4, <1>0 DEF StartInv, QueuesFirst
  <2>6. slice' \in 0 .. Slice /\ (slice = 0 => slice' <= 1)
    BY <1>0, <1>2, SliceAssumption DEF Wait, TakesTime
  <2>7. /\ done'["usb"] >= done["usb"] /\ (done["usb"] < 2 => Others = TaskOrder)
        /\ (done["usb"] < 2 => done["usb"] = 0 /\ done'["usb"] = 0 /\ slice' <= 1)
        /\ \A k \in {1, 2, 4} : done'["usb"] >= k => done["usb"] >= k
    BY <1>0, <2>0, <2>1, <2>4, <2>5, <2>6 DEF Others
  <2>8. done' \in [Tasks -> Nat]
    BY <2>0, <2>1
  <2> QED
    BY <2>0, <2>3, <2>6, <2>7, <2>8, SwitchInv
<1>3. CASE Assert
  <2>1. Pending /\ Now.op = "wait" /\ Now.object \notin objects
    BY <1>3 DEF Assert
  <2> QED
    BY <2>1, AwaitedExists
<1>4. CASE Yield
  <2>1. done["usb"] >= 2
    <3>1. Pending /\ Now.op = "poll"
      BY <1>4 DEF Yield
    <3>2. ~(running = "timer")
      <4> SUFFICES ASSUME running = "timer" PROVE FALSE
        OBVIOUS
      <4>1. done["timer"] = 0
        BY <1>0, <3>1 DEF Pending, Program, Tasks
      <4> QED
        BY <3>1, <4>1 DEF Now, Program, Await
    <3>3. ~(running = "usb" /\ done["usb"] \in 0 .. 1)
      BY <3>1 DEF Now, Program, Create
    <3> QED
      BY <3>2, <3>3, <1>0 DEF StartInv, QueuesFirst
  <2>2. SwitchTo(ready) /\ UNCHANGED <<done, objects, asserted>> /\ slice' \in 0 .. Slice
    BY <1>0, <1>4, SliceAssumption DEF Yield, TakesTime
  <2> QED
    BY <2>1, <2>2, <1>0, SwitchInv
<1>5. CASE Preempt
  <2>1. done["usb"] >= 2
    BY <1>5, <1>0, SliceAssumption DEF Preempt, StartInv, QueuesFirst
  <2>2. SwitchTo(ready) /\ UNCHANGED <<done, objects, asserted>> /\ slice' \in 0 .. Slice
    BY <1>5, SliceAssumption DEF Preempt
  <2> QED
    BY <2>1, <2>2, <1>0, SwitchInv
<1>6. CASE cdcacm_set_config
  BY <1>6, <1>0 DEF cdcacm_set_config, StartInv, StartShape, SomeReady, ObjectsExist, QueuesFirst,
                    NobodyAsserts
<1> QED
  BY <1>1, <1>2, <1>3, <1>4, <1>5, <1>6 DEF StartNext

\* The invariant of the start holds for good: nothing of it changes afterwards.
THEOREM StartupInductive == DSpec => []StartInv
<1>1. DInit => StartInv
  BY StartInvInit DEF DInit
<1>2. StartInv /\ [DNext]_devicevars => StartInv'
  <2> SUFFICES ASSUME StartInv, [DNext]_devicevars PROVE StartInv'
    OBVIOUS
  <2>1. CASE StartNext
    BY <2>1, StartInvStep
  <2>2. CASE UNCHANGED startvars
    BY <2>2 DEF startvars, StartInv, StartShape, SomeReady, ObjectsExist, QueuesFirst, NobodyAsserts
  <2> QED
    BY <2>1, <2>2 DEF DNext, devicevars
<1> QED
  BY <1>1, <1>2, PTL DEF DSpec

\* No task ever waits on a queue that is not there, however soon the tick comes
\* after the two creations.
THEOREM NobodyEverAsserts == DSpec => []NobodyAsserts
<1>1. StartInv => NobodyAsserts
  BY DEF StartInv
<1> QED
  BY <1>1, StartupInductive, PTL
=============================================================================
