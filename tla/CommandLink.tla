----------------------------- MODULE CommandLink -----------------------------
(***************************************************************************)
(* The path of a command: a host process (send_packet and connect of       *)
(* perl/AttenSwitch.pm), the two bulk endpoints, the interrupt that wakes  *)
(* the USB task (app/cdcacm.c), the queue CTRLinQ between the USB task and *)
(* the instrument task, and that task (app/instr_task.c), which performs   *)
(* the command and writes its response to the endpoint itself.             *)
(*                                                                         *)
(* Packets carry no sequence number; the id of a packet here is there for  *)
(* the properties only and no action looks at it.                          *)
(***************************************************************************)
EXTENDS Sequences, Commands, Blinker

CONSTANTS
  QueueLength, \* depth of CTRLinQ: xQueueCreate(2, ...)
  Attempts     \* attempts of writePacket: one and TMO - 1 = 9 more

ASSUME LinkAssumption == QueueLength \in Nat \ {0} /\ Attempts \in Nat \ {0}

VARIABLES
  host,        \* the host process: "off", "ready", "writing", "reading"
  request,     \* the last request it made
  reply,       \* the last packet it took for a reply
  died,        \* whether a host process has died inside send_packet
  outEp,       \* endpoint 0x01: the packet the device has not read, or NoRequest
  inEp,        \* endpoint 0x81: the packet the host has not collected, or NoReply
  inDone,      \* the device has not yet served the end of an IN transfer
  irqEnabled,  \* NVIC_OTG_FS_IRQ
  sem,         \* the binary semaphore usbInterrupted
  usb,         \* the USB task: "take", "poll", "enable"
  CTRLinQ,     \* commands between the USB task and the instrument task
  instr,       \* the instrument task: "receive", "execute",
               \* "blinkoff" in the 100 ms of id_blink, "write"
  inpkt, outpkt, \* instrInpktBuf and instrOutpktBuf
  tries,       \* attempts left to writePacket
  performed    \* the number of commands performed

hostvars == <<host, request, reply, died>>
epvars   == <<outEp, inEp, inDone>>
usbvars  == <<irqEnabled, sem, usb>>
instrvars == <<instr, inpkt, outpkt, tries, performed>>
vars == <<hostvars, epvars, usbvars, CTRLinQ, instrvars, blinkvars>>

Init ==
  /\ host = "off" /\ request = NoRequest /\ reply = NoReply /\ died = FALSE
  /\ outEp = NoRequest /\ inEp = NoReply /\ inDone = 0
  /\ irqEnabled = 1 /\ sem = 0 /\ usb = "take"
  /\ CTRLinQ = <<>>
  /\ instr = "receive" /\ inpkt = NoRequest /\ outpkt = NoReply /\ tries = 0
  /\ performed = 0
  /\ BlinkerInit

-----------------------------------------------------------------------------
(* The host.                                                                *)

Send(k) ==
  /\ request.id < MaxRequests
  /\ request' = Packet(request.id + 1, k)
  /\ host' = "writing"
  /\ UNCHANGED <<reply, died, epvars, usbvars, CTRLinQ, instrvars, blinkvars>>

\* connect: claims the interface and asks the device for its identity.
Connect == host = "off" /\ Send("ID")

\* A method of a connected object calls send_packet.
CallMethod == host = "ready" /\ \E k \in Kinds : Send(k)

\* bulk_write: the packet goes out once the endpoint has room for it.
BulkWrite ==
  /\ host = "writing" /\ host' = "reading"
  /\ outEp = NoRequest /\ outEp' = request
  /\ UNCHANGED <<request, reply, died, inEp, inDone, usbvars, CTRLinQ, instrvars, blinkvars>>

\* bulk_read: whatever packet the endpoint holds is taken for the reply.
BulkRead ==
  /\ host = "reading" /\ host' = "ready"
  /\ inEp # NoReply /\ reply' = inEp
  /\ inEp' = NoReply /\ inDone' = 1
  /\ UNCHANGED <<request, died, outEp, usbvars, CTRLinQ, instrvars, blinkvars>>

Disconnect ==
  /\ host = "ready" /\ host' = "off"
  /\ UNCHANGED <<request, reply, died, epvars, usbvars, CTRLinQ, instrvars, blinkvars>>

\* The process is killed inside send_packet, or bulk_read times out and
\* from_bytes dies on the empty packet.  The endpoints stay as they are.
HostDies ==
  /\ host \in {"writing", "reading"} /\ host' = "off"
  /\ died' = TRUE
  /\ UNCHANGED <<request, reply, epvars, usbvars, CTRLinQ, instrvars, blinkvars>>

-----------------------------------------------------------------------------
(* The USB interrupt and task.  The controller requests the interrupt as    *)
(* long as there is a packet to read or a finished transfer to serve.       *)

otg_fs_isr ==
  /\ irqEnabled = 1 /\ (outEp # NoRequest \/ inDone = 1)
  /\ irqEnabled' = 0
  /\ sem' = 1
  /\ UNCHANGED <<usb, hostvars, epvars, CTRLinQ, instrvars, blinkvars>>

\* Mutant: the interrupt is enabled before the poll.
TakeAndEnable ==
  /\ usb = "take" /\ sem = 1
  /\ usb' = "poll" /\ sem' = 0
  /\ irqEnabled' = 1
  /\ UNCHANGED <<hostvars, epvars, CTRLinQ, instrvars, blinkvars>>

\* xSemaphoreTake
TakeSemaphore ==
  /\ usb = "take" /\ sem = 1
  /\ usb' = "poll" /\ sem' = 0
  /\ UNCHANGED <<irqEnabled, hostvars, epvars, CTRLinQ, instrvars, blinkvars>>

\* usbd_poll serves the end of an IN transfer ...
PollIn ==
  /\ usb = "poll" /\ usb' = "enable"
  /\ inDone = 1 /\ inDone' = 0
  /\ UNCHANGED <<irqEnabled, sem, hostvars, outEp, inEp, CTRLinQ, instrvars, blinkvars>>

\* Mutants: no test for a full queue; a packet not taken off the endpoint.
PollOutUnbounded ==
  /\ usb = "poll" /\ usb' = "enable"
  /\ outEp # NoRequest /\ outEp' = NoRequest
  /\ CTRLinQ' = Append(CTRLinQ, outEp)
  /\ red' = 0
  /\ UNCHANGED <<irqEnabled, sem, hostvars, inEp, inDone, instrvars, IDBlinkOn, xIDBlinkerTaskHandle, blinker>>
PollOutTwice ==
  /\ usb = "poll" /\ usb' = "enable"
  /\ outEp # NoRequest /\ outEp' \in {NoRequest, outEp}
  /\ CTRLinQ' = IF Len(CTRLinQ) < QueueLength THEN Append(CTRLinQ, outEp) ELSE CTRLinQ
  /\ red' = 0
  /\ UNCHANGED <<irqEnabled, sem, hostvars, inEp, inDone, instrvars, IDBlinkOn, xIDBlinkerTaskHandle, blinker>>

\* ... or a received packet: bulkctrl_data_rx_cb queues it, and drops it without
\* a word when the queue is full; either way it leaves the red light off.
PollOut ==
  /\ usb = "poll" /\ usb' = "enable"
  /\ outEp # NoRequest /\ outEp' = NoRequest
  /\ CTRLinQ' = IF Len(CTRLinQ) < QueueLength THEN Append(CTRLinQ, outEp) ELSE CTRLinQ
  /\ red' = 0
  /\ UNCHANGED <<irqEnabled, sem, hostvars, inEp, inDone, instrvars, IDBlinkOn, xIDBlinkerTaskHandle, blinker>>

\* Mutant: the interrupt is not enabled again.
EnableForgotten ==
  /\ usb = "enable" /\ usb' = "take"
  /\ UNCHANGED <<irqEnabled, sem, hostvars, epvars, CTRLinQ, instrvars, blinkvars>>

\* nvic_enable_irq
EnableIrq ==
  /\ usb = "enable" /\ usb' = "take"
  /\ irqEnabled' = 1
  /\ UNCHANGED <<sem, hostvars, epvars, CTRLinQ, instrvars, blinkvars>>

-----------------------------------------------------------------------------
(* The instrument task.                                                     *)

\* readPacket
ReadPacket ==
  /\ instr = "receive" /\ instr' = "execute"
  /\ CTRLinQ # <<>>
  /\ inpkt' = Head(CTRLinQ) /\ CTRLinQ' = Tail(CTRLinQ)
  /\ UNCHANGED <<outpkt, tries, performed, hostvars, epvars, usbvars, blinkvars>>

\* The command is done: its response is in instrOutpktBuf, and writePacket
\* lights the red light.
Respond ==
  /\ instr' = "write" /\ red' = 1
  /\ performed' = performed + 1
  /\ outpkt' = Reply(inpkt)
  /\ tries' = Attempts
  /\ UNCHANGED <<inpkt, CTRLinQ, hostvars, epvars, usbvars>>

EndsBlinking == inpkt.kind = "BLINK0" /\ xIDBlinkerTaskHandle = 1

\* The dispatcher performs the command.
Execute ==
  /\ instr = "execute" /\ ~EndsBlinking
  /\ IF inpkt.kind = "BLINK1" THEN BlinkOn ELSE UNCHANGED <<IDBlinkOn, xIDBlinkerTaskHandle, blinker>>
  /\ Respond

\* The one command that other tasks are to react to before it is done.
id_blinkOff ==
  /\ instr = "execute" /\ EndsBlinking
  /\ instr' = "blinkoff" /\ AskToEnd
  /\ UNCHANGED <<inpkt, outpkt, tries, performed, CTRLinQ, hostvars, epvars, usbvars, red>>
id_blinkEnd ==
  /\ instr = "blinkoff" /\ DeleteBlinker
  /\ Respond

\* writePacket: an attempt that finds the endpoint free ...
WritePacket ==
  /\ instr = "write" /\ instr' = "receive" /\ red' = 0
  /\ inEp = NoReply /\ inEp' = outpkt
  /\ UNCHANGED <<inpkt, outpkt, tries, performed, CTRLinQ, hostvars, outEp, inDone, usbvars,
                 IDBlinkOn, xIDBlinkerTaskHandle, blinker>>

\* Mutant: the retries of TMO = 0, which never end.
RetryForEver ==
  /\ instr = "write" /\ inEp # NoReply
  /\ UNCHANGED vars

\* ... and one that finds it taken; after the last the response is lost.
EndpointBusy ==
  /\ instr = "write" /\ inEp # NoReply
  /\ IF tries > 1 THEN instr' = "write" /\ red' = red ELSE instr' = "receive" /\ red' = 0
  /\ tries' = tries - 1
  /\ UNCHANGED <<inpkt, outpkt, performed, CTRLinQ, hostvars, epvars, usbvars,
                 IDBlinkOn, xIDBlinkerTaskHandle, blinker>>

\* The two tasks that only deal with the light.
BlinkTask == vIDBlinkerTask /\ UNCHANGED <<hostvars, epvars, usbvars, CTRLinQ, instrvars>>
LEDTask == vLEDTask1 /\ UNCHANGED <<hostvars, epvars, usbvars, CTRLinQ, instrvars>>

-----------------------------------------------------------------------------
HostStep == Connect \/ CallMethod \/ BulkWrite \/ BulkRead \/ Disconnect \/ HostDies
UsbTask == TakeSemaphore \/ PollIn \/ PollOut \/ EnableIrq
InstrTask == ReadPacket \/ Execute \/ id_blinkOff \/ id_blinkEnd \/ WritePacket \/ EndpointBusy

Next == HostStep \/ otg_fs_isr \/ UsbTask \/ InstrTask \/ BlinkTask \/ LEDTask
Spec == Init /\ [][Next]_vars

-----------------------------------------------------------------------------
(* What the link promises.                                                  *)

\* Every variable stays in its range; in particular the queue never holds more
\* than it has room for, and writePacket stops after its last attempt.
TypeOK ==
  /\ host \in {"off", "ready", "writing", "reading"}
  /\ request \in Requests /\ reply \in Replies /\ died \in BOOLEAN
  /\ outEp \in Requests /\ inEp \in Replies
  /\ inDone \in {0, 1} /\ irqEnabled \in {0, 1}
  /\ sem \in {0, 1} /\ usb \in {"take", "poll", "enable"}
  /\ CTRLinQ \in Seq(Requests) /\ Len(CTRLinQ) <= QueueLength
  /\ instr \in {"receive", "execute", "blinkoff", "write"}
  /\ inpkt \in Requests /\ outpkt \in Replies
  /\ tries \in 0 .. Attempts /\ (instr = "write" => tries > 0)
  /\ performed \in Nat
  /\ IDBlinkOn \in {0, 1} /\ xIDBlinkerTaskHandle \in {0, 1} /\ red \in {0, 1}
  /\ blinker \in {"none", "test", "dark", "returned"}

\* The interrupt, the semaphore and the USB task pass one token round: while the
\* interrupt is disabled, either the semaphore is given or the task is on its way
\* to enable it again, so that no packet is left waiting with nobody to wake up;
\* and a poll always finds something to serve.
NoLostWakeup ==
  /\ irqEnabled = 1 <=> sem = 0 /\ usb = "take"
  /\ sem = 1 => usb = "take"
  /\ sem = 1 \/ usb = "poll" => outEp # NoRequest \/ inDone = 1

\* A command reaches the dispatcher at most once and in the order sent, whatever
\* host processes die and whatever the queue drops.
OnceInOrder ==
  [][instr = "receive" /\ instr' = "execute" => inpkt'.id > inpkt.id]_vars

\* connect: "the device identity is queried, and this object reflects that info":
\* the packet that send_packet takes for the reply answers its own request.
ReplyAnswersRequest ==
  [][host = "reading" /\ host' = "ready" => reply' = Reply(request)]_vars

\* After the last host process the device comes to rest: a response that nobody
\* collects does not hold up the instrument task, and nothing stays queued.
DeviceComesToRest ==
  <>[](host = "off") => <>[](instr = "receive" /\ CTRLinQ = <<>> /\ outEp = NoRequest)

\* Outside id_blink(0) the flag, the handle and the task agree, so that the next
\* command creates or deletes the right thing; and a task that has returned, and
\* spins at the expense of the others, does so only until id_blink deletes it.
BlinkerOwned ==
  /\ xIDBlinkerTaskHandle = 1 <=> blinker # "none"
  /\ xIDBlinkerTaskHandle = 1 /\ instr # "blinkoff" => IDBlinkOn = 1 /\ blinker # "returned"
  /\ xIDBlinkerTaskHandle = 0 => IDBlinkOn = 0

\* "CMD_BLINK(1) will cause rapid blinking of the red led. CMD_BLINK(0) will turn
\* it off": after the last host process the light blinks for ever or stays dark,
\* whoever touched it last.
LightShowsBlinking ==
  <>[](host = "off") =>
    \/ <>[](IDBlinkOn = 0 /\ red = 0)
    \/ <>[](IDBlinkOn = 1) /\ []<>(red = 1) /\ []<>(red = 0)

\* Until a process dies in it the link is the service of CommandService: each request
\* is performed once and answered with its own reply, none is lost.
Service == INSTANCE CommandService WITH
  phase <- IF host \in {"off", "ready"} THEN "idle"
           ELSE IF performed < request.id THEN "asked" ELSE "done"
LinkServes == Service!SSpec
=============================================================================
