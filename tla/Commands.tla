------------------------------ MODULE Commands ------------------------------
(***************************************************************************)
(* The packets and commands of the USB protocol (app/usbcmdio.h) as far as *)
(* the path of a command tells them apart: by the reply that the           *)
(* dispatcher of the instrument task (app/instr_task.c) makes to them.     *)
(* Versions, lengths, checksums and payloads are left out: neither side    *)
(* looks at the first three.                                               *)
(***************************************************************************)
EXTENDS Naturals

CONSTANTS
  Kinds,       \* the commands a host sends
  MaxRequests  \* bound on the number of requests

\* BLINK with its payload, 0 or 1.
pkttype_t == {"ACK", "NAK", "RESET", "ID", "ECHO", "SSN", "DIAG", "SP8T", "AUXOUT",
              "AUXIN", "ATT", "LIGHT", "NOTIFY", "READEE", "WRITEEE", "SPDT",
              "ERASEALL", "BLINK0", "BLINK1"}

ASSUME KindsAssumption == Kinds \subseteq pkttype_t /\ "ID" \in Kinds /\ MaxRequests \in Nat

\* What make packs: one of the commands, and a number that stands for the rest.
Packet(n, k) == [id |-> n, kind |-> k]
NoRequest == Packet(0, "none")
NoReply   == [id |-> 0, cmd |-> "none"]

Requests == [id : 0 .. MaxRequests, kind : Kinds \cup {"none"}]
Replies  == [id : 0 .. MaxRequests, cmd : Kinds \cup {"ACK", "NAK", "none"}]

Copied == {"ID", "ECHO", "READEE"}
Acked  == {"ACK", "NAK", "SPDT", "WRITEEE", "ERASEALL", "BLINK0", "BLINK1"}

\* copyPacket puts the request's own command into the reply, where
\* get_instrument_ID leaves it.
copyPacket(r) == [id |-> r.id, cmd |-> r.kind]

\* The reply to a request: some are answered with a copy, the other commands the
\* dispatcher knows with CMD_ACK, the rest with CMD_NAK.
Reply(r) == IF r.kind \in Copied THEN copyPacket(r)
            ELSE [id |-> r.id, cmd |-> IF r.kind \in Acked THEN "ACK" ELSE "NAK"]
=============================================================================
