--------------------------- MODULE CommandService ---------------------------
(***************************************************************************)
(* What send_packet of perl/AttenSwitch.pm promises its callers as long as *)
(* none of them dies inside it: one request at a time, performed once by   *)
(* the instrument, then answered with the reply to that very request.      *)
(* Once a process has died in send_packet nothing is promised.             *)
(***************************************************************************)
EXTENDS Commands

VARIABLES
  phase,       \* "idle", "asked", "done"
  request,     \* the last request made
  performed,   \* the number of requests performed
  reply,       \* the last reply handed to the caller
  died         \* whether a process has died inside send_packet

svars == <<phase, request, performed, reply, died>>

SInit ==
  /\ phase = "idle" /\ request = NoRequest /\ performed = 0 /\ reply = NoReply
  /\ died = FALSE

Ask(k) ==
  /\ phase = "idle" /\ phase' = "asked"
  /\ request.id < MaxRequests
  /\ request' = Packet(request.id + 1, k)
  /\ UNCHANGED <<performed, reply>>

Perform ==
  /\ phase = "asked" /\ phase' = "done"
  /\ performed' = performed + 1
  /\ UNCHANGED <<request, reply>>

Answer ==
  /\ phase = "done" /\ phase' = "idle"
  /\ reply' = Reply(request)
  /\ UNCHANGED <<request, performed>>

Undisturbed(step) == ~died /\ step /\ UNCHANGED died

SNext ==
  \/ \E k \in Kinds : Undisturbed(Ask(k))
  \/ Undisturbed(Perform) \/ Undisturbed(Answer)
  \/ died' = TRUE

SSafe == SInit /\ [][SNext]_svars
SSpec == /\ SSafe
         /\ WF_svars(Undisturbed(Perform)) /\ WF_svars(Undisturbed(Answer))
=============================================================================
