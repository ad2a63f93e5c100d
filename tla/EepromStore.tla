----------------------------- MODULE EepromStore -----------------------------
(***************************************************************************)
(* What app/eeprom9366.h offers its callers: a memory of EepromSize bytes, *)
(* one call at a time, each performed once, at once and whole.  To callers *)
(* that overlap it promises nothing, from then on.                         *)
(***************************************************************************)
EXTENDS EepromCells

CONSTANT Calls \* the calls made

VARIABLES
  mem,         \* the cells
  call,        \* the call in progress, or NoCall
  done,        \* whether it has been performed
  out,         \* the byte that eeprom9366_read returned last
  overlapped   \* whether two calls have overlapped

stvars == <<mem, call, done, out, overlapped>>

StInit ==
  /\ mem \in [Cells -> Bytes]
  /\ call = NoCall /\ done = FALSE /\ out = Erased
  /\ overlapped = FALSE

StInvoke(c) ==
  /\ call = NoCall /\ call' = c
  /\ UNCHANGED <<mem, done, out>>

StPerform ==
  /\ call # NoCall /\ ~done /\ done' = TRUE
  /\ mem' = After(mem, call)
  /\ UNCHANGED <<call, out>>

StReturn ==
  /\ done /\ done' = FALSE
  /\ call' = NoCall
  /\ out' = IF call.op = "READ" THEN mem[Cell(call.addr)] ELSE out
  /\ UNCHANGED mem

Exclusive(step) == ~overlapped /\ step /\ UNCHANGED overlapped

StNext ==
  \/ \E c \in Calls : Exclusive(StInvoke(c))
  \/ Exclusive(StPerform) \/ Exclusive(StReturn)
  \/ overlapped' = TRUE

StSafe == StInit /\ [][StNext]_stvars
StSpec == /\ StSafe
          /\ WF_stvars(Exclusive(StPerform)) /\ WF_stvars(Exclusive(StReturn))
=============================================================================
