----------------------------- MODULE MCEeprom9366 -----------------------------
(* The callers and calls of the run of Eeprom9366.  Address 2 is beyond the  *)
(* two cells and wraps.                                                      *)
EXTENDS Eeprom9366

BothCallers == {"instr", "shell"}
SomeBytes == {"FF", "AA"}

Call(op, a, d) == [op |-> op, addr |-> a, data |-> d]
SharedCalls ==
  [t \in BothCallers |->
     IF t = "instr" THEN {Call("READ", 0, Erased), Call("READ", 1, Erased), Call("WRITE", 2, "AA")}
                    ELSE {Call("ERAL", 0, Erased), Call("ERASE", 1, Erased)}]
=============================================================================
