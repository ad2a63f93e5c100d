----------------------------- MODULE EepromCells -----------------------------
(***************************************************************************)
(* The cells of the configuration EEPROM, a 93C66 in its 512 x 8 layout,   *)
(* and what a call of app/eeprom9366.c does to them.                       *)
(***************************************************************************)
EXTENDS Integers

CONSTANTS
  EepromSize,  \* 512 cells: nine address bits
  Bytes,       \* the byte values that are written
  Erased       \* the value of an erased cell, 0xFF

ASSUME CellsAssumption == EepromSize \in Nat \ {0} /\ Erased \in Bytes

Cells == 0 .. EepromSize - 1

\* spiTransaction and spiCMD send the lower nine bits of an address.
Cell(addr) == addr % EepromSize

AllErased == [a \in Cells |-> Erased]

\* A call: the operation, its address and its data (0 and Erased when it has none).
CallRecords == [op : {"READ", "WRITE", "ERASE", "ERAL"}, addr : Nat, data : Bytes]
NoCall == [op |-> "none", addr |-> 0, data |-> Erased]

Programs(c) == c.op \in {"WRITE", "ERASE", "ERAL"}

\* The cells after call c.
After(cells, c) ==
  CASE c.op = "WRITE" -> [cells EXCEPT ![Cell(c.addr)] = c.data]
    [] c.op = "ERASE" -> [cells EXCEPT ![Cell(c.addr)] = Erased]
    [] c.op = "ERAL"  -> AllErased
    [] OTHER          -> cells
=============================================================================
