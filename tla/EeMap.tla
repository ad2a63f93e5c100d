-------------------------------- MODULE EeMap --------------------------------
(***************************************************************************)
(* The layout of the configuration EEPROM: what the host writes into it    *)
(* (perl/AttenSwitch.pm, perl/test/setupUSB, perl/test/AttenSwitchTool),   *)
(* what the device makes of it at boot (readEEprom of app/cdcacm.c) and    *)
(* what the host reads back.  Bytes are numbers, strings are sequences of  *)
(* bytes, and a write is a pair <<address, byte>>.                         *)
(***************************************************************************)
EXTENDS EepromCells, Sequences

CONSTANTS
  StrBase,     \* 0x30, where writeEEStrings begins
  StrFloor     \* 0x20, below which validStr takes no pointer

\* A pointer has 16 bits, and the strings lie behind the fields.
ASSUME MapAssumption == /\ Bytes = 0 .. 255 /\ Erased = 255 /\ EepromSize <= 65536
                        /\ StrBase \in Nat /\ StrFloor \in Nat /\ StrBase > 19 /\ StrFloor <= StrBase

MAGIC == 170
DefaultVid == 16737    \* 0x4161
StrPtrs == <<5, 8, 11, 16>> \* pointer and length of manufacturer, product, serial, extra
Capacity == <<64, 64, 24>>  \* the firmware's buffers for the first three

\* What the device presents when the EEPROM says nothing.
Default == [vid |-> DefaultVid, pid |-> 255, strings |-> <<<<77, 70>>, <<85>>, <<48>>>>,
            s1 |-> 1, s2 |-> 1, overrun |-> FALSE]

-----------------------------------------------------------------------------
(* What the host writes.                                                    *)

\* Mutant: the low byte is not reduced.
LE16Wide(v) == <<v, (v \div 256) % 256>>

\* pack "v" and "C"
LE16(v) == <<v % 256, (v \div 256) % 256>>
Byte(v) == <<v % 256>>

\* writeEE sends one CMD_WRITEEE for every byte.
writeEE(addr, val) == [k \in DOMAIN val |-> <<addr + k - 1, val[k]>>]

eeMagic(val) == writeEE(0, Byte(val))

\* A VID of 0 counts as none.
eeVidPid(vid, pid) == writeEE(1, LE16(IF vid = 0 THEN DefaultVid ELSE vid) \o LE16(pid))

\* A second polarity of 0 counts as none and is replaced by the first.
NotZero(v) == IF v # 0 THEN 1 ELSE 0
eePolarity(s1pol, s2pol) ==
  writeEE(14, <<NotZero(s1pol), NotZero(IF s2pol = 0 THEN s1pol ELSE s2pol)>>)

\* Mutant: every string begins at StrBase.
StrAddrFixed(strs, i) == StrBase

\* The strings follow each other from StrBase on.
Ahead(strs, k, i) == IF k < i THEN Len(strs[k]) ELSE 0
StrAddr(strs, i) ==
  StrBase + Ahead(strs, 1, i) + Ahead(strs, 2, i) + Ahead(strs, 3, i) + Ahead(strs, 4, i)
StringWrites(strs, i) ==
  writeEE(StrPtrs[i], LE16(StrAddr(strs, i)) \o Byte(Len(strs[i])))
    \o writeEE(StrAddr(strs, i), strs[i])

\* writeEEStrings gives an empty string the pointer 0, setupUSB does not.
StringOrNone(strs, i) ==
  IF strs[i] = <<>> THEN writeEE(StrPtrs[i], <<0, 0, 0>>) ELSE StringWrites(strs, i)
writeEEStrings(strs) ==
  StringOrNone(strs, 1) \o StringOrNone(strs, 2) \o StringOrNone(strs, 3) \o StringOrNone(strs, 4)

-----------------------------------------------------------------------------
(* What the device reads at boot.                                           *)

Word(cells, a) == cells[Cell(a)] + 256 * cells[Cell(a + 1)]

copyFromEE(cells, addr, len) == [k \in 1 .. len |-> cells[Cell(addr + k - 1)]]

\* String i: no pointer or no length leaves the default.  A length beyond the
\* buffer overruns it; what that does to its neighbours is not modelled.
BootString(cells, i) ==
  LET ptr == Word(cells, StrPtrs[i])
      len == cells[StrPtrs[i] + 2]
  IN IF ptr = 0 \/ len = 0 THEN Default.strings[i]
     ELSE IF len >= Capacity[i] THEN <<>>
     ELSE copyFromEE(cells, ptr, len)

Overruns(cells, i) ==
  Word(cells, StrPtrs[i]) # 0 /\ cells[StrPtrs[i] + 2] >= Capacity[i]

OrElse(v, default) == IF v = 0 THEN default ELSE v
Setting(v, default) == IF v \in {0, 1} THEN v ELSE default

readEEprom(cells) ==
  IF cells[0] # MAGIC THEN Default
  ELSE [vid |-> OrElse(Word(cells, 1), Default.vid), pid |-> OrElse(Word(cells, 3), Default.pid),
        strings |-> [i \in 1 .. 3 |-> BootString(cells, i)],
        s1 |-> Setting(cells[14], Default.s1), s2 |-> Setting(cells[15], Default.s2),
        overrun |-> \E i \in 1 .. 3 : Overruns(cells, i)]

-----------------------------------------------------------------------------
(* What the host reads back.                                                *)

validStr(ptr, len) == ptr >= StrFloor /\ len # 0 /\ ptr + len < EepromSize

readEEStrings(cells) ==
  [i \in 1 .. 4 |->
     LET ptr == Word(cells, StrPtrs[i])
         len == cells[StrPtrs[i] + 2]
     IN IF validStr(ptr, len) THEN copyFromEE(cells, ptr, len) ELSE <<>>]
=============================================================================
