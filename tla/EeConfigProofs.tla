--------------------------- MODULE EeConfigProofs ---------------------------
(***************************************************************************)
(* The configuration of a device for any jobs that fit: types, what a      *)
(* setup that dies half way leaves behind, and the strings read back.  The *)
(* argument: no job writes a cell twice, so the calls it has made are      *)
(* always found in the memory.                                             *)
(***************************************************************************)
EXTENDS EeConfig, SequenceTheorems, TLAPS

-----------------------------------------------------------------------------
(* Writes: their cells, and when a memory holds them.                       *)

Pair == Nat \X Bytes

\* The writes w go to cells of the set A, no two of them to the same.
Apart(w, A) ==
  /\ w \in Seq(Pair)
  /\ \A k \in 1 .. Len(w) : w[k][1] \in A
  /\ \A k, l \in 1 .. Len(w) : w[k][1] = w[l][1] => k = l

\* The first n of the writes w are found in the memory.
Found(cells, w, n) == \A k \in 1 .. n : cells[Cell(w[k][1])] = w[k][2]
Done(cells, w) == Found(cells, w, Len(w))

LEMMA WriteApart ==
  ASSUME NEW a \in Nat, NEW v \in Seq(Bytes)
  PROVE  /\ Len(writeEE(a, v)) = Len(v)
         /\ Apart(writeEE(a, v), a .. a + Len(v) - 1)
         /\ \A k \in 1 .. Len(v) : writeEE(a, v)[k] = <<a + k - 1, v[k]>>
<1>1. writeEE(a, v) \in Seq(Pair) /\ Len(writeEE(a, v)) = Len(v)
  BY DEF writeEE, Pair
<1>2. \A k \in 1 .. Len(v) : writeEE(a, v)[k] = <<a + k - 1, v[k]>>
  BY DEF writeEE
<1>3. \A k \in 1 .. Len(v) : writeEE(a, v)[k][1] = a + k - 1
  BY <1>2
<1>4. \A k \in 1 .. Len(v) : a + k - 1 \in a .. a + Len(v) - 1
  OBVIOUS
<1>5. \A k, l \in 1 .. Len(v) : a + k - 1 = a + l - 1 => k = l
  OBVIOUS
<1>6. Apart(writeEE(a, v), a .. a + Len(v) - 1)
  <2>1. \A k \in 1 .. Len(writeEE(a, v)) : writeEE(a, v)[k][1] \in a .. a + Len(v) - 1
    BY <1>1, <1>3, <1>4
  <2>2. \A k, l \in 1 .. Len(writeEE(a, v)) : writeEE(a, v)[k][1] = writeEE(a, v)[l][1] => k = l
    BY <1>1, <1>3, <1>5
  <2>3. QED
    BY <1>1, <2>1, <2>2, Zenon DEF Apart
<1>7. QED
  BY <1>1, <1>2, <1>6

LEMMA Concat ==
  ASSUME NEW S, NEW u \in Seq(S), NEW v \in Seq(S)
  PROVE  /\ u \o v \in Seq(S) /\ Len(u \o v) = Len(u) + Len(v)
         /\ Len(u) \in Nat /\ Len(v) \in Nat
         /\ \A k \in 1 .. Len(u) : (u \o v)[k] = u[k]
         /\ \A k \in 1 .. Len(v) : (u \o v)[Len(u) + k] = v[k]
OBVIOUS

LEMMA JoinApart ==
  ASSUME NEW u, NEW v, NEW A, NEW B, Apart(u, A), Apart(v, B), A \cap B = {}
  PROVE  Apart(u \o v, A \cup B)
<1>1. u \in Seq(Pair) /\ v \in Seq(Pair) /\ u \o v \in Seq(Pair)
  BY DEF Apart
<1>2. /\ Len(u \o v) = Len(u) + Len(v)
      /\ \A k \in 1 .. Len(u) + Len(v) : (u \o v)[k] = IF k <= Len(u) THEN u[k] ELSE v[k - Len(u)]
  BY <1>1
<1>3. \A k \in 1 .. Len(u) + Len(v) : k > Len(u) => k - Len(u) \in 1 .. Len(v)
  BY <1>1
<1>4. \A k \in 1 .. Len(u) + Len(v) : \/ k \in 1 .. Len(u) /\ (u \o v)[k] = u[k]
                                      \/ k > Len(u) /\ k - Len(u) \in 1 .. Len(v) /\ (u \o v)[k] = v[k - Len(u)]
  BY <1>1, <1>2, <1>3
<1>5. \A k \in 1 .. Len(u) + Len(v) : (u \o v)[k][1] \in A \cup B
  BY <1>4 DEF Apart
<1>6. ASSUME NEW k \in 1 .. Len(u) + Len(v), NEW l \in 1 .. Len(u) + Len(v), (u \o v)[k][1] = (u \o v)[l][1]
      PROVE  k = l
  <2>1. CASE k \in 1 .. Len(u) /\ l \in 1 .. Len(u)
    BY <1>1, <1>2, <1>6, <2>1 DEF Apart
  <2>2. CASE k \notin 1 .. Len(u) /\ l \notin 1 .. Len(u)
    <3>1. /\ k - Len(u) \in 1 .. Len(v) /\ (u \o v)[k] = v[k - Len(u)]
          /\ l - Len(u) \in 1 .. Len(v) /\ (u \o v)[l] = v[l - Len(u)]
      BY <1>4, <2>2
    <3>2. k - Len(u) = l - Len(u)
      BY <1>6, <3>1 DEF Apart
    <3>3. QED
      BY <1>1, <3>2
  <2>3. CASE k \in 1 .. Len(u) /\ l \notin 1 .. Len(u)
    BY <1>4, <1>6, <2>3 DEF Apart
  <2>4. CASE k \notin 1 .. Len(u) /\ l \in 1 .. Len(u)
    BY <1>4, <1>6, <2>4 DEF Apart
  <2>5. QED
    BY <2>1, <2>2, <2>3, <2>4
<1>7. QED
  BY <1>1, <1>2, <1>5, <1>6 DEF Apart

LEMMA JoinDone ==
  ASSUME NEW cells, NEW u \in Seq(Pair), NEW v \in Seq(Pair), Done(cells, u \o v)
  PROVE  Done(cells, u) /\ Done(cells, v)
<1>1. /\ Len(u \o v) = Len(u) + Len(v)
      /\ \A k \in 1 .. Len(u) : (u \o v)[k] = u[k]
      /\ \A k \in 1 .. Len(v) : (u \o v)[Len(u) + k] = v[k]
      /\ Len(u) \in Nat /\ Len(v) \in Nat
  BY Concat
<1>2. Done(cells, u)
  BY <1>1 DEF Done, Found
<1>3. ASSUME NEW k \in 1 .. Len(v) PROVE cells[Cell(v[k][1])] = v[k][2]
  <2>1. Len(u) + k \in 1 .. Len(u \o v) /\ (u \o v)[Len(u) + k] = v[k]
    BY <1>1
  <2>2. QED
    BY <2>1 DEF Done, Found
<1>4. QED
  BY <1>2, <1>3 DEF Done, Found

\* The bytes of a pointer and of a length.
LEMMA PieceShapes ==
  /\ \A v \in Nat : LE16(v) \in Seq(Bytes) /\ Len(LE16(v)) = 2
  /\ \A l \in Nat : Byte(l) \in Seq(Bytes) /\ Len(Byte(l)) = 1
<1>1. \A v \in Nat : v % 256 \in 0 .. 255 /\ (v \div 256) % 256 \in 0 .. 255
  OBVIOUS
<1>2. \A v \in Nat : v % 256 \in Bytes /\ (v \div 256) % 256 \in Bytes
  BY <1>1, MapAssumption
<1>3. QED
  BY <1>2 DEF LE16, Byte

LEMMA PieceValues ==
  /\ \A v \in Nat : v < 65536 => LE16(v)[1] + (256 * LE16(v)[2]) = v
  /\ \A l \in Nat : l < 256 => Byte(l)[1] = l
<1>1. \A v \in Nat : v < 65536 => (v % 256) + (256 * ((v \div 256) % 256)) = v
  OBVIOUS
<1>2. \A l \in Nat : l < 256 => l % 256 = l
  OBVIOUS
<1>3. QED
  BY <1>1, <1>2 DEF LE16, Byte

LEMMA WiderApart ==
  ASSUME NEW w, NEW A, NEW B, Apart(w, A), A \subseteq B PROVE Apart(w, B)
BY DEF Apart

LEMMA WriteDone ==
  ASSUME NEW cells, NEW a \in Nat, NEW v \in Seq(Bytes), Done(cells, writeEE(a, v))
  PROVE  \A k \in 1 .. Len(v) : cells[Cell(a + k - 1)] = v[k]
<1>1. /\ Len(writeEE(a, v)) = Len(v)
      /\ \A k \in 1 .. Len(v) : writeEE(a, v)[k] = <<a + k - 1, v[k]>>
  BY WriteApart
<1>2. \A k \in 1 .. Len(v) : writeEE(a, v)[k][1] = a + k - 1 /\ writeEE(a, v)[k][2] = v[k]
  BY <1>1
<1>3. QED
  BY <1>1, <1>2, Zenon DEF Done, Found

LEMMA WritePairs ==
  ASSUME NEW a \in Nat, NEW v \in Seq(Bytes) PROVE writeEE(a, v) \in Seq(Pair)
BY WriteApart DEF Apart

-----------------------------------------------------------------------------
(* Strings: where they lie, and what a memory that holds them reads as.     *)

Shaped(strs, n) == \A i \in 1 .. n : strs[i] \in Seq(Bytes) /\ Len(strs[i]) < 256
PtrCells(i) == StrPtrs[i] .. StrPtrs[i] + 2
TextCells(strs, i) == StrAddr(strs, i) .. StrAddr(strs, i + 1) - 1

LEMMA Layout ==
  /\ StrBase \in Nat /\ StrBase > 18 /\ StrBase > 19 /\ StrFloor \in Nat /\ StrFloor <= StrBase
  /\ EepromSize \in Nat /\ EepromSize > 0 /\ EepromSize <= 65536
BY MapAssumption, CellsAssumption

LEMMA Pointers ==
  /\ StrPtrs[1] = 5 /\ StrPtrs[2] = 8 /\ StrPtrs[3] = 11 /\ StrPtrs[4] = 16
  /\ \A i \in 1 .. 4 : StrPtrs[i] \in Nat /\ StrPtrs[i] >= 5 /\ StrPtrs[i] + 2 < StrBase
BY Layout DEF StrPtrs

Size(strs, i) == Len(strs[i])

LEMMA StringsFollow ==
  ASSUME NEW strs, NEW n \in {3, 4}, Shaped(strs, n)
  PROVE  /\ StrAddr(strs, 1) = StrBase
         /\ \A i \in 1 .. n : /\ Size(strs, i) \in Nat
                              /\ StrAddr(strs, i) \in Nat /\ StrAddr(strs, i + 1) \in Nat
                              /\ StrAddr(strs, i + 1) = StrAddr(strs, i) + Size(strs, i)
                              /\ StrBase <= StrAddr(strs, i)
                              /\ StrAddr(strs, i + 1) <= StrAddr(strs, n + 1)
<1>1. \A i \in 1 .. n : Size(strs, i) \in Nat
  BY DEF Shaped, Size
<1>2. /\ Size(strs, 1) \in Nat /\ Size(strs, 2) \in Nat /\ Size(strs, 3) \in Nat
      /\ n = 4 => Size(strs, 4) \in Nat
  BY <1>1
<1>3. /\ StrAddr(strs, 1) = StrBase + 0 + 0 + 0 + 0
      /\ StrAddr(strs, 2) = StrBase + Size(strs, 1) + 0 + 0 + 0
      /\ StrAddr(strs, 3) = StrBase + Size(strs, 1) + Size(strs, 2) + 0 + 0
      /\ StrAddr(strs, 4) = StrBase + Size(strs, 1) + Size(strs, 2) + Size(strs, 3) + 0
      /\ StrAddr(strs, 5) = StrBase + Size(strs, 1) + Size(strs, 2) + Size(strs, 3) + Size(strs, 4)
  BY DEF StrAddr, Ahead, Size
<1>4. /\ StrBase \in Nat /\ StrAddr(strs, 1) = StrBase
      /\ StrAddr(strs, 2) \in Nat /\ StrAddr(strs, 3) \in Nat /\ StrAddr(strs, 4) \in Nat
      /\ StrAddr(strs, 2) = StrAddr(strs, 1) + Size(strs, 1)
      /\ StrAddr(strs, 3) = StrAddr(strs, 2) + Size(strs, 2)
      /\ StrAddr(strs, 4) = StrAddr(strs, 3) + Size(strs, 3)
  BY <1>2, <1>3, Layout
<1>5. n = 4 => StrAddr(strs, 5) \in Nat /\ StrAddr(strs, 5) = StrAddr(strs, 4) + Size(strs, 4)
  BY <1>2, <1>3, <1>4
<1>6. ASSUME NEW i \in 1 .. n
      PROVE  /\ Size(strs, i) \in Nat
             /\ StrAddr(strs, i) \in Nat /\ StrAddr(strs, i + 1) \in Nat
             /\ StrAddr(strs, i + 1) = StrAddr(strs, i) + Size(strs, i)
             /\ StrBase <= StrAddr(strs, i) /\ StrAddr(strs, i + 1) <= StrAddr(strs, n + 1)
  <2>1. CASE i = 1
    BY <1>2, <1>4, <1>5, <2>1
  <2>2. CASE i = 2
    BY <1>2, <1>4, <1>5, <2>2
  <2>3. CASE i = 3
    BY <1>2, <1>4, <1>5, <2>3
  <2>4. CASE i = 4
    BY <1>2, <1>4, <1>5, <2>4
  <2>5. QED
    BY <2>1, <2>2, <2>3, <2>4
<1>7. QED
  BY <1>4, <1>6

LEMMA JoinSeqs ==
  ASSUME NEW u \in Seq(Bytes), NEW v \in Seq(Bytes)
  PROVE  Len(u) = 2 /\ Len(v) = 1 =>
           /\ u \o v \in Seq(Bytes) /\ Len(u \o v) = 3
           /\ (u \o v)[1] = u[1] /\ (u \o v)[2] = u[2] /\ (u \o v)[3] = v[1]
<1> DEFINE w == u \o v
<1>1. /\ w \in Seq(Bytes) /\ Len(w) = Len(u) + Len(v)
      /\ \A k \in 1 .. Len(u) : w[k] = u[k]
      /\ \A k \in 1 .. Len(v) : w[Len(u) + k] = v[k]
  BY Concat
<1> HIDE DEF w
<1> SUFFICES ASSUME Len(u) = 2, Len(v) = 1
             PROVE  w \in Seq(Bytes) /\ Len(w) = 3 /\ w[1] = u[1] /\ w[2] = u[2] /\ w[3] = v[1]
  BY DEF w
<1>2. w[1] = u[1] /\ w[2] = u[2] /\ w[2 + 1] = v[1]
  BY <1>1
<1>3. QED
  BY <1>1, <1>2

LEMMA Field ==
  ASSUME NEW v \in Nat, NEW l \in Nat
  PROVE  /\ LE16(v) \o Byte(l) \in Seq(Bytes) /\ Len(LE16(v) \o Byte(l)) = 3
         /\ (LE16(v) \o Byte(l))[1] = LE16(v)[1] /\ (LE16(v) \o Byte(l))[2] = LE16(v)[2]
         /\ (LE16(v) \o Byte(l))[3] = Byte(l)[1]
<1> DEFINE p == LE16(v)
           q == Byte(l)
<1>1. p \in Seq(Bytes) /\ q \in Seq(Bytes) /\ Len(p) = 2 /\ Len(q) = 1
  BY PieceShapes
<1> HIDE DEF p, q
<1>2. /\ p \o q \in Seq(Bytes) /\ Len(p \o q) = 3
      /\ (p \o q)[1] = p[1] /\ (p \o q)[2] = p[2] /\ (p \o q)[3] = q[1]
  BY <1>1, JoinSeqs
<1>3. QED
  BY <1>2 DEF p, q

LEMMA StringApart ==
  ASSUME NEW strs, NEW n \in {3, 4}, Shaped(strs, n), NEW i \in 1 .. n
  PROVE  /\ Apart(StringWrites(strs, i), PtrCells(i) \cup TextCells(strs, i))
         /\ Apart(StringOrNone(strs, i), PtrCells(i) \cup TextCells(strs, i))
<1>1. /\ StrAddr(strs, i) \in Nat /\ strs[i] \in Seq(Bytes) /\ Size(strs, i) = Len(strs[i])
      /\ StrBase <= StrAddr(strs, i) /\ StrAddr(strs, i + 1) = StrAddr(strs, i) + Size(strs, i)
      /\ Size(strs, i) \in Nat
  <2>1. strs[i] \in Seq(Bytes) /\ Size(strs, i) = Len(strs[i])
    BY DEF Shaped, Size
  <2>2. QED
    BY <2>1, StringsFollow
<1>2. StrPtrs[i] \in Nat /\ StrPtrs[i] + 2 < StrBase
  BY Pointers
<1>3. Apart(writeEE(StrPtrs[i], LE16(StrAddr(strs, i)) \o Byte(Len(strs[i]))), PtrCells(i))
  <2>1. StrPtrs[i] .. StrPtrs[i] + 3 - 1 = PtrCells(i)
    BY <1>2 DEF PtrCells
  <2> DEFINE f == LE16(StrAddr(strs, i)) \o Byte(Len(strs[i]))
  <2>2. f \in Seq(Bytes) /\ Len(f) = 3
    BY <1>1, Field
  <2> HIDE DEF f
  <2>3. Apart(writeEE(StrPtrs[i], f), PtrCells(i))
    BY <1>2, <2>1, <2>2, WriteApart
  <2>4. QED
    BY <2>3 DEF f
<1>4. Apart(writeEE(StrAddr(strs, i), strs[i]), TextCells(strs, i))
  BY <1>1, WriteApart DEF TextCells
<1>5. PtrCells(i) \cap TextCells(strs, i) = {}
  BY <1>1, <1>2, MapAssumption DEF PtrCells, TextCells
<1>6. Apart(StringWrites(strs, i), PtrCells(i) \cup TextCells(strs, i))
  BY <1>3, <1>4, <1>5, JoinApart DEF StringWrites
<1>7. Apart(writeEE(StrPtrs[i], <<0, 0, 0>>), PtrCells(i))
  <2>1. <<0, 0, 0>> \in Seq(Bytes) /\ Len(<<0, 0, 0>>) = 3
    BY MapAssumption
  <2>2. StrPtrs[i] .. StrPtrs[i] + 3 - 1 = PtrCells(i)
    BY <1>2 DEF PtrCells
  <2>3. QED
    BY <1>2, <2>1, <2>2, WriteApart
<1>8. QED
  BY <1>6, <1>7, WiderApart DEF StringOrNone

LEMMA CellIsAddress == \A a \in Nat : a < EepromSize => Cell(a) = a /\ a \in Cells
BY Layout DEF Cell, Cells

\* The parts of the EEPROM that hold string i.
Stored(cells, strs, i) ==
  /\ cells[StrPtrs[i] + 2] = Size(strs, i)
  /\ Size(strs, i) # 0 => Word(cells, StrPtrs[i]) = StrAddr(strs, i)
  /\ copyFromEE(cells, StrAddr(strs, i), Size(strs, i)) = strs[i]

LEMMA WritesStore ==
  ASSUME NEW cells \in [Cells -> Bytes], NEW strs, NEW n \in {3, 4}, Shaped(strs, n), NEW i \in 1 .. n,
         StrAddr(strs, n + 1) <= EepromSize, Done(cells, StringWrites(strs, i))
  PROVE  Stored(cells, strs, i)
<1> DEFINE p == StrPtrs[i]
           a == StrAddr(strs, i)
           l == Size(strs, i)
           t == strs[i]
           f == LE16(a) \o Byte(l)
<1>1. /\ a \in Nat /\ l \in Nat /\ a + l <= EepromSize /\ StrBase <= a
      /\ t \in Seq(Bytes) /\ Len(t) = l /\ l < 256
  <2>1. t \in Seq(Bytes) /\ Len(t) = l /\ l < 256
    BY DEF Shaped, Size
  <2>2. /\ a \in Nat /\ l \in Nat /\ StrBase <= a /\ StrAddr(strs, i + 1) \in Nat
        /\ StrAddr(strs, n + 1) \in Nat
        /\ StrAddr(strs, i + 1) = a + l /\ StrAddr(strs, i + 1) <= StrAddr(strs, n + 1)
    BY StringsFollow
  <2> HIDE DEF a, l, t
  <2>3. a + l <= EepromSize
    BY <2>2, Layout
  <2>4. QED
    BY <2>1, <2>2, <2>3
<1>2. p \in Nat /\ p + 2 < StrBase
  BY Pointers
<1>3. StringWrites(strs, i) = writeEE(p, f) \o writeEE(a, t)
  BY DEF StringWrites, Size
<1>4. /\ f \in Seq(Bytes) /\ Len(f) = 3
      /\ f[1] = LE16(a)[1] /\ f[2] = LE16(a)[2] /\ f[3] = Byte(l)[1]
  BY <1>1, Field
<1>5. Byte(l)[1] = l
  BY <1>1, PieceValues
<1>6. a < 65536 => LE16(a)[1] + (256 * LE16(a)[2]) = a
  BY <1>1, PieceValues
<1> HIDE DEF p, a, l, t, f
<1>7. Done(cells, writeEE(p, f)) /\ Done(cells, writeEE(a, t))
  <2>1. writeEE(p, f) \in Seq(Pair) /\ writeEE(a, t) \in Seq(Pair)
    BY <1>1, <1>2, <1>4, WritePairs
  <2>2. QED
    BY <1>3, <2>1, JoinDone
<1>8. \A k \in 1 .. 3 : cells[Cell(p + k - 1)] = f[k]
  <2>1. \A k \in 1 .. Len(f) : cells[Cell(p + k - 1)] = f[k]
    BY <1>2, <1>4, <1>7, WriteDone, Zenon
  <2>2. QED
    BY <1>4, <2>1
<1>9. cells[Cell(p)] = f[1] /\ cells[Cell(p + 1)] = f[2] /\ cells[Cell(p + 2)] = f[3]
  <2>1. p + 1 - 1 = p /\ p + 2 - 1 = p + 1 /\ p + 3 - 1 = p + 2
    BY <1>2
  <2>2. /\ cells[Cell(p + 1 - 1)] = f[1] /\ cells[Cell(p + 2 - 1)] = f[2]
        /\ cells[Cell(p + 3 - 1)] = f[3]
    BY <1>8
  <2>3. QED
    BY <2>1, <2>2
<1>10. Cell(p + 2) = p + 2
  BY <1>1, <1>2, Layout, CellIsAddress
<1>11. cells[p + 2] = l
  BY <1>4, <1>5, <1>9, <1>10
<1>12. Word(cells, p) = LE16(a)[1] + 256 * LE16(a)[2]
  BY <1>4, <1>9 DEF Word
<1>13. l # 0 => Word(cells, p) = a
  BY <1>1, <1>6, <1>12, Layout
<1>14. \A k \in 1 .. l : cells[Cell(a + k - 1)] = t[k]
  <2>1. \A k \in 1 .. Len(t) : cells[Cell(a + k - 1)] = t[k]
    BY <1>1, <1>7, WriteDone, ZenonT(60)
  <2>2. QED
    BY <1>1, <2>1
<1>15. copyFromEE(cells, a, l) = t
  <2>1. t = [k \in 1 .. l |-> t[k]]
    BY <1>1, LenProperties
  <2>2. QED
    BY <1>14, <2>1 DEF copyFromEE
<1>16. QED
  BY <1>11, <1>13, <1>15 DEF p, a, l, t, Stored

LEMMA NoneStored ==
  ASSUME NEW cells \in [Cells -> Bytes], NEW i \in 1 .. 4, StrBase <= EepromSize,
         Done(cells, writeEE(StrPtrs[i], <<0, 0, 0>>))
  PROVE  cells[StrPtrs[i] + 2] = 0 /\ Word(cells, StrPtrs[i]) = 0
<1> DEFINE p == StrPtrs[i]
           z == <<0, 0, 0>>
<1>1. p \in Nat /\ p + 2 < StrBase
  BY Pointers
<1>2. z \in Seq(Bytes) /\ Len(z) = 3 /\ z[1] = 0 /\ z[2] = 0 /\ z[3] = 0
  BY MapAssumption
<1> HIDE DEF p, z
<1>3. \A k \in 1 .. 3 : cells[Cell(p + k - 1)] = z[k]
  <2>1. Done(cells, writeEE(p, z))
    BY DEF p, z
  <2>2. \A k \in 1 .. Len(z) : cells[Cell(p + k - 1)] = z[k]
    BY <1>1, <1>2, <2>1, WriteDone, ZenonT(60)
  <2>3. QED
    BY <1>2, <2>2
<1>4. cells[Cell(p)] = 0 /\ cells[Cell(p + 1)] = 0 /\ cells[Cell(p + 2)] = 0
  <2>1. p + 1 - 1 = p /\ p + 2 - 1 = p + 1 /\ p + 3 - 1 = p + 2
    BY <1>1
  <2>2. /\ cells[Cell(p + 1 - 1)] = z[1] /\ cells[Cell(p + 2 - 1)] = z[2]
        /\ cells[Cell(p + 3 - 1)] = z[3]
    BY <1>3
  <2>3. QED
    BY <1>2, <2>1, <2>2
<1>5. Cell(p + 2) = p + 2
  BY <1>1, Layout, CellIsAddress
<1>6. QED
  BY <1>4, <1>5 DEF p, Word

LEMMA CellsHoldBytes ==
  ASSUME NEW cells \in [Cells -> Bytes], NEW a \in Nat
  PROVE  /\ cells[Cell(a)] \in Nat /\ cells[Cell(a)] < 256
         /\ Word(cells, a) \in Nat /\ Word(cells, a) < 65536
<1>1. \A b \in Nat : Cell(b) \in Cells
  BY Layout DEF Cell, Cells
<1>2. cells[Cell(a)] \in Bytes /\ cells[Cell(a + 1)] \in Bytes
  BY <1>1
<1>3. \A b \in Bytes : b \in Nat /\ b < 256
  BY MapAssumption
<1>4. /\ cells[Cell(a)] \in Nat /\ cells[Cell(a)] < 256
      /\ cells[Cell(a + 1)] \in Nat /\ cells[Cell(a + 1)] < 256
  BY <1>2, <1>3
<1>5. QED
  BY <1>4 DEF Word

LEMMA EmptyOrNot ==
  ASSUME NEW strs, NEW n \in {3, 4}, Shaped(strs, n), NEW i \in 1 .. n
  PROVE  strs[i] = <<>> <=> Size(strs, i) = 0
<1>1. strs[i] \in Seq(Bytes)
  BY DEF Shaped
<1>2. QED
  BY <1>1, EmptySeq DEF Size

\* What the device makes of a string that is stored, and what the host reads.
LEMMA BootTakes ==
  ASSUME NEW cells, NEW strs, NEW n \in {3, 4}, Shaped(strs, n), NEW i \in 1 .. 3,
         Stored(cells, strs, i), Size(strs, i) < Capacity[i]
  PROVE  /\ BootString(cells, i) = IF strs[i] = <<>> THEN Default.strings[i] ELSE strs[i]
         /\ ~Overruns(cells, i)
<1> DEFINE p == Word(cells, StrPtrs[i])
           len == cells[StrPtrs[i] + 2]
           a == StrAddr(strs, i)
           l == Size(strs, i)
           c == Capacity[i]
           t == strs[i]
           d == Default.strings[i]
<1>1. i \in 1 .. n
  OBVIOUS
<1>2. a \in Nat /\ a # 0 /\ l \in Nat
  BY <1>1, StringsFollow, Layout
<1>3. len = l /\ (l # 0 => p = a) /\ copyFromEE(cells, a, l) = t
  BY DEF Stored
<1>4. t = <<>> <=> l = 0
  BY <1>1, EmptyOrNot
<1>5. c \in Nat /\ l < c
  BY DEF Capacity
<1>6. BootString(cells, i) = IF p = 0 \/ len = 0 THEN d ELSE IF len >= c THEN <<>> ELSE copyFromEE(cells, p, len)
  BY DEF BootString
<1>7. Overruns(cells, i) <=> p # 0 /\ len >= c
  BY DEF Overruns
<1> HIDE DEF p, len, a, l, c, t, d
<1>8. ~(len >= c)
  BY <1>2, <1>3, <1>5
<1>9. BootString(cells, i) = IF t = <<>> THEN d ELSE t
  BY <1>2, <1>3, <1>4, <1>6, <1>8
<1>10. QED
  BY <1>7, <1>8, <1>9 DEF t, d

HostString(cells, i) ==
  IF validStr(Word(cells, StrPtrs[i]), cells[StrPtrs[i] + 2])
  THEN copyFromEE(cells, Word(cells, StrPtrs[i]), cells[StrPtrs[i] + 2]) ELSE <<>>

LEMMA HostTakes ==
  ASSUME NEW cells, NEW strs, NEW n \in {3, 4}, Shaped(strs, n), NEW i \in 1 .. n,
         Stored(cells, strs, i), StrAddr(strs, n + 1) < EepromSize
  PROVE  HostString(cells, i) = strs[i]
<1> DEFINE p == Word(cells, StrPtrs[i])
           len == cells[StrPtrs[i] + 2]
           a == StrAddr(strs, i)
           b == StrAddr(strs, i + 1)
           e == StrAddr(strs, n + 1)
           l == Size(strs, i)
           t == strs[i]
<1>1. /\ a \in Nat /\ l \in Nat /\ b \in Nat /\ b = a + l /\ StrBase <= a /\ b <= e
      /\ e \in Nat /\ e < EepromSize
  BY StringsFollow
<1>2. len = l /\ (l # 0 => p = a) /\ copyFromEE(cells, a, l) = t
  BY DEF Stored
<1>3. t = <<>> <=> l = 0
  BY EmptyOrNot
<1>4. HostString(cells, i) = IF validStr(p, len) THEN copyFromEE(cells, p, len) ELSE <<>>
  BY DEF HostString
<1> HIDE DEF p, len, a, b, e, l, t
<1>5. CASE l = 0
  <2>1. ~validStr(p, len)
    BY <1>2, <1>5 DEF validStr
  <2>2. QED
    BY <1>3, <1>4, <1>5, <2>1 DEF t
<1>6. CASE l # 0
  <2>1. a >= StrFloor /\ a + l < EepromSize
    BY <1>1, Layout
  <2>2. validStr(p, len)
    BY <1>2, <1>6, <2>1 DEF validStr
  <2>3. QED
    BY <1>2, <1>4, <1>6, <2>2 DEF t
<1>7. QED
  BY <1>5, <1>6

LEMMA NoneTakes ==
  ASSUME NEW cells, NEW i, cells[StrPtrs[i] + 2] = 0, Word(cells, StrPtrs[i]) = 0
  PROVE  /\ BootString(cells, i) = Default.strings[i]
         /\ HostString(cells, i) = <<>>
<1>1. ~validStr(0, 0)
  BY DEF validStr
<1>2. QED
  BY <1>1 DEF BootString, HostString

-----------------------------------------------------------------------------
(* The jobs: no cell twice, none outside the EEPROM.                        *)

\* One string more: its pointer is not among the fields P written so far, and
\* its text follows the others'.
Texts(strs, i) == StrBase .. StrAddr(strs, i) - 1

LEMMA AppendString ==
  ASSUME NEW strs, NEW n \in {3, 4}, Shaped(strs, n), NEW i \in 1 .. n, NEW w, NEW x,
         NEW P \in SUBSET (0 .. StrBase - 1), P \cap PtrCells(i) = {},
         Apart(w, P \cup Texts(strs, i)), Apart(x, PtrCells(i) \cup TextCells(strs, i))
  PROVE  Apart(w \o x, (P \cup PtrCells(i)) \cup Texts(strs, i + 1))
<1> DEFINE a == StrAddr(strs, i)
           b == StrAddr(strs, i + 1)
           p == StrPtrs[i]
<1>1. /\ a \in Nat /\ b \in Nat /\ StrBase <= a /\ a <= b
      /\ StrBase \in Nat /\ p \in Nat /\ p + 2 < StrBase
  <2>1. /\ StrAddr(strs, i) \in Nat /\ StrAddr(strs, i + 1) \in Nat /\ Size(strs, i) \in Nat
        /\ StrAddr(strs, i + 1) = StrAddr(strs, i) + Size(strs, i) /\ StrBase <= StrAddr(strs, i)
    BY StringsFollow
  <2>2. i \in 1 .. 4
    OBVIOUS
  <2>3. QED
    BY <2>1, <2>2, Layout, Pointers
<1>2. /\ Texts(strs, i) = StrBase .. a - 1 /\ Texts(strs, i + 1) = StrBase .. b - 1
      /\ TextCells(strs, i) = a .. b - 1 /\ PtrCells(i) = p .. p + 2
  BY DEF Texts, TextCells, PtrCells
<1> HIDE DEF a, b, p
<1>3. (P \cup (StrBase .. a - 1)) \cap ((p .. p + 2) \cup (a .. b - 1)) = {}
  <2>1. P \cap (p .. p + 2) = {}
    BY <1>2
  <2>2. (StrBase .. a - 1) \cap ((p .. p + 2) \cup (a .. b - 1)) = {}
    BY <1>1
  <2>3. P \cap (a .. b - 1) = {}
    BY <1>1
  <2>4. QED
    BY <2>1, <2>2, <2>3
<1>4. (P \cup (StrBase .. a - 1)) \cup ((p .. p + 2) \cup (a .. b - 1))
        \subseteq (P \cup (p .. p + 2)) \cup (StrBase .. b - 1)
  BY <1>1
<1>5. Apart(w \o x, (P \cup (StrBase .. a - 1)) \cup ((p .. p + 2) \cup (a .. b - 1)))
  <2>1. /\ Apart(w, P \cup (StrBase .. a - 1))
        /\ Apart(x, (p .. p + 2) \cup (a .. b - 1))
    BY <1>2
  <2>2. QED
    BY <1>3, <2>1, JoinApart, Zenon
<1>6. Apart(w \o x, (P \cup (p .. p + 2)) \cup (StrBase .. b - 1))
  BY <1>4, <1>5, WiderApart, ZenonT(60)
<1>7. QED
  BY <1>2, <1>6

LEMMA PtrCellsAre ==
  /\ PtrCells(1) = 5 .. 7 /\ PtrCells(2) = 8 .. 10 /\ PtrCells(3) = 11 .. 13 /\ PtrCells(4) = 16 .. 18
BY DEF PtrCells, StrPtrs

LEMMA ByteApart ==
  ASSUME NEW a \in Nat, NEW v \in Nat
  PROVE  /\ Apart(writeEE(a, Byte(v)), {a})
         /\ Len(writeEE(a, Byte(v))) = 1 /\ writeEE(a, Byte(v))[1] = <<a, Byte(v)[1]>>
<1> DEFINE q == Byte(v)
<1>1. q \in Seq(Bytes) /\ Len(q) = 1
  BY PieceShapes
<1> HIDE DEF q
<1>2. /\ Len(writeEE(a, q)) = Len(q) /\ Apart(writeEE(a, q), a .. a + Len(q) - 1)
      /\ \A k \in 1 .. Len(q) : writeEE(a, q)[k] = <<a + k - 1, q[k]>>
  BY <1>1, WriteApart
<1>3. a .. a + Len(q) - 1 = {a}
  BY <1>1
<1>4. writeEE(a, q)[1] = <<a + 1 - 1, q[1]>> /\ a + 1 - 1 = a
  BY <1>1, <1>2
<1>5. Len(writeEE(a, q)) = 1 /\ Apart(writeEE(a, q), {a}) /\ writeEE(a, q)[1] = <<a, q[1]>>
  BY <1>1, <1>2, <1>3, <1>4
<1>6. QED
  BY <1>5 DEF q

LEMMA IdsApart ==
  ASSUME NEW v \in Nat, NEW p \in Nat
  PROVE  /\ LE16(v) \o LE16(p) \in Seq(Bytes) /\ Len(LE16(v) \o LE16(p)) = 4
         /\ (LE16(v) \o LE16(p))[1] = LE16(v)[1] /\ (LE16(v) \o LE16(p))[2] = LE16(v)[2]
         /\ (LE16(v) \o LE16(p))[3] = LE16(p)[1] /\ (LE16(v) \o LE16(p))[4] = LE16(p)[2]
         /\ Apart(writeEE(1, LE16(v) \o LE16(p)), 1 .. 4)
<1> DEFINE x == LE16(v)
           y == LE16(p)
           w == x \o y
<1>1. x \in Seq(Bytes) /\ Len(x) = 2 /\ y \in Seq(Bytes) /\ Len(y) = 2
  BY PieceShapes
<1> HIDE DEF x, y
<1>2. /\ w \in Seq(Bytes) /\ Len(w) = Len(x) + Len(y)
      /\ \A k \in 1 .. Len(x) : w[k] = x[k]
      /\ \A k \in 1 .. Len(y) : w[Len(x) + k] = y[k]
  BY <1>1, Concat, SMTT(30)
<1> HIDE DEF w
<1>3. w[1] = x[1] /\ w[2] = x[2] /\ w[2 + 1] = y[1] /\ w[2 + 2] = y[2]
  BY <1>1, <1>2
<1>4. w \in Seq(Bytes) /\ Len(w) = 4 /\ w[3] = y[1] /\ w[4] = y[2]
  BY <1>1, <1>2, <1>3
<1>5. Apart(writeEE(1, w), 1 .. 1 + Len(w) - 1)
  BY <1>4, WriteApart
<1>6. 1 .. 1 + Len(w) - 1 = 1 .. 4
  BY <1>4
<1>7. Apart(writeEE(1, w), 1 .. 4)
  BY <1>5, <1>6
<1>8. QED
  BY <1>3, <1>4, <1>7 DEF w, x, y

LEMMA IdRange ==
  /\ \A x \in Ids : x \in Nat /\ x # 0 /\ x < 65536
  /\ \A x \in Nat : x # 0 /\ x < 65536 => x \in Ids
<1> DEFINE h == 65535
<1>1. h \in Nat /\ \A x \in Nat : x < 65536 <=> x <= h
  OBVIOUS
<1>2. Ids = 1 .. h
  BY DEF Ids
<1> HIDE DEF h
<1>3. /\ \A x \in 1 .. h : x \in Nat /\ x # 0 /\ x <= h
      /\ \A x \in Nat : x # 0 /\ x <= h => x \in 1 .. h
  BY <1>1
<1>4. QED
  BY <1>1, <1>2, <1>3

LEMMA HeldShaped ==
  ASSUME NEW strs, NEW n, Held(strs, n)
  PROVE  /\ Shaped(strs, n) /\ \A i \in 1 .. 3 : Size(strs, i) < Capacity[i]
         /\ StrAddr(strs, n + 1) <= EepromSize
BY DEF Held, Shaped, Size

LEMMA SetupFits ==
  ASSUME NEW j \in Jobs, j.tool = "setup"
  PROVE  /\ j.vid \in Nat /\ j.vid # 0 /\ j.vid < 65536
         /\ j.pid \in Nat /\ j.pid # 0 /\ j.pid < 65536
         /\ SetupS1(j) \in {0, 1}
         /\ Shaped(j.strings, 3)
         /\ \A i \in 1 .. 3 : Size(j.strings, i) < Capacity[i]
         /\ StrAddr(j.strings, 4) <= EepromSize
<1>1. Fits(j) /\ j.tool # "vidpid" /\ j.tool # "strings" /\ j.tool \notin {"polarity", "erase"}
  BY JobsAssumption
<1>2. j.vid \in Ids /\ j.pid \in Ids /\ SetupS1(j) \in {0, 1} /\ Held(j.strings, 3)
  BY <1>1, Zenon DEF Fits
<1>4. /\ j.vid \in Nat /\ j.vid # 0 /\ j.vid < 65536
      /\ j.pid \in Nat /\ j.pid # 0 /\ j.pid < 65536
  BY <1>2, IdRange
<1>5. /\ SetupS1(j) \in {0, 1} /\ Shaped(j.strings, 3)
      /\ \A i \in 1 .. 3 : Size(j.strings, i) < Capacity[i]
      /\ StrAddr(j.strings, 3 + 1) <= EepromSize
  BY <1>2, HeldShaped, Zenon
<1>6. 3 + 1 = 4
  OBVIOUS
<1>7. QED
  BY <1>4, <1>5, <1>6

LEMMA StringsFit ==
  ASSUME NEW j \in Jobs, j.tool = "strings"
  PROVE  /\ Shaped(AllStrings(j), 4)
         /\ \A i \in 1 .. 3 : Size(AllStrings(j), i) < Capacity[i]
         /\ StrAddr(AllStrings(j), 5) <= EepromSize
<1>1. Fits(j) /\ j.tool # "setup" /\ j.tool # "vidpid" /\ j.tool \notin {"polarity", "erase"}
  BY JobsAssumption
<1>2. Held(AllStrings(j), 4)
  BY <1>1, Zenon DEF Fits
<1>3. /\ Shaped(AllStrings(j), 4) /\ \A i \in 1 .. 3 : Size(AllStrings(j), i) < Capacity[i]
      /\ StrAddr(AllStrings(j), 4 + 1) <= EepromSize
  BY <1>2, HeldShaped, Zenon
<1>4. 4 + 1 = 5
  OBVIOUS
<1>5. QED
  BY <1>3, <1>4

\* What setupUSB writes before MAGIC.
SetupIds(j) == writeEE(1, LE16(j.vid) \o LE16(j.pid))
SetupStrings(j) ==
  SetupIds(j) \o StringWrites(j.strings, 1) \o StringWrites(j.strings, 2) \o StringWrites(j.strings, 3)
SetupBody(j) == SetupStrings(j) \o writeEE(14, Byte(SetupS1(j))) \o writeEE(15, Byte(1))

LEMMA SetupParts == \A j : setupUSB(j) = SetupBody(j) \o writeEE(0, Byte(MAGIC))
BY DEF setupUSB, SetupBody, SetupStrings, SetupIds

LEMMA SetupStringsApart ==
  ASSUME NEW j \in Jobs, j.tool = "setup"
  PROVE  Apart(SetupStrings(j), (1 .. 13) \cup Texts(j.strings, 4))
<1> DEFINE strs == j.strings
           w0 == SetupIds(j)
           w1 == w0 \o StringWrites(strs, 1)
           w2 == w1 \o StringWrites(strs, 2)
           w3 == w2 \o StringWrites(strs, 3)
           P0 == 1 .. 4
           P1 == 1 .. 7
           P2 == 1 .. 10
           P3 == 1 .. 13
<1>0. 3 \in {3, 4} /\ 1 \in 1 .. 3 /\ 2 \in 1 .. 3 /\ 3 \in 1 .. 3
  OBVIOUS
<1>1. Shaped(strs, 3)
  BY SetupFits
<1>2. Apart(w0, P0)
  <2>1. j.vid \in Nat /\ j.pid \in Nat
    BY SetupFits
  <2>2. QED
    BY <2>1, IdsApart, Zenon DEF SetupIds
<1>3. w3 = SetupStrings(j)
  BY DEF SetupStrings
<1>4. StrBase \in Nat /\ StrBase > 18 /\ StrAddr(strs, 1) = StrBase
  BY <1>1, Layout, StringsFollow
<1>5. \A i \in 1 .. 3 : Apart(StringWrites(strs, i), PtrCells(i) \cup TextCells(strs, i))
  BY <1>1, StringApart
<1>6. /\ P0 \in SUBSET (0 .. StrBase - 1) /\ P1 \in SUBSET (0 .. StrBase - 1)
      /\ P2 \in SUBSET (0 .. StrBase - 1)
  BY <1>4
<1>7. /\ P0 \cap PtrCells(1) = {} /\ P1 \cap PtrCells(2) = {} /\ P2 \cap PtrCells(3) = {}
      /\ P0 \cup PtrCells(1) = P1 /\ P1 \cup PtrCells(2) = P2 /\ P2 \cup PtrCells(3) = P3
  BY PtrCellsAre
<1>8. Texts(strs, 1) = {}
  BY <1>4 DEF Texts
<1> HIDE DEF strs, w0, P0, P1, P2, P3
<1>9. Apart(w0, P0 \cup Texts(strs, 1))
  BY <1>2, <1>8
<1>10. Apart(w1, P1 \cup Texts(strs, 2))
  <2>1. Apart(w1, (P0 \cup PtrCells(1)) \cup Texts(strs, 1 + 1))
    BY <1>0, <1>1, <1>5, <1>6, <1>7, <1>9, AppendString, Zenon
  <2>2. QED
    BY <1>7, <2>1
<1>11. Apart(w2, P2 \cup Texts(strs, 3))
  <2> HIDE DEF w1
  <2>1. Apart(w2, (P1 \cup PtrCells(2)) \cup Texts(strs, 2 + 1))
    BY <1>0, <1>1, <1>5, <1>6, <1>7, <1>10, AppendString, Zenon
  <2>2. QED
    BY <1>7, <2>1
<1>12. Apart(w3, P3 \cup Texts(strs, 4))
  <2> HIDE DEF w2
  <2>1. Apart(w3, (P2 \cup PtrCells(3)) \cup Texts(strs, 3 + 1))
    BY <1>0, <1>1, <1>5, <1>6, <1>7, <1>11, AppendString, Zenon
  <2>2. QED
    BY <1>7, <2>1
<1>13. QED
  BY <1>3, <1>12 DEF P3, strs

LEMMA SetupRoom ==
  ASSUME NEW strs, Shaped(strs, 3), StrAddr(strs, 4) <= EepromSize
  PROVE  /\ StrAddr(strs, 4) \in Nat /\ StrBase <= StrAddr(strs, 4)
         /\ StrBase <= EepromSize /\ 18 < EepromSize /\ 19 < EepromSize
<1>1. StrAddr(strs, 3 + 1) \in Nat /\ Size(strs, 3) \in Nat /\ StrBase <= StrAddr(strs, 3)
      /\ StrAddr(strs, 3) \in Nat /\ StrAddr(strs, 3 + 1) = StrAddr(strs, 3) + Size(strs, 3)
  BY StringsFollow
<1>2. QED
  BY <1>1, Layout

\* The cells that setupUSB may write: none of the four that testee programs.
SetupCells == Cells \ (16 .. 19)

LEMMA SetupApart ==
  ASSUME NEW j \in Jobs, j.tool = "setup"
  PROVE  /\ Apart(setupUSB(j), SetupCells) /\ Apart(setupUSB(j), Cells) /\ SetupBody(j) \in Seq(Pair)
         /\ Len(setupUSB(j)) = Len(SetupBody(j)) + 1
         /\ setupUSB(j)[Len(SetupBody(j)) + 1] = <<0, MAGIC>>
<1> DEFINE T == Texts(j.strings, 4)
           w == SetupStrings(j)
           b14 == writeEE(14, Byte(SetupS1(j)))
           b15 == writeEE(15, Byte(1))
           b0 == writeEE(0, Byte(MAGIC))
           body == SetupBody(j)
<1>1. StrAddr(j.strings, 4) <= EepromSize /\ StrAddr(j.strings, 4) \in Nat /\ StrBase <= StrAddr(j.strings, 4)
  BY SetupFits, SetupRoom
<1>2. SetupS1(j) \in Nat
  BY SetupFits
<1>3. Apart(b14, {14}) /\ Apart(b15, {15}) /\ Apart(b0, {0})
  <2>1. MAGIC \in Nat /\ 1 \in Nat /\ 0 \in Nat /\ 14 \in Nat /\ 15 \in Nat
    BY DEF MAGIC
  <2>2. QED
    BY <1>2, <2>1, ByteApart, Zenon
<1>4. Len(b0) = 1 /\ b0[1] = <<0, MAGIC>>
  <2>1. 0 \in Nat /\ MAGIC \in Nat /\ MAGIC < 256
    BY DEF MAGIC
  <2>2. Len(b0) = 1 /\ b0[1] = <<0, Byte(MAGIC)[1]>>
    BY <2>1, ByteApart, Zenon
  <2>3. Byte(MAGIC)[1] = MAGIC
    BY <2>1, PieceValues
  <2>4. QED
    BY <2>2, <2>3
<1>5. T \cap (0 .. 19) = {} /\ T \subseteq Cells /\ 0 .. 19 \subseteq Cells
  BY <1>1, Layout DEF Texts, Cells
<1>6. Apart(w, (1 .. 13) \cup T)
  BY SetupStringsApart
<1>7. body = (w \o b14) \o b15 /\ setupUSB(j) = body \o b0
  BY SetupParts DEF SetupBody
<1> HIDE DEF T, w, b14, b15, b0, body
<1>8. Apart(w \o b14, ((1 .. 13) \cup T) \cup {14})
  <2>1. ((1 .. 13) \cup T) \cap {14} = {}
    BY <1>5
  <2>2. QED
    BY <1>3, <1>6, <2>1, JoinApart
<1>9. Apart(body, (((1 .. 13) \cup T) \cup {14}) \cup {15})
  <2>1. (((1 .. 13) \cup T) \cup {14}) \cap {15} = {}
    BY <1>5
  <2>2. QED
    BY <1>3, <1>7, <1>8, <2>1, JoinApart
<1>10. Apart(body \o b0, ((((1 .. 13) \cup T) \cup {14}) \cup {15}) \cup {0})
  <2>1. ((((1 .. 13) \cup T) \cup {14}) \cup {15}) \cap {0} = {}
    BY <1>5
  <2>2. QED
    BY <1>3, <1>9, <2>1, JoinApart
<1>11. ((((1 .. 13) \cup T) \cup {14}) \cup {15}) \cup {0} \subseteq SetupCells
  BY <1>5 DEF SetupCells
<1>12. body \in Seq(Pair) /\ b0 \in Seq(Pair)
  BY <1>3, <1>9 DEF Apart
<1>13. Len(body \o b0) = Len(body) + 1 /\ (body \o b0)[Len(body) + 1] = b0[1]
  <2>1. /\ Len(body \o b0) = Len(body) + Len(b0)
        /\ \A k \in 1 .. Len(b0) : (body \o b0)[Len(body) + k] = b0[k]
    BY <1>12, Concat
  <2>2. QED
    BY <1>4, <2>1
<1>14. Apart(body \o b0, SetupCells) /\ Apart(body \o b0, Cells)
  <2>1. SetupCells \subseteq Cells
    BY DEF SetupCells
  <2>2. QED
    BY <1>10, <1>11, <2>1, WiderApart
<1>15. QED
  BY <1>4, <1>7, <1>12, <1>13, <1>14 DEF body

LEMMA ByteDone ==
  ASSUME NEW cells, NEW a \in Nat, a < EepromSize, NEW v \in Nat, v < 256, Done(cells, writeEE(a, Byte(v)))
  PROVE  cells[a] = v
<1>1. Len(writeEE(a, Byte(v))) = 1 /\ writeEE(a, Byte(v))[1] = <<a, Byte(v)[1]>>
  BY ByteApart
<1>2. cells[Cell(a)] = Byte(v)[1]
  BY <1>1 DEF Done, Found
<1>3. Byte(v)[1] = v /\ Cell(a) = a
  BY PieceValues, CellIsAddress
<1>4. QED
  BY <1>2, <1>3

LEMMA IdsDone ==
  ASSUME NEW cells, NEW v \in Nat, NEW p \in Nat, Done(cells, writeEE(1, LE16(v) \o LE16(p)))
  PROVE  /\ Word(cells, 1) = LE16(v)[1] + 256 * LE16(v)[2]
         /\ Word(cells, 3) = LE16(p)[1] + 256 * LE16(p)[2]
<1> DEFINE ids == LE16(v) \o LE16(p)
<1>1. /\ ids \in Seq(Bytes) /\ Len(ids) = 4
      /\ ids[1] = LE16(v)[1] /\ ids[2] = LE16(v)[2] /\ ids[3] = LE16(p)[1] /\ ids[4] = LE16(p)[2]
  BY IdsApart, Zenon
<1>2. Done(cells, writeEE(1, ids)) /\ 1 \in Nat
  OBVIOUS
<1> HIDE DEF ids
<1>3. \A k \in 1 .. Len(ids) : cells[Cell(1 + k - 1)] = ids[k]
  BY <1>1, <1>2, WriteDone, ZenonT(60)
<1>4. /\ cells[Cell(1 + 1 - 1)] = ids[1] /\ cells[Cell(1 + 2 - 1)] = ids[2]
      /\ cells[Cell(1 + 3 - 1)] = ids[3] /\ cells[Cell(1 + 4 - 1)] = ids[4]
  BY <1>1, <1>3
<1>5. 1 + 1 - 1 = 1 /\ 1 + 2 - 1 = 1 + 1 /\ 1 + 3 - 1 = 3 /\ 1 + 4 - 1 = 3 + 1
  OBVIOUS
<1>6. /\ cells[Cell(1)] = ids[1] /\ cells[Cell(1 + 1)] = ids[2]
      /\ cells[Cell(3)] = ids[3] /\ cells[Cell(3 + 1)] = ids[4]
  BY <1>4, <1>5
<1>7. QED
  BY <1>1, <1>6 DEF Word

\* A memory that holds what setupUSB writes holds every part of it.
LEMMA SetupPieces ==
  ASSUME NEW j \in Jobs, j.tool = "setup", NEW cells, Done(cells, setupUSB(j))
  PROVE  /\ Done(cells, writeEE(1, LE16(j.vid) \o LE16(j.pid)))
         /\ \A i \in 1 .. 3 : Done(cells, StringWrites(j.strings, i))
         /\ Done(cells, writeEE(14, Byte(SetupS1(j)))) /\ Done(cells, writeEE(15, Byte(1)))
         /\ Done(cells, writeEE(0, Byte(MAGIC)))
<1> DEFINE i0 == SetupIds(j)
           w1 == StringWrites(j.strings, 1)
           w2 == StringWrites(j.strings, 2)
           w3 == StringWrites(j.strings, 3)
           b14 == writeEE(14, Byte(SetupS1(j)))
           b15 == writeEE(15, Byte(1))
           b0 == writeEE(0, Byte(MAGIC))
           x1 == i0 \o w1
           x2 == x1 \o w2
           x3 == x2 \o w3
           x4 == x3 \o b14
           x5 == x4 \o b15
<1>1. setupUSB(j) = x5 \o b0
  BY SetupParts DEF SetupBody, SetupStrings
<1>2. \A i \in 1 .. 3 : StringWrites(j.strings, i) \in Seq(Pair)
  <2>1. ASSUME NEW i \in 1 .. 3 PROVE StringWrites(j.strings, i) \in Seq(Pair)
    <3>1. Shaped(j.strings, 3) /\ 3 \in {3, 4}
      BY SetupFits
    <3>2. Apart(StringWrites(j.strings, i), PtrCells(i) \cup TextCells(j.strings, i))
      BY <3>1, StringApart, Zenon
    <3>3. QED
      BY <3>2, Zenon DEF Apart
  <2>2. QED
    BY <2>1
<1>3. w1 \in Seq(Pair) /\ w2 \in Seq(Pair) /\ w3 \in Seq(Pair)
  BY <1>2
<1>4. i0 \in Seq(Pair)
  <2>1. j.vid \in Nat /\ j.pid \in Nat
    BY SetupFits
  <2>2. Apart(i0, 1 .. 4)
    BY <2>1, IdsApart, Zenon DEF SetupIds
  <2>3. QED
    BY <2>2, Zenon DEF Apart
<1>5. b14 \in Seq(Pair) /\ b15 \in Seq(Pair) /\ b0 \in Seq(Pair)
  <2>1. SetupS1(j) \in Nat
    BY SetupFits
  <2>2. MAGIC \in Nat
    BY DEF MAGIC
  <2>3. Apart(b14, {14}) /\ Apart(b15, {15}) /\ Apart(b0, {0})
    BY <2>1, <2>2, ByteApart
  <2>4. QED
    BY <2>3, Zenon DEF Apart
<1> HIDE DEF i0, w1, w2, w3, b14, b15, b0, x1, x2, x3, x4, x5
<1>6. x1 \in Seq(Pair)
  BY <1>3, <1>4 DEF x1
<1>7. x2 \in Seq(Pair)
  BY <1>3, <1>6 DEF x2
<1>8. x3 \in Seq(Pair)
  BY <1>3, <1>7 DEF x3
<1>9. x4 \in Seq(Pair)
  BY <1>5, <1>8 DEF x4
<1>10. x5 \in Seq(Pair)
  BY <1>5, <1>9 DEF x5
<1>11. Done(cells, x5 \o b0)
  BY <1>1
<1>12. Done(cells, x5) /\ Done(cells, b0)
  BY <1>5, <1>10, <1>11, JoinDone, Zenon
<1>13. Done(cells, x4) /\ Done(cells, b15)
  BY <1>5, <1>9, <1>12, JoinDone, Zenon DEF x5
<1>14. Done(cells, x3) /\ Done(cells, b14)
  BY <1>5, <1>8, <1>13, JoinDone, Zenon DEF x4
<1>15. Done(cells, x2) /\ Done(cells, w3)
  BY <1>3, <1>7, <1>14, JoinDone, Zenon DEF x3
<1>16. Done(cells, x1) /\ Done(cells, w2)
  BY <1>3, <1>6, <1>15, JoinDone, Zenon DEF x2
<1>17. Done(cells, i0) /\ Done(cells, w1)
  BY <1>3, <1>4, <1>16, JoinDone, Zenon DEF x1
<1>18. \A i \in 1 .. 3 : Done(cells, StringWrites(j.strings, i))
  <2>1. Done(cells, StringWrites(j.strings, 1)) /\ Done(cells, StringWrites(j.strings, 2))
        /\ Done(cells, StringWrites(j.strings, 3))
    BY <1>15, <1>16, <1>17 DEF w1, w2, w3
  <2>2. QED
    BY <2>1
<1>19. QED
  BY <1>12, <1>13, <1>14, <1>17, <1>18 DEF i0, b14, b15, b0, SetupIds

\* A device that starts from a complete setup has the identity it asked for, but
\* for the polarities of one with -s2.
LEMMA SetupTaken ==
  ASSUME NEW j \in Jobs, j.tool = "setup", NEW cells \in [Cells -> Bytes], Done(cells, setupUSB(j))
  PROVE  readEEprom(cells) \in Outcomes(j)
<1> DEFINE strs == j.strings
           v == j.vid
           p == j.pid
           s1 == SetupS1(j)
<1>1. /\ v \in Nat /\ v # 0 /\ v < 65536 /\ p \in Nat /\ p # 0 /\ p < 65536 /\ s1 \in {0, 1}
  BY SetupFits
<1>2. /\ Shaped(strs, 3) /\ StrAddr(strs, 4) <= EepromSize
      /\ \A i \in 1 .. 3 : Size(strs, i) < Capacity[i]
  BY SetupFits
<1>3. /\ Done(cells, writeEE(1, LE16(v) \o LE16(p)))
      /\ \A i \in 1 .. 3 : Done(cells, StringWrites(strs, i))
      /\ Done(cells, writeEE(14, Byte(s1))) /\ Done(cells, writeEE(15, Byte(1)))
      /\ Done(cells, writeEE(0, Byte(MAGIC)))
  BY SetupPieces
<1> HIDE DEF strs, v, p, s1
<1>4. 18 < EepromSize /\ EepromSize \in Nat
  BY <1>2, SetupRoom, Layout
<1>5. Word(cells, 1) = v /\ Word(cells, 3) = p
  <2>0. v \in Nat /\ p \in Nat /\ Done(cells, writeEE(1, LE16(v) \o LE16(p)))
    BY <1>1, <1>3
  <2>1. /\ Word(cells, 1) = LE16(v)[1] + 256 * LE16(v)[2]
        /\ Word(cells, 3) = LE16(p)[1] + 256 * LE16(p)[2]
    BY <2>0, IdsDone
  <2>2. QED
    BY <1>1, <2>1, PieceValues
<1>6. cells[14] = s1 /\ cells[15] = 1 /\ cells[0] = MAGIC
  <2>1. s1 \in Nat /\ s1 < 256 /\ 1 < 256
    BY <1>1
  <2>2. MAGIC \in Nat /\ MAGIC < 256
    BY DEF MAGIC
  <2>3. 14 < EepromSize /\ 15 < EepromSize /\ 0 < EepromSize
    BY <1>4
  <2>4. QED
    BY <1>3, <2>1, <2>2, <2>3, ByteDone
<1>7. ASSUME NEW i \in 1 .. 3
      PROVE  BootString(cells, i) = StringOr(j, i) /\ ~Overruns(cells, i)
  <2>1. Stored(cells, strs, i)
    <3>1. 3 \in {3, 4} /\ StrAddr(strs, 3 + 1) <= EepromSize
      BY <1>2
    <3>2. QED
      BY <1>2, <1>3, <3>1, WritesStore
  <2>2. Size(strs, i) < Capacity[i] /\ 3 \in {3, 4}
    BY <1>2
  <2>3. /\ BootString(cells, i) = IF strs[i] = <<>> THEN Default.strings[i] ELSE strs[i]
        /\ ~Overruns(cells, i)
    BY <1>2, <2>1, <2>2, BootTakes
  <2>4. QED
    BY <2>3 DEF StringOr, strs
<1>8. [i \in 1 .. 3 |-> BootString(cells, i)] = [i \in 1 .. 3 |-> StringOr(j, i)]
  BY <1>7
<1>9. /\ OrElse(Word(cells, 1), Default.vid) = v /\ OrElse(Word(cells, 3), Default.pid) = p
      /\ Setting(cells[14], Default.s1) = s1 /\ Setting(cells[15], Default.s2) = 1
  BY <1>1, <1>5, <1>6 DEF OrElse, Setting
<1>10. Wanted(j, s1, 1) \in Outcomes(j)
  <2>1. CASE "s2" \notin DOMAIN j
    BY <2>1 DEF Outcomes, SetupS1, s1
  <2>2. CASE "s2" \in DOMAIN j
    <3>1. Outcomes(j) = {Wanted(j, a, b) : a \in {0, 1}, b \in {0, 1}}
      BY <2>2 DEF Outcomes
    <3>2. s1 \in {0, 1} /\ 1 \in {0, 1}
      BY <1>1
    <3>3. QED
      BY <3>1, <3>2, SMT
  <2>3. QED
    BY <2>1, <2>2
<1>11. (\E i \in 1 .. 3 : Overruns(cells, i)) = FALSE
  BY <1>7
<1>12. readEEprom(cells) =
         [vid |-> OrElse(Word(cells, 1), Default.vid), pid |-> OrElse(Word(cells, 3), Default.pid),
          strings |-> [i \in 1 .. 3 |-> BootString(cells, i)],
          s1 |-> Setting(cells[14], Default.s1), s2 |-> Setting(cells[15], Default.s2),
          overrun |-> \E i \in 1 .. 3 : Overruns(cells, i)]
  BY <1>6, Zenon DEF readEEprom
<1>13. readEEprom(cells) = Wanted(j, s1, 1)
  BY <1>8, <1>9, <1>11, <1>12 DEF Wanted, v, p
<1>14. QED
  BY <1>10, <1>13

\* The cells that a strings job writes.
StringCells == ((5 .. 13) \cup (16 .. 18)) \cup (StrBase .. EepromSize - 1)

LEMMA StringsRoom ==
  ASSUME NEW strs, Shaped(strs, 4), StrAddr(strs, 5) <= EepromSize
  PROVE  /\ StrAddr(strs, 5) \in Nat /\ StrBase <= StrAddr(strs, 5)
         /\ StrBase <= EepromSize /\ 18 < EepromSize
<1>1. StrAddr(strs, 4 + 1) \in Nat /\ Size(strs, 4) \in Nat /\ StrBase <= StrAddr(strs, 4)
      /\ StrAddr(strs, 4) \in Nat /\ StrAddr(strs, 4 + 1) = StrAddr(strs, 4) + Size(strs, 4)
  BY StringsFollow
<1>2. QED
  BY <1>1, Layout

LEMMA StringsApart ==
  ASSUME NEW strs, Shaped(strs, 4), StrAddr(strs, 5) <= EepromSize
  PROVE  Apart(writeEEStrings(strs), StringCells)
<1> DEFINE w1 == StringOrNone(strs, 1)
           w2 == w1 \o StringOrNone(strs, 2)
           w3 == w2 \o StringOrNone(strs, 3)
           w4 == w3 \o StringOrNone(strs, 4)
           P1 == 5 .. 7
           P2 == 5 .. 10
           P3 == 5 .. 13
           P4 == (5 .. 13) \cup (16 .. 18)
<1>1. 4 \in {3, 4} /\ 1 \in 1 .. 4 /\ 2 \in 1 .. 4 /\ 3 \in 1 .. 4 /\ 4 \in 1 .. 4
  OBVIOUS
<1>2. writeEEStrings(strs) = w4
  BY DEF writeEEStrings
<1>3. StrBase \in Nat /\ StrBase > 18 /\ StrAddr(strs, 1) = StrBase
  BY <1>1, Layout, StringsFollow
<1>4. \A i \in 1 .. 4 : Apart(StringOrNone(strs, i), PtrCells(i) \cup TextCells(strs, i))
  BY <1>1, StringApart
<1>5. /\ P1 \in SUBSET (0 .. StrBase - 1) /\ P2 \in SUBSET (0 .. StrBase - 1)
      /\ P3 \in SUBSET (0 .. StrBase - 1)
  BY <1>3
<1>6. /\ P1 \cap PtrCells(2) = {} /\ P2 \cap PtrCells(3) = {} /\ P3 \cap PtrCells(4) = {}
      /\ P1 = PtrCells(1) /\ P1 \cup PtrCells(2) = P2 /\ P2 \cup PtrCells(3) = P3 /\ P3 \cup PtrCells(4) = P4
  BY PtrCellsAre
<1>7. TextCells(strs, 1) = Texts(strs, 1 + 1)
  BY <1>3 DEF TextCells, Texts
<1>8. P4 \cup Texts(strs, 4 + 1) \subseteq StringCells
  <2>1. /\ StrAddr(strs, 4 + 1) = StrAddr(strs, 5) /\ StrAddr(strs, 5) \in Nat /\ StrAddr(strs, 5) <= EepromSize
        /\ EepromSize \in Nat
    BY StringsRoom, Layout
  <2>2. QED
    BY <1>3, <2>1 DEF Texts, StringCells
<1>9. 1 + 1 = 2 /\ 2 + 1 = 3 /\ 3 + 1 = 4
  OBVIOUS
<1> HIDE DEF P1, P2, P3, P4
<1>10. Apart(w1, P1 \cup Texts(strs, 2))
  BY <1>1, <1>4, <1>6, <1>7, <1>9
<1> HIDE DEF w1
<1>11. Apart(w2, P2 \cup Texts(strs, 3))
  <2>1. Apart(w2, (P1 \cup PtrCells(2)) \cup Texts(strs, 2 + 1))
    BY <1>1, <1>4, <1>5, <1>6, <1>10, AppendString, Zenon
  <2>2. QED
    BY <1>6, <1>9, <2>1
<1> HIDE DEF w2
<1>12. Apart(w3, P3 \cup Texts(strs, 4))
  <2>1. Apart(w3, (P2 \cup PtrCells(3)) \cup Texts(strs, 3 + 1))
    BY <1>1, <1>4, <1>5, <1>6, <1>11, AppendString, Zenon
  <2>2. QED
    BY <1>6, <1>9, <2>1
<1> HIDE DEF w3
<1>13. Apart(w4, (P3 \cup PtrCells(4)) \cup Texts(strs, 4 + 1))
  BY <1>1, <1>4, <1>5, <1>6, <1>12, AppendString, Zenon
<1>14. Apart(w4, P4 \cup Texts(strs, 4 + 1))
  BY <1>6, <1>13
<1>15. QED
  BY <1>2, <1>8, <1>14, WiderApart

LEMMA StringsPieces ==
  ASSUME NEW strs, Shaped(strs, 4), NEW cells, Done(cells, writeEEStrings(strs))
  PROVE  \A i \in 1 .. 4 : Done(cells, StringOrNone(strs, i))
<1> DEFINE w(i) == StringOrNone(strs, i)
           x2 == w(1) \o w(2)
           x3 == x2 \o w(3)
<1>1. \A i \in 1 .. 4 : w(i) \in Seq(Pair)
  <2>1. ASSUME NEW i \in 1 .. 4 PROVE w(i) \in Seq(Pair)
    <3>1. 4 \in {3, 4}
      OBVIOUS
    <3>2. Apart(w(i), PtrCells(i) \cup TextCells(strs, i))
      BY <3>1, StringApart, Zenon
    <3>3. QED
      BY <3>2, Zenon DEF Apart
  <2>2. QED
    BY <2>1
<1>2. Done(cells, x3 \o w(4))
  BY DEF writeEEStrings
<1> HIDE DEF w
<1>3. w(1) \in Seq(Pair) /\ w(2) \in Seq(Pair) /\ w(3) \in Seq(Pair) /\ w(4) \in Seq(Pair)
  BY <1>1
<1>4. x2 \in Seq(Pair)
  BY <1>3
<1> HIDE DEF x2
<1>5. x3 \in Seq(Pair)
  BY <1>3, <1>4
<1> HIDE DEF x3
<1>6. Done(cells, x3) /\ Done(cells, w(4))
  BY <1>2, <1>3, <1>5, JoinDone, Zenon
<1>7. Done(cells, x2) /\ Done(cells, w(3))
  BY <1>3, <1>4, <1>6, JoinDone, Zenon DEF x3
<1>8. Done(cells, w(1)) /\ Done(cells, w(2))
  BY <1>3, <1>7, JoinDone, Zenon DEF x2
<1>9. \A i \in 1 .. 4 : Done(cells, w(i))
  BY <1>6, <1>7, <1>8
<1>10. QED
  BY <1>9 DEF w

\* The device and the host find the strings that a complete strings job wrote.
LEMMA StringsTaken ==
  ASSUME NEW strs, Shaped(strs, 4), StrAddr(strs, 5) <= EepromSize,
         \A i \in 1 .. 3 : Size(strs, i) < Capacity[i],
         NEW cells \in [Cells -> Bytes], Done(cells, writeEEStrings(strs))
  PROVE  /\ \A i \in 1 .. 3 : BootString(cells, i) = IF strs[i] = <<>> THEN Default.strings[i] ELSE strs[i]
         /\ StrAddr(strs, 5) < EepromSize => \A i \in 1 .. 4 : HostString(cells, i) = strs[i]
<1>1. StrBase <= EepromSize
  BY StringsRoom
<1>2. \A i \in 1 .. 4 : Done(cells, StringOrNone(strs, i))
  BY StringsPieces
<1>3. 4 \in {3, 4} /\ StrAddr(strs, 4 + 1) <= EepromSize /\ StrAddr(strs, 4 + 1) = StrAddr(strs, 5)
  OBVIOUS
<1>4. ASSUME NEW i \in 1 .. 4, strs[i] # <<>> PROVE Stored(cells, strs, i)
  <2>1. Done(cells, StringWrites(strs, i))
    BY <1>2, <1>4 DEF StringOrNone
  <2>2. QED
    BY <1>3, <2>1, WritesStore
<1>5. ASSUME NEW i \in 1 .. 4, strs[i] = <<>>
      PROVE  cells[StrPtrs[i] + 2] = 0 /\ Word(cells, StrPtrs[i]) = 0
  <2>1. Done(cells, writeEE(StrPtrs[i], <<0, 0, 0>>))
    BY <1>2, <1>5 DEF StringOrNone
  <2>2. QED
    BY <1>1, <2>1, NoneStored
<1>6. ASSUME NEW i \in 1 .. 3
      PROVE  BootString(cells, i) = IF strs[i] = <<>> THEN Default.strings[i] ELSE strs[i]
  <2>1. i \in 1 .. 4
    OBVIOUS
  <2>2. CASE strs[i] = <<>>
    BY <1>5, <2>1, <2>2, NoneTakes
  <2>3. CASE strs[i] # <<>>
    <3>1. Stored(cells, strs, i)
      BY <1>4, <2>1, <2>3
    <3>2. Size(strs, i) < Capacity[i]
      OBVIOUS
    <3>3. QED
      BY <1>3, <3>1, <3>2, BootTakes, Zenon
  <2>4. QED
    BY <2>2, <2>3
<1>7. ASSUME StrAddr(strs, 5) < EepromSize, NEW i \in 1 .. 4 PROVE HostString(cells, i) = strs[i]
  <2>1. CASE strs[i] = <<>>
    BY <1>5, <2>1, NoneTakes
  <2>2. CASE strs[i] # <<>>
    <3>1. Stored(cells, strs, i)
      BY <1>4, <2>2
    <3>2. StrAddr(strs, 4 + 1) < EepromSize
      BY <1>3, <1>7
    <3>3. QED
      BY <1>3, <3>1, <3>2, HostTakes, Zenon
  <2>3. QED
    BY <2>1, <2>2
<1>8. QED
  BY <1>6, <1>7

\* The other buttons write none of those cells.
OtherCells == (0 .. 4) \cup (14 .. 15)

LEMMA SmallJobsApart ==
  /\ \A j \in Jobs : j.tool = "vidpid" => Apart(writeVidPid_clicked(j), OtherCells)
  /\ \A j : Apart(writePolarity_clicked(j), OtherCells)
<1>1. ASSUME NEW j \in Jobs, j.tool = "vidpid" PROVE Apart(writeVidPid_clicked(j), OtherCells)
  <2> DEFINE v == IF j.vid = 0 THEN DefaultVid ELSE j.vid
             m == writeEE(0, Byte(MAGIC))
             d == writeEE(1, LE16(v) \o LE16(j.pid))
  <2>1. j.vid \in Nat /\ j.pid \in Nat
    <3>1. Fits(j) /\ j.tool # "setup" /\ j.tool # "strings" /\ j.tool \notin {"polarity", "erase"}
      BY <1>1, JobsAssumption
    <3>2. QED
      BY <3>1, Zenon DEF Fits
  <2>2. v \in Nat /\ MAGIC \in Nat
    BY <2>1 DEF DefaultVid, MAGIC
  <2>3. writeVidPid_clicked(j) = m \o d
    BY DEF writeVidPid_clicked, eeMagic, eeVidPid
  <2> HIDE DEF v
  <2>4. Apart(m, {0}) /\ Apart(d, 1 .. 4)
    BY <2>1, <2>2, ByteApart, IdsApart
  <2> HIDE DEF m, d
  <2>5. {0} \cap (1 .. 4) = {} /\ {0} \cup (1 .. 4) \subseteq OtherCells
    BY DEF OtherCells
  <2>6. Apart(m \o d, {0} \cup (1 .. 4))
    BY <2>4, <2>5, JoinApart
  <2>7. QED
    BY <2>3, <2>5, <2>6, WiderApart
<1>2. ASSUME NEW j PROVE Apart(writePolarity_clicked(j), OtherCells)
  <2> DEFINE t == IF j.s2 = 0 THEN j.s1 ELSE j.s2
             x == NotZero(j.s1)
             y == NotZero(t)
             v == <<x, y>>
  <2>1. x \in {0, 1} /\ y \in {0, 1}
    BY DEF NotZero
  <2>2. writePolarity_clicked(j) = writeEE(14, v)
    BY DEF writePolarity_clicked, eePolarity
  <2> HIDE DEF t, x, y
  <2>3. x \in Bytes /\ y \in Bytes
    BY <2>1, MapAssumption
  <2>4. v \in Seq(Bytes) /\ Len(v) = 2
    BY <2>3
  <2> HIDE DEF v
  <2>5. Apart(writeEE(14, v), 14 .. 14 + Len(v) - 1)
    BY <2>4, WriteApart
  <2>6. 14 .. 14 + Len(v) - 1 \subseteq OtherCells
    BY <2>4 DEF OtherCells
  <2>7. QED
    BY <2>2, <2>5, <2>6, WiderApart
<1>3. QED
  BY <1>1, <1>2

LEMMA WritesAre ==
  ASSUME NEW j
  PROVE  /\ j.tool = "setup" => Writes(j) = setupUSB(j)
         /\ j.tool = "vidpid" => Writes(j) = writeVidPid_clicked(j)
         /\ j.tool = "strings" => Writes(j) = writeEEStrings(AllStrings(j))
         /\ j.tool = "polarity" => Writes(j) = writePolarity_clicked(j)
BY Zenon DEF Writes, writeStrings_clicked

LEMMA JobKinds == \A j \in Jobs : j.tool \in {"setup", "vidpid", "strings", "polarity", "erase"}
BY JobsAssumption, Zenon DEF Fits

LEMMA PlannedWrites ==
  ASSUME NEW j \in Jobs, j.tool # "erase"
  PROVE  /\ Writes(j) \in Seq(Pair)
         /\ j.tool \in {"setup", "strings"} => Apart(Writes(j), Cells)
         /\ j.tool \in {"vidpid", "polarity"} => Apart(Writes(j), OtherCells)
<1>1. CASE j.tool = "setup"
  <2>1. Apart(Writes(j), Cells)
    BY <1>1, WritesAre, SetupApart
  <2>2. QED
    BY <1>1, <2>1 DEF Apart
<1>2. CASE j.tool = "strings"
  <2>1. Apart(Writes(j), StringCells)
    BY <1>2, WritesAre, StringsFit, StringsApart
  <2>2. StringCells \subseteq Cells
    <3>1. 18 < EepromSize
      BY <1>2, StringsFit, StringsRoom
    <3>2. QED
      BY <3>1, Layout DEF StringCells, Cells
  <2>3. Apart(Writes(j), Cells)
    BY <2>1, <2>2, WiderApart
  <2>4. QED
    BY <1>2, <2>3 DEF Apart
<1>3. CASE j.tool = "vidpid"
  <2>1. Apart(Writes(j), OtherCells)
    BY <1>3, WritesAre, SmallJobsApart
  <2>2. QED
    BY <1>3, <2>1 DEF Apart
<1>4. CASE j.tool = "polarity"
  <2>1. Apart(Writes(j), OtherCells)
    BY <1>4, WritesAre, SmallJobsApart
  <2>2. QED
    BY <1>4, <2>1 DEF Apart
<1>5. QED
  BY <1>1, <1>2, <1>3, <1>4, JobKinds

LEMMA WriteCallIsCall == \A w \in Pair : WriteCall(w) \in CallRecords /\ WriteCall(w).op = "WRITE"
BY DEF Pair, WriteCall, CallRecords

LEMMA PlannedCalls ==
  ASSUME NEW j \in Jobs
  PROVE  /\ Calls(j) \in Seq(CallRecords)
         /\ j.tool # "erase" => /\ Len(Calls(j)) = Len(Writes(j))
                               /\ \A k \in 1 .. Len(Writes(j)) : Calls(j)[k] = WriteCall(Writes(j)[k])
<1>1. CASE j.tool = "erase"
  <2>1. EraseCall("ERAL", 0) \in CallRecords
    BY MapAssumption DEF CallRecords, EraseCall
  <2>2. QED
    BY <1>1, <2>1 DEF Calls
<1>2. CASE j.tool # "erase"
  <2> DEFINE w == Writes(j)
  <2>1. w \in Seq(Pair)
    BY <1>2, PlannedWrites
  <2>2. Calls(j) = [k \in DOMAIN w |-> WriteCall(w[k])]
    BY <1>2 DEF Calls
  <2> HIDE DEF w
  <2>3. \A k \in 1 .. Len(w) : WriteCall(w[k]) \in CallRecords
    BY <2>1, WriteCallIsCall
  <2>4. DOMAIN w = 1 .. Len(w) /\ Len(w) \in Nat
    BY <2>1
  <2>5. Calls(j) \in [1 .. Len(w) -> CallRecords]
    BY <2>2, <2>3, <2>4
  <2>6. Calls(j) \in Seq(CallRecords) /\ Len(Calls(j)) = Len(w)
    BY <2>4, <2>5
  <2>7. \A k \in 1 .. Len(w) : Calls(j)[k] = WriteCall(w[k])
    BY <2>2, <2>4
  <2>8. QED
    BY <2>6, <2>7 DEF w
<1>3. QED
  BY <1>1, <1>2

LEMMA AfterIsMemory ==
  ASSUME NEW cells \in [Cells -> Bytes], NEW c \in CallRecords
  PROVE  /\ After(cells, c) \in [Cells -> Bytes]
         /\ c.op = "WRITE" => After(cells, c) = [cells EXCEPT ![Cell(c.addr)] = c.data]
<1>1. c.addr \in Nat /\ c.data \in Bytes /\ Erased \in Bytes
  BY CellsAssumption DEF CallRecords
<1>2. \A b \in Nat : Cell(b) \in Cells
  BY Layout DEF Cell, Cells
<1>3. After(cells, c) \in {[cells EXCEPT ![Cell(c.addr)] = c.data],
                          [cells EXCEPT ![Cell(c.addr)] = Erased], AllErased, cells}
  BY Zenon DEF After
<1>4. c.op = "WRITE" => After(cells, c) = [cells EXCEPT ![Cell(c.addr)] = c.data]
  BY Zenon DEF After
<1>5. QED
  BY <1>1, <1>2, <1>3, <1>4 DEF AllErased

\* What the shell programs: everything, or cells that no setup writes.
ShellRecords == {c \in CallRecords : c.op \in {"READ", "ERAL"} \/ c.addr \in 16 .. 19}

LEMMA CommandsAre == Commands \subseteq Seq(ShellRecords)
<1>1. Erased \in Bytes /\ 65 \in Bytes /\ 1 \in Bytes /\ 2 \in Bytes /\ 3 \in Bytes
  BY MapAssumption
<1>2. EraseCall("ERAL", 0) \in ShellRecords /\ EraseCall("ERASE", 16) \in ShellRecords
  BY <1>1 DEF ShellRecords, CallRecords, EraseCall
<1>3. \A a \in 16 .. 20 : ReadCall(a) \in ShellRecords
  BY <1>1 DEF ShellRecords, CallRecords, ReadCall
<1>4. /\ WriteCall(<<16, 65>>) \in ShellRecords /\ WriteCall(<<17, 1>>) \in ShellRecords
      /\ WriteCall(<<18, 2>>) \in ShellRecords /\ WriteCall(<<19, 3>>) \in ShellRecords
  BY <1>1 DEF ShellRecords, CallRecords, WriteCall
<1>5. /\ ReadCall(16) \in ShellRecords /\ ReadCall(17) \in ShellRecords /\ ReadCall(18) \in ShellRecords
      /\ ReadCall(19) \in ShellRecords /\ ReadCall(20) \in ShellRecords
  BY <1>3
<1>6. eeprom9366_test \in Seq(ShellRecords)
  BY <1>2, <1>4, <1>5 DEF eeprom9366_test
<1>7. QED
  BY <1>2, <1>6 DEF Commands

\* A setup that is complete, or has no MAGIC, stays so under the shell's calls.
LEMMA ShellSpares ==
  ASSUME NEW j \in Jobs, j.tool = "setup", NEW cells \in [Cells -> Bytes], NEW c \in ShellRecords,
         cells[0] # MAGIC \/ Done(cells, setupUSB(j))
  PROVE  After(cells, c)[0] # MAGIC \/ Done(After(cells, c), setupUSB(j))
<1> DEFINE v == setupUSB(j)
<1>1. Apart(v, SetupCells) /\ 19 < EepromSize /\ EepromSize \in Nat
  BY SetupApart, SetupFits, SetupRoom, Layout
<1>2. c \in CallRecords /\ (c.op \in {"READ", "ERAL"} \/ c.addr \in 16 .. 19)
  BY DEF ShellRecords
<1>3. /\ c.op = "ERAL" => After(cells, c) = AllErased
      /\ c.op = "READ" => After(cells, c) = cells
      /\ c.op \in {"WRITE", "ERASE"} =>
           \E b \in Bytes : After(cells, c) = [cells EXCEPT ![Cell(c.addr)] = b]
  <2>1. c.data \in Bytes /\ Erased \in Bytes
    BY <1>2, CellsAssumption DEF CallRecords
  <2>2. QED
    BY <2>1, Zenon DEF After
<1>4. c.op \in {"READ", "ERAL", "WRITE", "ERASE"}
  BY <1>2 DEF CallRecords
<1> HIDE DEF v
<1>5. CASE c.op = "ERAL"
  BY <1>3, <1>5, Layout, MapAssumption DEF AllErased, Cells, MAGIC
<1>6. CASE c.op = "READ"
  BY <1>3, <1>6, Zenon DEF v
<1>7. CASE c.op \in {"WRITE", "ERASE"}
  <2>1. PICK b \in Bytes : After(cells, c) = [cells EXCEPT ![Cell(c.addr)] = b]
    BY <1>3, <1>7
  <2>2. Cell(c.addr) = c.addr /\ c.addr \in 16 .. 19
    BY <1>1, <1>2, <1>7, CellIsAddress
  <2>3. \A a \in SetupCells : Cell(a) = a /\ a \in Cells /\ a # c.addr
    BY <1>1, <2>2, CellIsAddress DEF SetupCells, Cells
  <2>4. 0 \in SetupCells
    BY <1>1 DEF SetupCells, Cells
  <2>5. \A a \in SetupCells : After(cells, c)[a] = cells[a]
    BY <2>1, <2>2, <2>3
  <2>6. CASE cells[0] # MAGIC
    BY <2>4, <2>5, <2>6
  <2>7. CASE Done(cells, v)
    <3>1. ASSUME NEW k \in 1 .. Len(v) PROVE After(cells, c)[Cell(v[k][1])] = v[k][2]
      <4>1. v[k][1] \in SetupCells
        BY <1>1 DEF Apart
      <4>2. cells[Cell(v[k][1])] = v[k][2]
        BY <2>7 DEF Done, Found
      <4>3. QED
        BY <2>3, <2>5, <4>1, <4>2
    <3>2. QED
      BY <3>1 DEF Done, Found, v
  <2>8. QED
    BY <2>6, <2>7 DEF v
<1>8. QED
  BY <1>4, <1>5, <1>6, <1>7

\* Writes to different cells leave each other alone.
LEMMA FindOneMore ==
  ASSUME NEW cells \in [Cells -> Bytes], NEW w, Apart(w, Cells), NEW n \in Nat, n < Len(w), Found(cells, w, n)
  PROVE  Found([cells EXCEPT ![Cell(w[n + 1][1])] = w[n + 1][2]], w, n + 1)
<1>1. /\ w \in Seq(Pair) /\ n + 1 \in 1 .. Len(w) /\ Len(w) \in Nat
      /\ \A k \in 1 .. n + 1 : k \in 1 .. Len(w)
  BY DEF Apart
<1>2. \A k \in 1 .. Len(w) : w[k][1] \in Cells /\ Cell(w[k][1]) = w[k][1]
  BY <1>1, CellIsAddress, Layout DEF Apart, Cells
<1>3. \A k \in 1 .. n : w[k][1] # w[n + 1][1]
  BY <1>1 DEF Apart
<1>4. ASSUME NEW k \in 1 .. n + 1
      PROVE  [cells EXCEPT ![Cell(w[n + 1][1])] = w[n + 1][2]][Cell(w[k][1])] = w[k][2]
  <2>1. CASE k = n + 1
    BY <1>1, <1>2, <2>1
  <2>2. CASE k # n + 1
    <3>1. k \in 1 .. n
      BY <2>2
    <3>2. cells[Cell(w[k][1])] = w[k][2]
      BY <3>1 DEF Found
    <3>3. QED
      BY <1>1, <1>2, <1>3, <3>1, <3>2
  <2>3. QED
    BY <2>1, <2>2
<1>5. QED
  BY <1>4 DEF Found

-----------------------------------------------------------------------------
(* The inductive invariant.                                                 *)

\* The number of calls that the job has made.
Made == Len(Calls(job)) - Len(todo)

\* What is left is the end of the job.
Pending ==
  todo # <<>> =>
    /\ job \in Jobs /\ Len(todo) <= Len(Calls(job))
    /\ \A k \in 1 .. Len(todo) : todo[k] = Calls(job)[Made + k]

\* What a setup or strings job has written is in the memory, unless the shell meddled.
InProgress ==
  todo # <<>> /\ job.tool \in {"setup", "strings"} /\ ~meddled => Found(mem, Writes(job), Made)

\* MAGIC comes last.
Unmarked == todo # <<>> /\ job.tool = "setup" /\ fresh /\ ~meddled => mem[0] # MAGIC
Settled ==
  todo = <<>> /\ job.tool = "setup" /\ fresh /\ ~meddled =>
    mem[0] # MAGIC \/ Done(mem, setupUSB(job))

\* A chip that was deaf when the job began, or has become so since, spoils it.
Hears == deaf => meddled

\* The strings written last, and only the other buttons at work.
StringsOf(j) == j.tool = "strings" /\ wrote = AllStrings(j) /\ Done(mem, writeEEStrings(wrote))
Kept ==
  wrote # Unknown =>
    /\ \E j \in Jobs : StringsOf(j)
    /\ todo # <<>> => job.tool \in {"vidpid", "polarity"}

TypeInv == TypeOK /\ todo \in Seq(CallRecords) /\ shell \in Seq(ShellRecords)
JobInv == Pending /\ InProgress /\ Unmarked /\ Settled /\ Kept /\ Hears
IInv == TypeInv /\ JobInv

LEMMA BootTypes ==
  ASSUME NEW cells \in [Cells -> Bytes]
  PROVE  /\ readEEprom(cells).vid \in Ids /\ readEEprom(cells).pid \in Ids
         /\ readEEprom(cells).s1 \in {0, 1} /\ readEEprom(cells).s2 \in {0, 1}
         /\ readEEprom(cells).overrun \in BOOLEAN
<1>1. Default.vid \in Ids /\ Default.pid \in Ids
  <2>1. DefaultVid \in Nat /\ DefaultVid # 0 /\ DefaultVid < 65536
    BY DEF DefaultVid
  <2>2. DefaultVid \in Ids /\ 255 \in Ids
    BY <2>1, IdRange
  <2>3. QED
    BY <2>2 DEF Default
<1>2. Default.s1 \in {0, 1} /\ Default.s2 \in {0, 1} /\ Default.overrun = FALSE
  BY DEF Default
<1>3. CASE cells[0] # MAGIC
  <2>1. readEEprom(cells) = Default
    BY <1>3, Zenon DEF readEEprom
  <2>2. QED
    BY <1>1, <1>2, <2>1
<1>4. CASE cells[0] = MAGIC
  <2> DEFINE v == Word(cells, 1)
             p == Word(cells, 3)
             o == \E i \in 1 .. 3 : Overruns(cells, i)
             t == [i \in 1 .. 3 |-> BootString(cells, i)]
             r == readEEprom(cells)
  <2>1. r = [vid |-> OrElse(v, Default.vid), pid |-> OrElse(p, Default.pid), strings |-> t,
             s1 |-> Setting(cells[14], Default.s1), s2 |-> Setting(cells[15], Default.s2), overrun |-> o]
    BY <1>4, Zenon DEF readEEprom
  <2>2. v \in Nat /\ v < 65536 /\ p \in Nat /\ p < 65536
    BY CellsHoldBytes
  <2>3. o \in BOOLEAN
    OBVIOUS
  <2> HIDE DEF v, p, o, t, r
  <2>4. OrElse(v, Default.vid) \in Ids /\ OrElse(p, Default.pid) \in Ids
    BY <1>1, <2>2, IdRange DEF OrElse
  <2>5. Setting(cells[14], Default.s1) \in {0, 1} /\ Setting(cells[15], Default.s2) \in {0, 1}
    BY <1>2 DEF Setting
  <2>6. r.vid \in Ids /\ r.pid \in Ids /\ r.s1 \in {0, 1} /\ r.s2 \in {0, 1}
    BY <2>1, <2>4, <2>5
  <2>7. r.overrun = o
    BY <2>1, Zenon
  <2>8. r.overrun \in BOOLEAN
    BY <2>3, <2>7, Zenon
  <2>9. QED
    BY <2>6, <2>8 DEF r
<1>5. QED
  BY <1>3, <1>4

LEMMA ErasedIsMemory == AllErased \in [Cells -> Bytes] /\ AllErased[0] # MAGIC
<1>1. 0 \in Cells
  BY Layout DEF Cells
<1>2. Erased # MAGIC /\ Erased \in Bytes
  BY MapAssumption DEF MAGIC
<1>3. QED
  BY <1>1, <1>2 DEF AllErased

LEMMA NoJobTool == NoJob.tool = "none" /\ NoJob.tool \notin {"setup", "strings", "vidpid", "polarity", "erase"}
BY DEF NoJob

LEMMA InitInv == Init => IInv
<1> SUFFICES ASSUME Init PROVE IInv
  OBVIOUS
<1>1. /\ mem = AllErased /\ job = NoJob /\ todo = <<>> /\ begun = 0 /\ fresh = TRUE /\ wrote = Unknown
      /\ shell = <<>> /\ given = 0 /\ deaf = FALSE /\ meddled = FALSE
      /\ device = readEEprom(mem)
  BY DEF Init
<1>2. MaxJobs \in Nat /\ MaxCommands \in Nat
  BY JobsAssumption
<1>3. TypeOK
  <2>1. mem \in [Cells -> Bytes]
    BY <1>1, ErasedIsMemory
  <2>2. /\ device.vid \in Ids /\ device.pid \in Ids /\ device.s1 \in {0, 1} /\ device.s2 \in {0, 1}
        /\ device.overrun \in BOOLEAN
    BY <1>1, <2>1, BootTypes
  <2>3. begun \in 0 .. MaxJobs /\ given \in 0 .. MaxCommands
    BY <1>1, <1>2
  <2>4. (\A k \in DOMAIN todo : todo[k] \in CallRecords) /\ \A k \in DOMAIN shell : shell[k] \in CallRecords
    BY <1>1
  <2>5. fresh \in BOOLEAN /\ meddled \in BOOLEAN /\ deaf \in BOOLEAN
    BY <1>1
  <2>6. QED
    BY <1>1, <2>1, <2>2, <2>3, <2>4, <2>5 DEF TypeOK
<1>4. todo \in Seq(CallRecords) /\ shell \in Seq(ShellRecords)
  BY <1>1
<1>5. Pending /\ InProgress /\ Unmarked /\ Settled /\ Kept /\ Hears
  BY <1>1, NoJobTool DEF Pending, InProgress, Unmarked, Settled, Kept, Hears
<1>6. QED
  BY <1>3, <1>4, <1>5 DEF IInv, TypeInv, JobInv

-----------------------------------------------------------------------------
(* Types.                                                                   *)

LEMMA MoreCalls ==
  /\ \A q \in Seq(CallRecords) : \A k \in DOMAIN q : q[k] \in CallRecords
  /\ \A q \in Seq(ShellRecords) : q \in Seq(CallRecords)
<1>1. ShellRecords \subseteq CallRecords
  BY DEF ShellRecords
<1>2. QED
  BY <1>1

LEMMA NoCalls == <<>> \in Seq(CallRecords) /\ <<>> \in Seq(ShellRecords)
OBVIOUS

LEMMA TailIsCalls ==
  /\ \A q \in Seq(CallRecords) : q # <<>> => Tail(q) \in Seq(CallRecords) /\ Head(q) \in CallRecords
  /\ \A q \in Seq(ShellRecords) : q # <<>> => Tail(q) \in Seq(ShellRecords) /\ Head(q) \in ShellRecords
BY HeadTailProperties

LEMMA RestIsCalls ==
  /\ \A q \in Seq(CallRecords) : Rest(q) \subseteq Seq(CallRecords)
  /\ \A q \in Seq(ShellRecords) : Rest(q) \subseteq Seq(ShellRecords)
BY TailIsCalls DEF Rest

LEMMA LeftIsMemory ==
  ASSUME TypeInv, NEW c \in CallRecords
  PROVE  /\ Left(c) \in [Cells -> Bytes]
         /\ deaf => Left(c) = mem
         /\ ~deaf => Left(c) = After(mem, c)
<1>1. mem \in [Cells -> Bytes] /\ deaf \in BOOLEAN
  BY DEF TypeInv, TypeOK
<1>2. QED
  BY <1>1, AfterIsMemory DEF Left

\* The variables that keep their types when the others do.
LEMMA TypesFollow ==
  ASSUME TypeInv, mem' \in [Cells -> Bytes],
         todo' \in Seq(CallRecords), shell' \in Seq(ShellRecords),
         meddled' \in BOOLEAN, deaf' \in BOOLEAN, fresh' \in BOOLEAN,
         job' \in Jobs \cup {NoJob}, begun' \in 0 .. MaxJobs, given' \in 0 .. MaxCommands,
         device' = device \/ device' = readEEprom(mem)
  PROVE  TypeInv'
<1>1. (\A k \in DOMAIN todo' : todo'[k] \in CallRecords) /\ \A k \in DOMAIN shell' : shell'[k] \in CallRecords
  BY MoreCalls
<1>2. /\ device'.vid \in Ids /\ device'.pid \in Ids /\ device'.s1 \in {0, 1} /\ device'.s2 \in {0, 1}
      /\ device'.overrun \in BOOLEAN
  <2>1. CASE device' = device
    BY <2>1, Zenon DEF TypeInv, TypeOK
  <2>2. CASE device' = readEEprom(mem)
    <3>1. mem \in [Cells -> Bytes]
      BY DEF TypeInv, TypeOK
    <3>2. QED
      BY <2>2, <3>1, BootTypes, Zenon
  <2>3. QED
    BY <2>1, <2>2
<1>3. QED
  BY <1>1, <1>2, Zenon DEF TypeInv, TypeOK

LEMMA NowTyped ==
  ASSUME TypeInv
  PROVE  /\ mem \in [Cells -> Bytes] /\ todo \in Seq(CallRecords) /\ shell \in Seq(ShellRecords)
         /\ meddled \in BOOLEAN /\ deaf \in BOOLEAN /\ fresh \in BOOLEAN
         /\ job \in Jobs \cup {NoJob} /\ begun \in 0 .. MaxJobs /\ given \in 0 .. MaxCommands
BY Zenon DEF TypeInv, TypeOK

LEMMA NextTypes == TypeInv /\ [Next]_vars => TypeInv'
<1> SUFFICES ASSUME TypeInv, [Next]_vars PROVE TypeInv'
  OBVIOUS
<1>1. ASSUME NEW j \in Jobs, Begin(j) PROVE TypeInv'
  <2>1. /\ todo' = Calls(j) /\ begun < MaxJobs /\ begun' = begun + 1 /\ job' = j
        /\ mem' = mem /\ device' = device /\ fresh' = (mem[0] # MAGIC) /\ meddled' = deaf
        /\ shell' = shell /\ given' = given /\ deaf' = deaf
    BY <1>1 DEF Begin
  <2>2. todo' \in Seq(CallRecords)
    BY <2>1, PlannedCalls
  <2>3. begun' \in 0 .. MaxJobs
    BY <2>1, JobsAssumption DEF TypeInv, TypeOK
  <2>4. fresh' \in BOOLEAN
    BY <2>1, Zenon
  <2>5. QED
    BY <2>1, <2>2, <2>3, <2>4, NowTyped, TypesFollow, Zenon
<1>2. ASSUME NEW c \in Commands, Command(c) PROVE TypeInv'
  <2>1. /\ shell' = c /\ given < MaxCommands /\ given' = given + 1
        /\ mem' = mem /\ job' = job /\ todo' = todo /\ begun' = begun /\ fresh' = fresh
        /\ deaf' = deaf /\ device' = device /\ meddled' = meddled
    BY <1>2 DEF Command, host
  <2>2. shell' \in Seq(ShellRecords)
    BY <2>1, CommandsAre
  <2>3. given' \in 0 .. MaxCommands
    BY <2>1, JobsAssumption DEF TypeInv, TypeOK
  <2>4. QED
    BY <2>1, <2>2, <2>3, NowTyped, TypesFollow, Zenon
<1>3. CASE DriverCall
  <2>1. /\ todo # <<>> /\ todo' = Tail(todo) /\ mem' = Left(Head(todo))
        /\ job' = job /\ begun' = begun /\ shell' = shell /\ given' = given /\ deaf' = deaf
        /\ device' = device /\ fresh' = fresh /\ meddled' = meddled
    BY <1>3 DEF DriverCall
  <2>2. todo' \in Seq(CallRecords) /\ Head(todo) \in CallRecords
    BY <2>1, NowTyped, TailIsCalls
  <2>3. mem' \in [Cells -> Bytes]
    BY <2>1, <2>2, LeftIsMemory
  <2>4. QED
    BY <2>1, <2>2, <2>3, NowTyped, TypesFollow, Zenon
<1>4. CASE ShellCall
  <2>1. /\ shell # <<>> /\ shell' = Tail(shell) /\ mem' = Left(Head(shell))
        /\ meddled' = (meddled \/ (Programs(Head(shell)) /\ todo # <<>>))
        /\ job' = job /\ todo' = todo /\ begun' = begun /\ given' = given /\ deaf' = deaf
        /\ device' = device /\ fresh' = fresh
    BY <1>4 DEF ShellCall, host
  <2>2. shell' \in Seq(ShellRecords) /\ Head(shell) \in CallRecords
    BY <2>1, NowTyped, TailIsCalls DEF ShellRecords
  <2>3. mem' \in [Cells -> Bytes]
    BY <2>1, <2>2, LeftIsMemory
  <2>4. meddled' \in BOOLEAN
    BY <2>1, Zenon
  <2>5. QED
    BY <2>1, <2>2, <2>3, <2>4, NowTyped, TypesFollow, Zenon
<1>5. CASE Overlap
  <2>1. /\ shell' \in Rest(shell) /\ todo' \in Rest(todo) /\ mem' \in Garbled
        /\ deaf' \in BOOLEAN /\ meddled' = TRUE
        /\ job' = job /\ begun' = begun /\ given' = given /\ device' = device /\ fresh' = fresh
    BY <1>5 DEF Overlap
  <2>2. shell' \in Seq(ShellRecords) /\ todo' \in Seq(CallRecords)
    BY <2>1, NowTyped, RestIsCalls
  <2>3. mem' \in [Cells -> Bytes] /\ meddled' \in BOOLEAN
    BY <2>1, JobsAssumption
  <2>4. QED
    BY <2>1, <2>2, <2>3, NowTyped, TypesFollow, Zenon
<1>6. CASE ToolDies
  <2>1. /\ mem' = mem /\ job' = job /\ begun' = begun /\ device' = device /\ fresh' = fresh
        /\ todo' = <<>> /\ shell' = shell /\ given' = given /\ deaf' = deaf /\ meddled' = meddled
    BY <1>6 DEF ToolDies
  <2>2. QED
    BY <2>1, NoCalls, NowTyped, TypesFollow, Zenon
<1>7. CASE Reboot
  <2>1. /\ mem' = mem /\ job' = job /\ begun' = begun /\ device' = readEEprom(mem) /\ fresh' = fresh
        /\ todo' = <<>> /\ shell' = <<>> /\ given' = given /\ deaf' = FALSE /\ meddled' = meddled
    BY <1>7 DEF Reboot
  <2>2. deaf' \in BOOLEAN
    BY <2>1
  <2>3. QED
    BY <2>1, <2>2, NoCalls, NowTyped, TypesFollow, Zenon
<1>8. CASE UNCHANGED vars
  BY <1>8, Zenon DEF vars, host, TypeInv, TypeOK
<1>9. QED
  BY <1>1, <1>2, <1>3, <1>4, <1>5, <1>6, <1>7, <1>8 DEF Next

-----------------------------------------------------------------------------
(* A job begins.                                                            *)

LEMMA BeginInv == ASSUME IInv, NEW j \in Jobs, Begin(j) PROVE JobInv'
<1>1. /\ todo' = Calls(j) /\ job' = j /\ mem' = mem /\ fresh' = (mem[0] # MAGIC)
      /\ meddled' = deaf /\ deaf' = deaf
      /\ wrote' = IF j.tool \in {"setup", "strings", "erase"} THEN Unknown ELSE wrote
  BY DEF Begin
<1>2. Calls(j) \in Seq(CallRecords) /\ Len(Calls(j)) \in Nat
  BY PlannedCalls
<1>3. Made' = 0
  BY <1>1, <1>2 DEF Made
<1>4. Pending'
  <2>1. \A k \in 1 .. Len(todo') : todo'[k] = Calls(job')[Made' + k]
    BY <1>1, <1>2, <1>3
  <2>2. Len(todo') <= Len(Calls(job')) /\ job' \in Jobs
    BY <1>1, <1>2
  <2>3. QED
    BY <2>1, <2>2 DEF Pending
<1>5. InProgress'
  <2>1. Found(mem', Writes(job'), 0)
    BY DEF Found
  <2>2. QED
    BY <1>3, <2>1 DEF InProgress
<1>6. Unmarked'
  BY <1>1, Zenon DEF Unmarked
<1>7. Settled'
  <2>1. ASSUME j.tool = "setup" PROVE todo' # <<>>
    <3>1. Len(Calls(j)) = Len(setupUSB(j)) /\ Len(setupUSB(j)) = Len(SetupBody(j)) + 1 /\ Len(SetupBody(j)) \in Nat
      BY <2>1, PlannedCalls, WritesAre, SetupApart
    <3>2. Len(Calls(j)) # 0
      BY <3>1
    <3>3. QED
      BY <1>1, <3>2
  <2>2. QED
    BY <1>1, <2>1, Zenon DEF Settled
<1>8. Kept'
  <2> SUFFICES ASSUME wrote' # Unknown
               PROVE  (\E i \in Jobs : StringsOf(i)') /\ job'.tool \in {"vidpid", "polarity"}
    BY DEF Kept
  <2>1. j.tool \notin {"setup", "strings", "erase"} /\ wrote' = wrote
    BY <1>1
  <2>2. PICK i \in Jobs : StringsOf(i)
    BY <2>1 DEF IInv, JobInv, Kept
  <2>3. StringsOf(i)'
    BY <1>1, <2>1, <2>2 DEF StringsOf
  <2>4. job'.tool \in {"vidpid", "polarity"}
    BY <1>1, <2>1, JobKinds
  <2>5. QED
    BY <2>3, <2>4
<1>9. Hears'
  BY <1>1, Zenon DEF Hears
<1>10. QED
  BY <1>4, <1>5, <1>6, <1>7, <1>8, <1>9, Zenon DEF JobInv

-----------------------------------------------------------------------------
(* A job makes a call.                                                      *)

LEMMA CallPlace ==
  ASSUME IInv, todo # <<>>, todo' = Tail(todo), job' = job
  PROVE  /\ job \in Jobs
         /\ Made \in Nat /\ Made < Len(Calls(job)) /\ Made' = Made + 1 /\ Len(Calls(job)) \in Nat
         /\ Head(todo) = Calls(job)[Made + 1] /\ Head(todo) \in CallRecords
         /\ todo' = <<>> <=> Made + 1 = Len(Calls(job))
         /\ todo' = <<>> <=> Len(todo) = 1
         /\ Pending'
<1>1. /\ Head(todo) = todo[1] /\ Head(todo) \in CallRecords
      /\ todo' \in Seq(CallRecords) /\ Len(todo') = Len(todo) - 1 /\ Len(todo) \in Nat /\ Len(todo) >= 1
      /\ \A k \in 1 .. Len(todo') : todo'[k] = todo[k + 1]
  <2>1. todo \in Seq(CallRecords)
    BY DEF IInv, TypeInv
  <2>2. /\ Head(todo) \in CallRecords /\ Tail(todo) \in Seq(CallRecords) /\ Len(Tail(todo)) = Len(todo) - 1
        /\ \A k \in 1 .. Len(Tail(todo)) : Tail(todo)[k] = todo[k + 1]
    BY <2>1, HeadTailProperties
  <2>3. Head(todo) = todo[1] /\ Len(todo) \in Nat /\ Len(todo) >= 1
    BY <2>1
  <2>4. QED
    BY <2>2, <2>3
<1>2. /\ job \in Jobs /\ Len(todo) <= Len(Calls(job))
      /\ \A k \in 1 .. Len(todo) : todo[k] = Calls(job)[Made + k]
  BY DEF IInv, JobInv, Pending
<1>3. Calls(job) \in Seq(CallRecords) /\ Len(Calls(job)) \in Nat
  BY <1>2, PlannedCalls
<1>4. Made \in Nat /\ Made < Len(Calls(job)) /\ Made' = Made + 1 /\ Made = Len(Calls(job)) - Len(todo)
  BY <1>1, <1>2, <1>3 DEF Made
<1>5. todo' = <<>> <=> Len(todo') = 0
  <2>1. todo' \in Seq(CallRecords)
    BY <1>1
  <2>2. QED
    BY <2>1, EmptySeq
<1>6. Head(todo) = Calls(job)[Made + 1]
  BY <1>1, <1>2
<1>7. Pending'
  <2>1. ASSUME NEW k \in 1 .. Len(todo') PROVE todo'[k] = Calls(job')[Made' + k]
    <3>1. todo'[k] = todo[k + 1] /\ k + 1 \in 1 .. Len(todo)
      BY <1>1
    <3>2. todo[k + 1] = Calls(job)[Made + (k + 1)]
      BY <1>2, <3>1
    <3>3. Made + (k + 1) = Made' + k
      BY <1>4
    <3>4. QED
      BY <3>1, <3>2, <3>3
  <2>2. job' \in Jobs /\ Len(todo') <= Len(Calls(job'))
    BY <1>1, <1>2, <1>3
  <2>3. QED
    BY <2>1, <2>2 DEF Pending
<1>8. QED
  BY <1>1, <1>2, <1>3, <1>4, <1>5, <1>6, <1>7

LEMMA CallStep ==
  ASSUME DriverCall
  PROVE  /\ todo # <<>> /\ todo' = Tail(todo) /\ job' = job /\ mem' = Left(Head(todo))
         /\ fresh' = fresh /\ meddled' = meddled /\ deaf' = deaf
         /\ wrote' = IF Len(todo) = 1 /\ job.tool = "strings" /\ ~meddled THEN AllStrings(job) ELSE wrote
BY DEF DriverCall

\* What the call of a job that writes does to the memory.
LEMMA CallWrites ==
  ASSUME IInv, DriverCall, ~deaf, job.tool # "erase"
  PROVE  /\ Writes(job) \in Seq(Pair) /\ Len(Calls(job)) = Len(Writes(job))
         /\ Made + 1 \in 1 .. Len(Writes(job))
         /\ mem' = [mem EXCEPT ![Cell(Writes(job)[Made + 1][1])] = Writes(job)[Made + 1][2]]
<1> DEFINE w == Writes(job)
           n == Made
<1>1. /\ job \in Jobs /\ n \in Nat /\ n < Len(Calls(job)) /\ Len(Calls(job)) \in Nat
      /\ Head(todo) = Calls(job)[n + 1] /\ Head(todo) \in CallRecords
  BY CallStep, CallPlace
<1>2. w \in Seq(Pair) /\ Len(Calls(job)) = Len(w)
  BY <1>1, PlannedWrites, PlannedCalls
<1>3. \A k \in 1 .. Len(w) : Calls(job)[k] = WriteCall(w[k])
  BY <1>1, PlannedCalls
<1>7. mem \in [Cells -> Bytes] /\ mem' = After(mem, Head(todo))
  BY <1>1, CallStep, LeftIsMemory, NowTyped DEF IInv
<1> HIDE DEF w, n
<1>4. n + 1 \in 1 .. Len(w)
  BY <1>1, <1>2
<1>5. Head(todo) = WriteCall(w[n + 1])
  BY <1>1, <1>3, <1>4
<1>6. Head(todo).op = "WRITE" /\ Head(todo).addr = w[n + 1][1] /\ Head(todo).data = w[n + 1][2]
  BY <1>5 DEF WriteCall
<1>8. mem' = [mem EXCEPT ![Cell(Head(todo).addr)] = Head(todo).data]
  BY <1>1, <1>6, <1>7, AfterIsMemory
<1>9. mem' = [mem EXCEPT ![Cell(w[n + 1][1])] = w[n + 1][2]]
  BY <1>6, <1>8
<1>10. QED
  BY <1>2, <1>4, <1>9 DEF w, n

LEMMA CallFinds ==
  ASSUME IInv, DriverCall, ~meddled, job.tool \in {"setup", "strings"}
  PROVE  /\ Found(mem', Writes(job), Made + 1)
         /\ todo' = <<>> => Done(mem', Writes(job))
<1>1. /\ job \in Jobs /\ Made \in Nat /\ Made < Len(Calls(job))
      /\ todo' = <<>> <=> Made + 1 = Len(Calls(job))
  BY CallStep, CallPlace
<1>2. ~deaf
  BY Zenon DEF IInv, JobInv, Hears
<1>3. /\ Len(Calls(job)) = Len(Writes(job))
      /\ mem' = [mem EXCEPT ![Cell(Writes(job)[Made + 1][1])] = Writes(job)[Made + 1][2]]
  BY <1>2, CallWrites
<1>4. Apart(Writes(job), Cells)
  BY <1>1, PlannedWrites
<1>5. Found(mem, Writes(job), Made) /\ mem \in [Cells -> Bytes]
  <2>1. InProgress /\ todo # <<>> /\ TypeInv
    BY CallStep, Zenon DEF IInv, JobInv
  <2>2. QED
    BY <2>1, NowTyped, Zenon DEF InProgress
<1>6. Made < Len(Writes(job))
  BY <1>1, <1>3
<1>7. Found(mem', Writes(job), Made + 1)
  BY <1>1, <1>3, <1>4, <1>5, <1>6, FindOneMore
<1>8. QED
  BY <1>1, <1>3, <1>7 DEF Done

LEMMA CallUnmarked == ASSUME IInv, DriverCall PROVE Unmarked'
<1> SUFFICES ASSUME todo' # <<>>, job'.tool = "setup", fresh', ~meddled' PROVE mem'[0] # MAGIC
  BY Zenon DEF Unmarked
<1> DEFINE w == Writes(job)
           n == Made
<1>0. todo # <<>> /\ job' = job /\ job.tool = "setup" /\ fresh /\ ~meddled /\ ~deaf
  BY CallStep, Zenon DEF IInv, JobInv, Hears
<1>1. /\ job \in Jobs /\ n \in Nat /\ n + 1 < Len(Calls(job))
  BY CallStep, CallPlace
<1>2. /\ w \in Seq(Pair) /\ Len(Calls(job)) = Len(w) /\ n + 1 \in 1 .. Len(w)
      /\ mem' = [mem EXCEPT ![Cell(w[n + 1][1])] = w[n + 1][2]]
  BY <1>0, CallWrites
<1>3. w = setupUSB(job) /\ Apart(w, Cells)
  BY <1>0, <1>1, WritesAre, SetupApart
<1>4. Len(w) \in 1 .. Len(w) /\ w[Len(w)][1] = 0
  BY <1>0, <1>1, <1>3, SetupApart
<1>5. mem[0] # MAGIC /\ mem \in [Cells -> Bytes]
  <2>1. Unmarked /\ TypeInv
    BY Zenon DEF IInv, JobInv
  <2>2. QED
    BY <1>0, <2>1, NowTyped, Zenon DEF Unmarked
<1> HIDE DEF w, n
<1>6. w[n + 1][1] # 0
  BY <1>1, <1>2, <1>3, <1>4 DEF Apart
<1>7. Cell(w[n + 1][1]) = w[n + 1][1] /\ 0 \in Cells
  BY <1>2, <1>3, CellIsAddress, Layout DEF Apart, Cells
<1>8. QED
  BY <1>2, <1>5, <1>6, <1>7

\* The small jobs leave the strings alone.
LEMMA CallSpares ==
  ASSUME IInv, DriverCall, job.tool \in {"vidpid", "polarity"}, NEW j \in Jobs, StringsOf(j)
  PROVE  Done(mem', writeEEStrings(wrote))
<1> DEFINE w == Writes(job)
           n == Made
           v == writeEEStrings(wrote)
<1>0. CASE deaf
  <2>1. Head(todo) \in CallRecords
    BY CallStep, CallPlace
  <2>2. mem' = mem
    BY <1>0, <2>1, CallStep, LeftIsMemory DEF IInv
  <2>3. QED
    BY <2>2 DEF StringsOf
<1>1. Apart(v, StringCells) /\ 18 < EepromSize
  BY StringsFit, StringsApart, StringsRoom DEF StringsOf
<1>2. job \in Jobs /\ Apart(w, OtherCells)
  BY CallStep, CallPlace, PlannedWrites
<1>3. CASE ~deaf
  <2>1. /\ n + 1 \in 1 .. Len(w)
        /\ mem' = [mem EXCEPT ![Cell(w[n + 1][1])] = w[n + 1][2]]
    BY <1>3, CallWrites
  <2>2. mem \in [Cells -> Bytes] /\ Done(mem, v)
    BY NowTyped DEF IInv, StringsOf
  <2> HIDE DEF w, n, v
  <2>3. /\ \A a \in OtherCells : Cell(a) = a
        /\ \A a \in StringCells : Cell(a) = a /\ a \in Cells /\ a \notin OtherCells
    BY <1>1, CellIsAddress, Layout DEF StringCells, OtherCells, Cells
  <2>4. w[n + 1][1] \in OtherCells
    BY <1>2, <2>1 DEF Apart
  <2>5. ASSUME NEW k \in 1 .. Len(v) PROVE mem'[Cell(v[k][1])] = v[k][2]
    <3>1. v[k][1] \in StringCells
      BY <1>1 DEF Apart
    <3>2. mem[Cell(v[k][1])] = v[k][2]
      BY <2>2 DEF Done, Found
    <3>3. QED
      BY <2>1, <2>2, <2>3, <2>4, <3>1, <3>2
  <2>6. QED
    BY <2>5 DEF Done, Found, v
<1>4. QED
  BY <1>0, <1>3

LEMMA CallInv == ASSUME IInv, DriverCall PROVE JobInv'
<1>1. /\ job \in Jobs /\ job' = job /\ Made' = Made + 1
      /\ todo' = <<>> <=> Len(todo) = 1
      /\ todo # <<>> /\ fresh' = fresh /\ meddled' = meddled /\ deaf' = deaf
      /\ wrote' = IF Len(todo) = 1 /\ job.tool = "strings" /\ ~meddled THEN AllStrings(job) ELSE wrote
      /\ Pending'
  BY CallStep, CallPlace
<1>2. Unmarked'
  BY CallUnmarked
<1>3. InProgress'
  <2>1. ASSUME job.tool \in {"setup", "strings"}, ~meddled PROVE Found(mem', Writes(job'), Made')
    BY <1>1, <2>1, CallFinds
  <2>2. QED
    BY <1>1, <2>1, Zenon DEF InProgress
<1>4. Settled'
  <2>1. ASSUME todo' = <<>>, job.tool = "setup", ~meddled PROVE Done(mem', setupUSB(job'))
    <3>1. Writes(job) = setupUSB(job)
      BY <2>1, WritesAre
    <3>2. QED
      BY <1>1, <2>1, <3>1, CallFinds
  <2>2. QED
    BY <1>1, <2>1, Zenon DEF Settled
<1>5. Kept'
  <2>1. CASE Len(todo) = 1 /\ job.tool = "strings" /\ ~meddled
    <3>1. Writes(job) = writeEEStrings(AllStrings(job)) /\ wrote' = AllStrings(job) /\ todo' = <<>>
      BY <1>1, <2>1, WritesAre
    <3>2. Done(mem', writeEEStrings(wrote'))
      BY <2>1, <3>1, CallFinds
    <3>3. \E j \in Jobs : StringsOf(j)'
      <4>1. ASSUME NEW j \in Jobs, j = job PROVE StringsOf(j)'
        BY <1>1, <2>1, <3>1, <3>2, <4>1 DEF StringsOf
      <4>2. QED
        BY <1>1, <4>1
    <3>4. QED
      BY <3>1, <3>3 DEF Kept
  <2>2. CASE ~(Len(todo) = 1 /\ job.tool = "strings" /\ ~meddled)
    <3> SUFFICES ASSUME wrote' # Unknown
                 PROVE  (\E j \in Jobs : StringsOf(j)') /\ job'.tool \in {"vidpid", "polarity"}
      BY DEF Kept
    <3>1. wrote' = wrote
      BY <1>1, <2>2
    <3>2. job.tool \in {"vidpid", "polarity"} /\ \E j \in Jobs : StringsOf(j)
      BY <1>1, <3>1 DEF IInv, JobInv, Kept
    <3>3. PICK j \in Jobs : StringsOf(j)
      BY <3>2
    <3>4. Done(mem', writeEEStrings(wrote))
      BY <3>2, <3>3, CallSpares
    <3>5. StringsOf(j)'
      BY <3>1, <3>3, <3>4 DEF StringsOf
    <3>6. QED
      BY <1>1, <3>2, <3>5
  <2>3. QED
    BY <2>1, <2>2
<1>6. Hears'
  BY <1>1, Zenon DEF Hears, IInv, JobInv
<1>7. QED
  BY <1>1, <1>2, <1>3, <1>4, <1>5, <1>6, Zenon DEF JobInv

-----------------------------------------------------------------------------
(* The other steps.                                                         *)

\* A step that leaves the job, its calls and the memory alone.
LEMMA SameJob ==
  ASSUME IInv, job' = job, todo' = todo, mem' = mem, fresh' = fresh, wrote' = wrote,
         meddled' = meddled, deaf' = deaf
  PROVE  JobInv'
<1>1. Made' = Made
  BY DEF Made
<1>2. Pending' /\ InProgress' /\ Unmarked' /\ Settled' /\ Hears'
  BY <1>1, Zenon DEF IInv, JobInv, Pending, InProgress, Unmarked, Settled, Hears
<1>3. Kept'
  <2>1. ASSUME NEW j \in Jobs, StringsOf(j) PROVE StringsOf(j)'
    BY <2>1 DEF StringsOf
  <2>2. QED
    BY <2>1, Zenon DEF IInv, JobInv, Kept
<1>4. QED
  BY <1>2, <1>3, Zenon DEF JobInv

\* A call of the shell in the middle of a job spoils it, and after it spares a setup.
LEMMA ShellInv == ASSUME IInv, ShellCall PROVE JobInv'
<1>1. /\ shell # <<>> /\ mem' = Left(Head(shell)) /\ job' = job /\ todo' = todo /\ fresh' = fresh
      /\ deaf' = deaf /\ wrote' = IF Programs(Head(shell)) THEN Unknown ELSE wrote
      /\ meddled' = (meddled \/ (Programs(Head(shell)) /\ todo # <<>>))
  BY DEF ShellCall, host
<1>2. Head(shell) \in ShellRecords /\ Head(shell) \in CallRecords
  BY <1>1, NowTyped, TailIsCalls DEF IInv, ShellRecords
<1>3. mem \in [Cells -> Bytes] /\ meddled \in BOOLEAN
  BY NowTyped DEF IInv
<1>4. mem' = mem \/ mem' = After(mem, Head(shell))
  BY <1>1, <1>2, LeftIsMemory DEF IInv
<1>5. CASE ~Programs(Head(shell))
  <2>1. After(mem, Head(shell)) = mem
    <3>1. Head(shell).op \notin {"WRITE", "ERASE", "ERAL"}
      BY <1>5 DEF Programs
    <3>2. QED
      BY <3>1, Zenon DEF After
  <2>2. mem' = mem /\ wrote' = wrote /\ meddled' = meddled
    BY <1>1, <1>3, <1>4, <1>5, <2>1, Zenon
  <2>3. QED
    BY <1>1, <2>2, SameJob
<1>6. CASE Programs(Head(shell))
  <2>1. wrote' = Unknown /\ (todo # <<>> => meddled') /\ (~meddled' => ~meddled)
    BY <1>1, <1>6, Zenon
  <2>2. Made' = Made
    BY <1>1 DEF Made
  <2>3. Pending' /\ InProgress' /\ Unmarked' /\ Kept' /\ Hears'
    BY <1>1, <2>1, <2>2, Zenon DEF IInv, JobInv, Pending, InProgress, Unmarked, Kept, Hears
  <2>4. Settled'
    <3> SUFFICES ASSUME todo' = <<>>, job'.tool = "setup", fresh', ~meddled'
                 PROVE  mem'[0] # MAGIC \/ Done(mem', setupUSB(job'))
      BY Zenon DEF Settled
    <3>1. mem[0] # MAGIC \/ Done(mem, setupUSB(job))
      BY <1>1, <2>1, Zenon DEF IInv, JobInv, Settled
    <3>2. job \in Jobs /\ job.tool = "setup"
      BY <1>1, NowTyped, NoJobTool DEF IInv
    <3>3. After(mem, Head(shell))[0] # MAGIC \/ Done(After(mem, Head(shell)), setupUSB(job))
      BY <1>2, <1>3, <3>1, <3>2, ShellSpares
    <3>4. QED
      BY <1>1, <1>4, <3>1, <3>3, Zenon
  <2>5. QED
    BY <2>3, <2>4, Zenon DEF JobInv
<1>7. QED
  BY <1>5, <1>6

LEMMA OverlapInv == ASSUME IInv, Overlap PROVE JobInv'
<1>1. todo' \in Rest(todo) /\ job' = job /\ meddled' = TRUE /\ wrote' = Unknown
  BY DEF Overlap
<1>2. Pending'
  <2>1. CASE todo' = todo
    <3>1. Made' = Made
      BY <1>1, <2>1 DEF Made
    <3>2. QED
      BY <1>1, <2>1, <3>1, Zenon DEF IInv, JobInv, Pending
  <2>2. CASE todo # <<>> /\ todo' = Tail(todo)
    BY <1>1, <2>2, CallPlace
  <2>3. QED
    BY <1>1, <2>1, <2>2, Zenon DEF Rest
<1>3. InProgress' /\ Unmarked' /\ Settled' /\ Kept' /\ Hears'
  BY <1>1, Zenon DEF InProgress, Unmarked, Settled, Kept, Hears
<1>4. QED
  BY <1>2, <1>3, Zenon DEF JobInv

\* The job is cut short.
LEMMA CutInv == ASSUME IInv, ToolDies \/ Reboot PROVE JobInv'
<1>1. /\ todo' = <<>> /\ mem' = mem /\ wrote' = wrote /\ job' = job /\ fresh' = fresh
      /\ meddled' = meddled /\ (deaf' => deaf)
  BY DEF ToolDies, Reboot
<1>2. Pending' /\ InProgress' /\ Unmarked' /\ Hears'
  BY <1>1, Zenon DEF Pending, InProgress, Unmarked, Hears, IInv, JobInv
<1>3. Settled'
  BY <1>1, Zenon DEF Settled, IInv, JobInv, Unmarked
<1>4. Kept'
  <2>1. ASSUME NEW j \in Jobs, StringsOf(j) PROVE StringsOf(j)'
    BY <1>1, <2>1 DEF StringsOf
  <2>2. QED
    BY <1>1, <2>1, Zenon DEF IInv, JobInv, Kept
<1>5. QED
  BY <1>2, <1>3, <1>4, Zenon DEF JobInv

-----------------------------------------------------------------------------
(* The theorems.                                                            *)

LEMMA NextInv == IInv /\ [Next]_vars => IInv'
<1> SUFFICES ASSUME IInv, [Next]_vars PROVE IInv'
  OBVIOUS
<1>1. TypeInv'
  BY NextTypes DEF IInv
<1>2. ASSUME NEW j \in Jobs, Begin(j) PROVE JobInv'
  BY <1>2, BeginInv
<1>3. ASSUME NEW c \in Commands, Command(c) PROVE JobInv'
  BY <1>3, SameJob DEF Command, host
<1>4. ASSUME DriverCall PROVE JobInv'
  BY <1>4, CallInv
<1>5. ASSUME ShellCall PROVE JobInv'
  BY <1>5, ShellInv
<1>6. ASSUME Overlap PROVE JobInv'
  BY <1>6, OverlapInv
<1>7. ASSUME ToolDies \/ Reboot PROVE JobInv'
  BY <1>7, CutInv
<1>8. ASSUME UNCHANGED vars PROVE JobInv'
  BY <1>8, SameJob DEF vars, host
<1>9. QED
  BY <1>1, <1>2, <1>3, <1>4, <1>5, <1>6, <1>7, <1>8, Zenon DEF Next, IInv

LEMMA SpecInv == Spec => []IInv
BY InitInv, NextInv, PTL DEF Spec

\* Whatever tools and shell do, however often they die and whenever the device is
\* restarted, it has an identity in range: readEEprom of app/cdcacm.c.
THEOREM ConfigTypeCorrect == Spec => []TypeOK
<1>1. IInv => TypeOK
  BY DEF IInv, TypeInv
<1>2. QED
  BY <1>1, SpecInv, PTL

LEMMA BootIsAllOrNothing ==
  ASSUME IInv, Reboot, job.tool = "setup", fresh, ~meddled
  PROVE  device' \in {device, Default} \cup Outcomes(job)
<1>1. device' = readEEprom(mem)
  BY DEF Reboot
<1>2. mem[0] # MAGIC \/ Done(mem, setupUSB(job))
  <2>1. Unmarked /\ Settled
    BY DEF IInv, JobInv
  <2>2. QED
    BY <2>1, Zenon DEF Unmarked, Settled
<1>3. CASE mem[0] # MAGIC
  BY <1>1, <1>3, Zenon DEF readEEprom
<1>4. CASE Done(mem, setupUSB(job))
  <2>1. job \in Jobs \cup {NoJob} /\ mem \in [Cells -> Bytes]
    BY NowTyped DEF IInv
  <2>2. job \in Jobs
    BY <2>1, NoJobTool
  <2>3. readEEprom(mem) \in Outcomes(job)
    BY <1>4, <2>1, <2>2, SetupTaken
  <2>4. QED
    BY <1>1, <2>3
<1>5. QED
  BY <1>2, <1>3, <1>4

\* perl/test/setupUSB writes MAGIC last: after whichever byte it dies or the
\* device is restarted, the device has its defaults or all that was asked for,
\* but for the polarities of -s2, unless the shell programs the EEPROM meanwhile.
THEOREM SetupNeverHalf == Spec => SetupIsAllOrNothing
<1>1. IInv /\ [Next]_vars =>
        [job.tool = "setup" /\ fresh /\ ~meddled => device' \in {device, Default} \cup Outcomes(job)]_vars
  <2> SUFFICES ASSUME IInv, [Next]_vars, job.tool = "setup", fresh, ~meddled
               PROVE  device' \in {device, Default} \cup Outcomes(job)
    BY Zenon
  <2>1. CASE Reboot
    BY <2>1, BootIsAllOrNothing, Zenon
  <2>2. CASE ~Reboot
    <3>1. device' = device
      <4>1. ASSUME NEW j \in Jobs, Begin(j) PROVE device' = device
        BY <4>1 DEF Begin
      <4>2. ASSUME NEW c \in Commands, Command(c) PROVE device' = device
        BY <4>2 DEF Command
      <4>3. /\ DriverCall => device' = device
            /\ ShellCall => device' = device
            /\ Overlap => device' = device
            /\ ToolDies => device' = device
        BY DEF DriverCall, ShellCall, Overlap, ToolDies
      <4>4. UNCHANGED vars => device' = device
        BY DEF vars
      <4>5. QED
        BY <2>2, <4>1, <4>2, <4>3, <4>4, Zenon DEF Next
    <3>2. QED
      BY <3>1
  <2>3. QED
    BY <2>1, <2>2
<1>2. QED
  BY <1>1, SpecInv, PTL DEF Spec, SetupIsAllOrNothing

LEMMA KeptReadsBack == IInv => StringsReadBack
<1> SUFFICES ASSUME IInv, wrote # Unknown
             PROVE  /\ StrAddr(wrote, 5) < EepromSize => readEEStrings(mem) = wrote
                    /\ mem[0] = MAGIC =>
                         \A i \in 2 .. 3 : readEEprom(mem).strings[i] =
                                             IF wrote[i] = <<>> THEN Default.strings[i] ELSE wrote[i]
  BY DEF StringsReadBack
<1>1. PICK j \in Jobs : StringsOf(j)
  BY DEF IInv, JobInv, Kept
<1>2. /\ j.tool = "strings" /\ wrote = AllStrings(j) /\ Done(mem, writeEEStrings(wrote))
      /\ mem \in [Cells -> Bytes]
  BY <1>1 DEF StringsOf, IInv, TypeInv, TypeOK
<1>3. /\ Shaped(wrote, 4) /\ StrAddr(wrote, 5) <= EepromSize
      /\ \A i \in 1 .. 3 : Size(wrote, i) < Capacity[i]
  BY <1>2, StringsFit
<1>4. /\ \A i \in 1 .. 3 : BootString(mem, i) = IF wrote[i] = <<>> THEN Default.strings[i] ELSE wrote[i]
      /\ StrAddr(wrote, 5) < EepromSize => \A i \in 1 .. 4 : HostString(mem, i) = wrote[i]
  BY <1>2, <1>3, StringsTaken
<1>5. ASSUME StrAddr(wrote, 5) < EepromSize PROVE readEEStrings(mem) = wrote
  <2>1. readEEStrings(mem) = [i \in 1 .. 4 |-> HostString(mem, i)]
    BY DEF readEEStrings, HostString
  <2>2. wrote = [i \in 1 .. 4 |-> wrote[i]]
    BY <1>2 DEF AllStrings
  <2>3. QED
    BY <1>4, <1>5, <2>1, <2>2
<1>6. ASSUME mem[0] = MAGIC, NEW i \in 2 .. 3 PROVE readEEprom(mem).strings[i] = BootString(mem, i)
  <2> DEFINE t == [k \in 1 .. 3 |-> BootString(mem, k)]
  <2>1. readEEprom(mem).strings = t
    BY <1>6 DEF readEEprom
  <2>2. QED
    BY <2>1
<1>7. QED
  BY <1>4, <1>5, <1>6

\* The strings that the writeStrings button has written undisturbed are the strings
\* that the host reads back and that the device takes at its next start, whatever
\* the other buttons do in between, until the shell programs a cell.
THEOREM StringsKeep == Spec => []StringsReadBack
BY SpecInv, KeptReadsBack, PTL
=============================================================================
