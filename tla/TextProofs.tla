----------------------------- MODULE TextProofs -----------------------------
(***************************************************************************)
(* Text out of and into the debug shell, for every size of word, buffer    *)
(* and queue: what a conversion of Printf prints, and the lines that Shell *)
(* hands to its parser.  Both need induction over data, which is a least   *)
(* number argument here, on a set of numbers instead of a predicate.       *)
(***************************************************************************)
EXTENDS Printf, Shell, FiniteSetTheorems, WellFoundedInduction, TLAPS

-----------------------------------------------------------------------------
(* Induction and recursion on numbers.                                      *)

LEMMA Least == ASSUME NEW S \in SUBSET Nat, S # {} PROVE \E n \in S : \A k \in S : n <= k
<1> DEFINE R == OpToRel(<, Nat)
<1>1. \A k, n \in Nat : k < n => <<k, n>> \in R
  BY DEF OpToRel
<1>2. \E n \in S : \A k \in S : <<k, n>> \notin R
  BY NatLessThanWellFounded, WFMin
<1> HIDE DEF R
<1>3. PICK n \in S : \A k \in S : <<k, n>> \notin R
  BY <1>2
<1>4. \A k \in S : ~(k < n)
  BY <1>1, <1>3
<1>5. QED
  BY <1>3, <1>4

\* A set that holds 0 and with every number up to m the next one holds them all.
LEMMA UpTo ==
  ASSUME NEW m \in Nat, NEW S \in SUBSET Nat, 0 \in S,
         \A n \in S : n < m => n + 1 \in S
  PROVE  0 .. m \subseteq S
<1> DEFINE T == {n \in 0 .. m : n \notin S}
<1> SUFFICES ASSUME T # {} PROVE FALSE
  OBVIOUS
<1>1. T \in SUBSET Nat
  OBVIOUS
<1>2. PICK n \in T : \A k \in T : n <= k
  BY <1>1, Least
<1>3. n \in 1 .. m /\ n \notin S
  BY <1>2
<1>4. n - 1 \in S
  BY <1>2, <1>3
<1> QED
  BY <1>3, <1>4

\* Every recursion on 0 .. m by a function of index and value has a solution.
Solves(g, k, V, c, D) == g \in [0 .. k -> V] /\ g[0] = c /\ \A n \in 1 .. k : g[n] = D[n][g[n - 1]]
LEMMA Recursion ==
  ASSUME NEW m \in Nat, NEW V, NEW c \in V, NEW D \in [1 .. m -> [V -> V]]
  PROVE  \E g : Solves(g, m, V, c, D)
<1> DEFINE S == {k \in Nat : \E g : Solves(g, k, V, c, D)}
<1>1. 0 \in S
  <2>1. Solves([n \in 0 .. 0 |-> c], 0, V, c, D)
    BY DEF Solves
  <2>2. QED
    BY <2>1
<1>2. ASSUME NEW k \in S, k < m PROVE k + 1 \in S
  <2>1. PICK g : Solves(g, k, V, c, D)
    OBVIOUS
  <2> DEFINE h == [n \in 0 .. k + 1 |-> IF n = k + 1 THEN D[k + 1][g[k]] ELSE g[n]]
  <2>2. k \in Nat /\ k + 1 \in 1 .. m /\ g[k] \in V
    BY <1>2, <2>1 DEF Solves
  <2>3. h \in [0 .. k + 1 -> V] /\ h[0] = c
    BY <2>1, <2>2 DEF Solves
  <2>4. ASSUME NEW n \in 1 .. k + 1 PROVE h[n] = D[n][h[n - 1]]
    <3>1. CASE n = k + 1
      BY <2>2, <3>1
    <3>2. CASE n # k + 1
      BY <2>1, <2>2, <3>2 DEF Solves
    <3>3. QED
      BY <3>1, <3>2
  <2>5. Solves(h, k + 1, V, c, D)
    BY <2>3, <2>4 DEF Solves
  <2> HIDE DEF h
  <2> QED
    BY <2>2, <2>5
<1>3. S \in SUBSET Nat
  OBVIOUS
<1> HIDE DEF S
<1>4. 0 .. m \subseteq S
  BY <1>1, <1>2, <1>3, UpTo
<1>5. m \in S
  BY <1>4
<1> QED
  BY <1>5 DEF S

-----------------------------------------------------------------------------
(* Digits.                                                                  *)

Bases == {10, 16}

LEMMA Divides == ASSUME NEW v \in Nat, NEW b \in Bases
                 PROVE  /\ v \div b \in Nat /\ v % b \in 0 .. b - 1
                        /\ v = (v \div b) * b + (v % b)
                        /\ v > 0 => v \div b < v
                        /\ 10 * (v \div b) <= v
<1>1. CASE b = 10
  BY <1>1
<1>2. CASE b = 16
  BY <1>2
<1>3. QED
  BY <1>1, <1>2 DEF Bases

LEMMA QuotientsAre ==
  ASSUME NEW u \in Nat, NEW b \in Bases
  PROVE  /\ Quotients(u, b) \in [0 .. PRINT_BUF_LEN -> Nat] /\ Quotients(u, b)[0] = u
         /\ \A n \in 1 .. PRINT_BUF_LEN : Quotients(u, b)[n] = Quotients(u, b)[n - 1] \div b
<1> DEFINE m == PRINT_BUF_LEN
           q == Quotients(u, b)
           D == [n \in 1 .. m |-> [v \in Nat |-> v \div b]]
           Def(g) == [n \in 0 .. m |-> IF n = 0 THEN u ELSE g[n - 1] \div b]
<1>1. m \in Nat
  BY PrintfAssumption
<1>2. \E g : g = Def(g)
  <2>1. D \in [1 .. m -> [Nat -> Nat]]
    BY Divides
  <2> HIDE DEF D, m
  <2>2. PICK g : Solves(g, m, Nat, u, D)
    BY <1>1, <2>1, Recursion
  <2>3. ASSUME NEW n \in 1 .. m PROVE g[n] = g[n - 1] \div b
    <3>1. n - 1 \in 0 .. m /\ g[n - 1] \in Nat /\ g[n] = D[n][g[n - 1]]
      BY <1>1, <2>2 DEF Solves
    <3>2. D[n] = [v \in Nat |-> v \div b]
      BY DEF D
    <3>3. QED
      BY <3>1, <3>2
  <2>4. g = Def(g)
    BY <2>2, <2>3 DEF Solves
  <2>5. QED
    BY <2>4
<1>3. q = Def(q)
  BY <1>2 DEF Quotients
<1> HIDE DEF m, q
<1>4. q[0] = u /\ \A n \in 1 .. m : q[n] = q[n - 1] \div b
  <2>1. q[0] = u
    BY <1>1, <1>3
  <2>2. ASSUME NEW n \in 1 .. m PROVE q[n] = q[n - 1] \div b
    <3>1. n \in 0 .. m /\ n # 0
      BY <1>1
    <3>2. QED
      BY <1>3, <3>1
  <2>3. QED
    BY <2>1, <2>2
<1>5. \A n \in 0 .. m : q[n] \in Nat
  <2> DEFINE S == {n \in 0 .. m : q[n] \in Nat}
  <2>1. 0 \in S /\ S \in SUBSET Nat
    BY <1>1, <1>4
  <2>2. ASSUME NEW n \in S, n < m PROVE n + 1 \in S
    <3>1. n \in Nat /\ n + 1 \in 1 .. m /\ q[n] \in Nat
      BY <1>1, <2>2
    <3>2. q[n + 1] = q[n] \div b
      BY <1>4, <3>1
    <3>3. q[n + 1] \in Nat
      BY <3>1, <3>2, Divides
    <3>4. QED
      BY <3>1, <3>3
  <2> HIDE DEF S
  <2>3. 0 .. m \subseteq S
    BY <1>1, <2>1, <2>2, UpTo
  <2>4. QED
    BY <2>3 DEF S
<1>6. QED
  BY <1>1, <1>3, <1>4, <1>5 DEF m, q

LEMMA DecimalsAre ==
  /\ Decimals \in [0 .. PRINT_BUF_LEN -> Nat] /\ Decimals[0] = 1
  /\ \A n \in 1 .. PRINT_BUF_LEN : Decimals[n] = 10 * Decimals[n - 1]
<1> DEFINE m == PRINT_BUF_LEN
           D == [n \in 1 .. m |-> [v \in Nat |-> 10 * v]]
           Def(g) == [n \in 0 .. m |-> IF n = 0 THEN 1 ELSE 10 * g[n - 1]]
<1>1. m \in Nat
  BY PrintfAssumption
<1>2. \E g : g = Def(g)
  <2>1. D \in [1 .. m -> [Nat -> Nat]]
    OBVIOUS
  <2> HIDE DEF D, m
  <2>2. PICK g : Solves(g, m, Nat, 1, D)
    BY <1>1, <2>1, Recursion
  <2>3. ASSUME NEW n \in 1 .. m PROVE g[n] = 10 * g[n - 1]
    <3>1. n - 1 \in 0 .. m /\ g[n - 1] \in Nat /\ g[n] = D[n][g[n - 1]]
      BY <1>1, <2>2 DEF Solves
    <3>2. D[n] = [v \in Nat |-> 10 * v]
      BY DEF D
    <3>3. QED
      BY <3>1, <3>2
  <2>4. g = Def(g)
    BY <2>2, <2>3 DEF Solves
  <2>5. QED
    BY <2>4
<1>3. Decimals = Def(Decimals)
  BY <1>2 DEF Decimals
<1> HIDE DEF m
<1>4. Decimals[0] = 1 /\ \A n \in 1 .. m : Decimals[n] = 10 * Decimals[n - 1]
  <2>1. Decimals[0] = 1
    BY <1>1, <1>3
  <2>2. ASSUME NEW n \in 1 .. m PROVE Decimals[n] = 10 * Decimals[n - 1]
    <3>1. n \in 0 .. m /\ n # 0
      BY <1>1
    <3>2. QED
      BY <1>3, <3>1
  <2>3. QED
    BY <2>1, <2>2
<1>5. \A n \in 0 .. m : Decimals[n] \in Nat
  <2> DEFINE S == {n \in 0 .. m : Decimals[n] \in Nat}
  <2>1. 0 \in S /\ S \in SUBSET Nat
    BY <1>1, <1>4
  <2>2. ASSUME NEW n \in S, n < m PROVE n + 1 \in S
    <3>1. n \in Nat /\ n + 1 \in 1 .. m /\ Decimals[n] \in Nat
      BY <1>1, <2>2
    <3>2. Decimals[n + 1] = 10 * Decimals[n]
      BY <1>4, <3>1
    <3>4. QED
      BY <3>1, <3>2
  <2> HIDE DEF S
  <2>3. 0 .. m \subseteq S
    BY <1>1, <2>1, <2>2, UpTo
  <2>4. QED
    BY <2>3 DEF S
<1>6. QED
  BY <1>1, <1>3, <1>4, <1>5 DEF m

\* A word has no more digits than print_buf has room for.
LEMMA QuotientsEnd ==
  ASSUME NEW u \in 1 .. WordSize - 1, NEW b \in Bases
  PROVE  Quotients(u, b)[PRINT_BUF_LEN - 2] = 0
<1> DEFINE q == Quotients(u, b)
           m == PRINT_BUF_LEN
           S == {n \in 0 .. m : Decimals[n] * q[n] <= u}
<1>1. m \in Nat /\ m > 2 /\ u \in Nat /\ u < WordSize /\ WordSize \in Nat
  BY PrintfAssumption
<1>2. /\ q \in [0 .. m -> Nat] /\ q[0] = u
      /\ \A n \in 1 .. m : q[n] = q[n - 1] \div b
  BY <1>1, QuotientsAre
<1>3. /\ Decimals \in [0 .. m -> Nat] /\ Decimals[0] = 1
      /\ \A n \in 1 .. m : Decimals[n] = 10 * Decimals[n - 1]
  BY DecimalsAre
<1> HIDE DEF q, m
<1>4. 0 \in S /\ S \in SUBSET Nat
  <2>1. Decimals[0] * q[0] = u
    BY <1>1, <1>2, <1>3
  <2>2. QED
    BY <1>1, <2>1
<1>5. ASSUME NEW n \in S, n < m PROVE n + 1 \in S
  <2>1. n \in Nat /\ n + 1 \in 1 .. m /\ q[n] \in Nat /\ Decimals[n] \in Nat /\ Decimals[n] * q[n] <= u
    BY <1>1, <1>2, <1>3, <1>5
  <2>2. q[n + 1] = q[n] \div b /\ Decimals[n + 1] = 10 * Decimals[n]
    BY <1>2, <1>3, <2>1
  <2>3. q[n + 1] \in Nat /\ 10 * q[n + 1] <= q[n]
    BY <2>1, <2>2, Divides
  <2>4. \A d, x, y \in Nat : 10 * x <= y => (10 * d) * x <= d * y
    OBVIOUS
  <2>5. Decimals[n + 1] * q[n + 1] <= Decimals[n] * q[n]
    BY <2>1, <2>2, <2>3, <2>4
  <2>6. Decimals[n + 1] * q[n + 1] <= u
    <3>1. \A x, y, z \in Int : x <= y /\ y <= z => x <= z
      OBVIOUS
    <3>2. /\ Decimals[n + 1] * q[n + 1] \in Int /\ Decimals[n] * q[n] \in Int /\ u \in Int
      BY <1>1, <2>1, <2>2, <2>3
    <3>3. QED
      BY <2>1, <2>5, <3>1, <3>2
  <2>7. QED
    BY <2>1, <2>6
<1> HIDE DEF S
<1>6. 0 .. m \subseteq S
  BY <1>1, <1>4, <1>5, UpTo
<1>7. m - 2 \in 0 .. m /\ WordSize <= Decimals[m - 2]
  BY <1>1, BufferAssumption DEF m
<1>8. Decimals[m - 2] * q[m - 2] <= u
  BY ONLY <1>6, <1>7 DEF S
<1>9. q[m - 2] \in Nat /\ Decimals[m - 2] \in Nat
  BY ONLY <1>1, <1>2, <1>3, <1>7
<1>10. u < Decimals[m - 2]
  BY ONLY <1>1, <1>7, <1>9
<1>11. \A d, x \in Nat : x > 0 => d * x >= d
  OBVIOUS
<1>12. q[m - 2] > 0 => Decimals[m - 2] * q[m - 2] >= Decimals[m - 2]
  BY ONLY <1>9, <1>11, Zenon
<1>13. Decimals[m - 2] * q[m - 2] \in Nat
  BY ONLY <1>9
<1>14. q[m - 2] = 0
  BY ONLY <1>1, <1>8, <1>9, <1>10, <1>12, <1>13
<1>15. QED
  BY <1>14 DEF q, m

LEMMA DivisionsAre ==
  ASSUME NEW u \in 1 .. WordSize - 1, NEW b \in Bases
  PROVE  /\ Divisions(u, b) \in 1 .. PRINT_BUF_LEN - 2
         /\ Quotients(u, b)[Divisions(u, b)] = 0
         /\ \A k \in 0 .. Divisions(u, b) - 1 : Quotients(u, b)[k] # 0
<1> DEFINE q == Quotients(u, b)
           m == PRINT_BUF_LEN
           S == {n \in 0 .. m : q[n] = 0}
<1>1. m \in Nat /\ m > 2 /\ u \in Nat /\ u > 0
  BY PrintfAssumption
<1>2. q[0] = u /\ q[m - 2] = 0
  BY <1>1, QuotientsAre, QuotientsEnd
<1> HIDE DEF q, m
<1>3. S \in SUBSET Nat /\ m - 2 \in S /\ 0 \notin S
  BY <1>1, <1>2
<1>4. PICK n \in S : \A k \in S : n <= k
  BY <1>3, Least
<1>5. Min(S) \in S /\ \A k \in S : Min(S) <= k
  BY <1>4 DEF Min
<1>6. Divisions(u, b) = Min(S)
  BY DEF Divisions, S, q, m
<1>7. \A k \in 0 .. Min(S) - 1 : k \in 0 .. m /\ k \notin S
  BY <1>1, <1>3, <1>5
<1>8. Min(S) \in 1 .. m - 2 /\ q[Min(S)] = 0 /\ \A k \in 0 .. Min(S) - 1 : q[k] # 0
  BY <1>1, <1>3, <1>5, <1>7
<1> HIDE DEF S
<1>9. QED
  BY <1>6, <1>8 DEF q, m

\* What ReadBack has read after each character.
LEMMA ReadBackStepwise ==
  ASSUME NEW text \in Seq(Nat), NEW b \in Bases
  PROVE  \E value \in [0 .. Len(text) -> Nat] :
           /\ ReadBack(text, b) = value[Len(text)] /\ value[0] = 0
           /\ \A k \in 1 .. Len(text) :
                value[k] = IF IsDigit(text[k]) THEN value[k - 1] * b + text[k] ELSE value[k - 1]
<1> DEFINE m == Len(text)
           Place(v, k) == IF IsDigit(text[k]) THEN v * b + text[k] ELSE v
           D == [n \in 1 .. m |-> [v \in Nat |-> Place(v, n)]]
           Def(g) == [n \in 0 .. m |-> IF n = 0 THEN 0 ELSE Place(g[n - 1], n)]
           value == CHOOSE g : g = Def(g)
<1>1. m \in Nat /\ \A n \in 1 .. m : text[n] \in Nat
  OBVIOUS
<1>2. \A n \in 1 .. m : \A v \in Nat : Place(v, n) \in Nat
  <2>1. \A v, d \in Nat : v * b + d \in Nat
    BY DEF Bases
  <2>2. QED
    BY <1>1, <2>1
<1>3. \E g : g = Def(g)
  <2>1. D \in [1 .. m -> [Nat -> Nat]]
    BY <1>2
  <2> HIDE DEF D, m
  <2>2. PICK g : Solves(g, m, Nat, 0, D)
    BY <1>1, <2>1, Recursion
  <2>3. ASSUME NEW n \in 1 .. m PROVE g[n] = Place(g[n - 1], n)
    <3>1. n - 1 \in 0 .. m /\ g[n - 1] \in Nat /\ g[n] = D[n][g[n - 1]]
      BY <1>1, <2>2 DEF Solves
    <3> HIDE DEF Place
    <3>2. D[n] = [v \in Nat |-> Place(v, n)]
      BY DEF D
    <3>3. QED
      BY <3>1, <3>2
  <2> HIDE DEF Place
  <2>4. g = Def(g)
    BY <2>2, <2>3 DEF Solves
  <2>5. QED
    BY <2>4
<1>4. ReadBack(text, b) = value[m]
  BY DEF ReadBack
<1>5. value = Def(value)
  BY <1>3
<1> HIDE DEF m, value, Place
<1>6. value[0] = 0
  BY <1>1, <1>5
<1>7. ASSUME NEW n \in 1 .. m PROVE value[n] = Place(value[n - 1], n)
  <2>1. n \in 0 .. m /\ n # 0
    BY <1>1
  <2>2. QED
    BY <1>5, <2>1
<1>8. \A n \in 0 .. m : value[n] \in Nat
  <2> DEFINE S == {n \in 0 .. m : value[n] \in Nat}
  <2>1. 0 \in S /\ S \in SUBSET Nat
    BY <1>1, <1>6
  <2>2. ASSUME NEW n \in S, n < m PROVE n + 1 \in S
    <3>1. n \in Nat /\ n + 1 \in 1 .. m /\ value[n] \in Nat
      BY <1>1, <2>2
    <3>2. value[n + 1] = Place(value[n], n + 1)
      BY <1>7, <3>1
    <3>3. value[n + 1] \in Nat
      BY <1>2, <3>1, <3>2
    <3>4. QED
      BY <3>1, <3>3
  <2> HIDE DEF S
  <2>3. 0 .. m \subseteq S
    BY <1>1, <2>1, <2>2, UpTo
  <2>4. QED
    BY <2>3 DEF S
<1>9. value \in [0 .. m -> Nat]
  BY <1>5, <1>8
<1>10. QED
  BY <1>4, <1>6, <1>7, <1>9 DEF m, Place

\* A text whose digits are those of u, but for zeros ahead of them, reads as u.
LEMMA ReadBackIs ==
  ASSUME NEW text \in Seq(Nat), NEW b \in Bases, NEW u \in 1 .. WordSize - 1, NEW x \in Nat,
         x + Len(Digits(u, b)) <= Len(text),
         \A k \in 1 .. x : text[k] = 0 \/ ~IsDigit(text[k]),
         \A k \in 1 .. Len(Digits(u, b)) : text[x + k] = Digits(u, b)[k],
         \A k \in x + Len(Digits(u, b)) + 1 .. Len(text) : ~IsDigit(text[k])
  PROVE  ReadBack(text, b) = u
<1> DEFINE q == Quotients(u, b)
           n == Divisions(u, b)
           m == Len(text)
<1>1. /\ n \in Nat /\ m \in Nat /\ u \in Nat
      /\ n < PRINT_BUF_LEN /\ PRINT_BUF_LEN \in Nat /\ q[n] = 0 /\ q[0] = u
      /\ \A k \in 1 .. n : q[k] = q[k - 1] \div b
      /\ \A k \in 0 .. n : q[k] \in Nat
  <2>1. u \in Nat /\ m \in Nat /\ PRINT_BUF_LEN \in Nat
    BY PrintfAssumption
  <2>2. n \in 1 .. PRINT_BUF_LEN - 2 /\ q[n] = 0
    BY DivisionsAre
  <2>3. /\ q \in [0 .. PRINT_BUF_LEN -> Nat] /\ q[0] = u
        /\ \A k \in 1 .. PRINT_BUF_LEN : q[k] = q[k - 1] \div b
    BY <2>1, QuotientsAre
  <2> HIDE DEF q, n, m
  <2>4. QED
    BY ONLY <2>1, <2>2, <2>3
<1>2. Len(Digits(u, b)) = n /\ \A k \in 1 .. n : Digits(u, b)[k] = q[n - k] % b
  BY <1>1 DEF Digits
<1>3. PICK value \in [0 .. m -> Nat] :
        /\ ReadBack(text, b) = value[m] /\ value[0] = 0
        /\ \A k \in 1 .. m :
             value[k] = IF IsDigit(text[k]) THEN value[k - 1] * b + text[k] ELSE value[k - 1]
  BY ReadBackStepwise
<1> HIDE DEF q, n, m
<1> DEFINE Expected(k) == IF k <= x THEN 0 ELSE IF k <= x + n THEN q[n - (k - x)] ELSE u
           S == {k \in 0 .. m : value[k] = Expected(k)}
<1>4. x + n <= m
  BY <1>2 DEF m
<1>5. 0 \in S /\ S \in SUBSET Nat
  <2>1. Expected(0) = 0 /\ 0 \in 0 .. m
    BY <1>1
  <2> HIDE DEF Expected
  <2>2. QED
    BY <1>1, <1>3, <2>1
<1>6. ASSUME NEW k \in S, k < m PROVE k + 1 \in S
  <2>1. /\ k \in Nat /\ k + 1 \in 1 .. m /\ value[k] = Expected(k)
        /\ value[k + 1] = IF IsDigit(text[k + 1]) THEN value[k] * b + text[k + 1] ELSE value[k]
    BY <1>1, <1>3, <1>6
  <2>2. CASE k + 1 <= x
    <3>1. text[k + 1] = 0 \/ ~IsDigit(text[k + 1])
      BY <2>1, <2>2
    <3>2. value[k + 1] = 0
      BY <2>1, <2>2, <3>1 DEF Bases
    <3>3. QED
      BY <2>1, <2>2, <3>2
  <2>3. CASE k + 1 > x /\ k + 1 <= x + n
    <3> DEFINE i == k + 1 - x
    <3>1. i \in 1 .. n /\ k + 1 = x + i /\ n - i \in 0 .. n /\ n - i + 1 \in 1 .. n
      BY <1>1, <2>1, <2>3
    <3>2. text[k + 1] = q[n - i] % b
      BY <1>2, <3>1
    <3>3. value[k] = q[n - i + 1]
      <4>1. CASE k <= x
        <5>1. i = 1 /\ k = x
          BY <1>1, <2>1, <2>3, <4>1
        <5>2. value[k] = 0
          BY <2>1, <5>1
        <5>3. n - i + 1 = n
          BY <1>1, <5>1
        <5>4. QED
          BY <1>1, <5>2, <5>3
      <4>2. CASE k > x
        <5>1. n - (k - x) = n - i + 1 /\ k <= x + n
          BY <1>1, <2>1, <2>3
        <5>2. QED
          BY <2>1, <4>2, <5>1
      <4>3. QED
        BY <1>1, <2>1, <4>1, <4>2
    <3>4. q[n - i + 1] = q[n - i] \div b
      BY <1>1, <3>1
    <3> HIDE DEF i
    <3>5. q[n - i] = q[n - i + 1] * b + text[k + 1] /\ text[k + 1] \in 0 .. b - 1
      <4>1. q[n - i] \in Nat
        BY <1>1, <3>1
      <4>2. QED
        BY <3>2, <3>4, <4>1, Divides
    <3>6. IsDigit(text[k + 1])
      <4>1. b \in Int /\ b <= 16
        BY DEF Bases
      <4>2. text[k + 1] \in Int /\ 0 <= text[k + 1] /\ text[k + 1] <= 15
        BY <3>5, <4>1
      <4>3. \A c \in Int : 0 <= c /\ c <= 15 => IsDigit(c)
        BY DEF IsDigit
      <4> HIDE DEF IsDigit
      <4>4. QED
        BY <4>2, <4>3
    <3>7. value[k + 1] = q[n - i]
      BY <2>1, <3>3, <3>5, <3>6
    <3>8. Expected(k + 1) = q[n - i]
      BY <1>1, <2>1, <2>3 DEF i
    <3>9. QED
      BY <2>1, <3>7, <3>8
  <2>4. CASE k + 1 > x + n
    <3>1. ~IsDigit(text[k + 1])
      BY <1>1, <1>2, <2>1, <2>4 DEF m
    <3>2. value[k + 1] = value[k]
      BY <2>1, <3>1
    <3>3. Expected(k) = u
      <4>1. CASE k = x + n /\ n > 0
        BY <1>1, <2>1, <4>1
      <4>2. CASE k > x + n
        BY <1>1, <2>1, <4>2
      <4>3. n > 0
        BY DivisionsAre, PrintfAssumption DEF n
      <4>4. QED
        BY <1>1, <2>1, <2>4, <4>1, <4>2, <4>3
    <3>4. Expected(k + 1) = u
      BY <1>1, <2>1, <2>4
    <3>5. QED
      BY <2>1, <3>2, <3>3, <3>4
  <2>5. QED
    BY <1>1, <2>1, <2>2, <2>3, <2>4
<1> HIDE DEF S
<1>7. 0 .. m \subseteq S
  BY <1>1, <1>5, <1>6, UpTo
<1>8. value[m] = Expected(m)
  BY <1>1, <1>7 DEF S
<1>9. Expected(m) = u
  <2>1. n > 0
    BY DivisionsAre, PrintfAssumption DEF n
  <2>2. CASE m = x + n
    BY <1>1, <2>1, <2>2
  <2>3. CASE m > x + n
    BY <1>1, <2>1, <2>3
  <2>4. QED
    BY <1>1, <1>4, <2>2, <2>3
<1>10. QED
  BY <1>3, <1>8, <1>9

\* A text without digits but zeros reads as 0.
LEMMA ReadBackZero ==
  ASSUME NEW text \in Seq(Nat), NEW b \in Bases,
         \A k \in 1 .. Len(text) : text[k] = 0 \/ ~IsDigit(text[k])
  PROVE  ReadBack(text, b) = 0
<1> DEFINE m == Len(text)
<1>1. m \in Nat
  OBVIOUS
<1>2. PICK value \in [0 .. m -> Nat] :
        /\ ReadBack(text, b) = value[m] /\ value[0] = 0
        /\ \A k \in 1 .. m :
             value[k] = IF IsDigit(text[k]) THEN value[k - 1] * b + text[k] ELSE value[k - 1]
  BY ReadBackStepwise
<1>3. \A k \in 1 .. m : text[k] = 0 \/ ~IsDigit(text[k])
  OBVIOUS
<1> HIDE DEF m
<1> DEFINE S == {k \in 0 .. m : value[k] = 0}
<1>4. 0 \in S /\ S \in SUBSET Nat
  BY <1>1, <1>2
<1>5. ASSUME NEW k \in S, k < m PROVE k + 1 \in S
  <2>1. /\ k \in Nat /\ k + 1 \in 1 .. m /\ value[k] = 0
        /\ value[k + 1] = IF IsDigit(text[k + 1]) THEN value[k] * b + text[k + 1] ELSE value[k]
    BY <1>1, <1>2, <1>5
  <2>2. value[k + 1] = 0
    BY <1>3, <2>1 DEF Bases
  <2>3. QED
    BY <2>1, <2>2
<1> HIDE DEF S
<1>6. 0 .. m \subseteq S
  BY <1>1, <1>4, <1>5, UpTo
<1>7. QED
  BY <1>1, <1>2, <1>6 DEF S

-----------------------------------------------------------------------------
(* The text of a number.                                                    *)

AnyFormat == [conv : {"d", "u", "x"}, minus : BOOLEAN, zeros : BOOLEAN, width : Nat]

Wider(m, n) == IF m > n THEN m ELSE n

LEMMA RepeatIs ==
  ASSUME NEW c \in Nat, NEW n \in Nat
  PROVE  Repeat(c, n) \in Seq(Nat) /\ Len(Repeat(c, n)) = n /\ \A k \in 1 .. n : Repeat(c, n)[k] = c
BY DEF Repeat

LEMMA Concatenated ==
  ASSUME NEW s \in Seq(Nat), NEW t \in Seq(Nat)
  PROVE  /\ s \o t \in Seq(Nat) /\ Len(s \o t) = Len(s) + Len(t)
         /\ \A k \in 1 .. Len(s) : (s \o t)[k] = s[k]
         /\ \A k \in 1 .. Len(t) : (s \o t)[Len(s) + k] = t[k]
OBVIOUS

Padding(text, string, width, right, zeros) ==
  \E r \in Seq(Nat), c \in {0, Space} :
    /\ Len(string) + Len(r) = Wider(width, Len(string))
    /\ \A k \in 1 .. Len(r) : r[k] = c
    /\ zeros = FALSE \/ width = 0 => c = Space
    /\ zeros = TRUE => c = 0 \/ width = 0
    /\ right = TRUE => text = string \o r
    /\ right = FALSE => text = r \o string

\* prints on a text: as wide as asked, and padded on one side.
LEMMA PrintsIn ==
  ASSUME NEW string \in Seq(Nat), NEW width \in Nat, NEW right \in BOOLEAN, NEW zeros \in BOOLEAN
  PROVE  /\ prints(string, width, right, zeros) \in Seq(Nat)
         /\ Len(prints(string, width, right, zeros)) = Wider(width, Len(string))
         /\ Padding(prints(string, width, right, zeros), string, width, right, zeros)
<1> DEFINE n == IF width > 0 THEN Missing(string, width) ELSE 0
           c == IF zeros /\ width > 0 THEN 0 ELSE Space
           r == Repeat(c, n)
<1>1. n \in Nat /\ Len(string) + n = Wider(width, Len(string))
  BY DEF Missing, Wider
<1>0. c \in {0, Space}
  OBVIOUS
<1>2. r \in Seq(Nat) /\ Len(r) = n /\ \A k \in 1 .. Len(r) : r[k] = c
  <2>1. c \in Nat
    BY DEF Space
  <2>2. Repeat(c, n) \in Seq(Nat) /\ Len(Repeat(c, n)) = n /\ \A k \in 1 .. n : Repeat(c, n)[k] = c
    <3>1. n \in Nat
      BY <1>1
    <3> HIDE DEF n, c
    <3>2. QED
      BY <2>1, <3>1, RepeatIs
  <2>3. QED
    BY <2>2, Zenon
<1>3. /\ zeros = FALSE => c = Space
      /\ right = TRUE => prints(string, width, right, zeros) = string \o r
      /\ right = FALSE => prints(string, width, right, zeros) = r \o string
  BY Zenon DEF prints
<1>4. width > 0 => (zeros = TRUE => c = 0)
  OBVIOUS
<1>5. ~(width > 0) => c = Space
  OBVIOUS
<1>6. right = TRUE \/ right = FALSE
  OBVIOUS
<1> HIDE DEF r, c, n
<1>7. /\ prints(string, width, right, zeros) \in Seq(Nat)
      /\ Len(prints(string, width, right, zeros)) = Wider(width, Len(string))
  <2>1. string \o r \in Seq(Nat) /\ Len(string \o r) = Len(string) + n
    BY <1>2, Concatenated
  <2>2. r \o string \in Seq(Nat) /\ Len(r \o string) = n + Len(string)
    BY <1>2, Concatenated
  <2>3. Len(string) + n = Wider(width, Len(string))
    BY <1>1
  <2>4. n + Len(string) = Len(string) + n
    <3>1. n \in Nat /\ Len(string) \in Nat
      BY <1>1
    <3>2. QED
      BY ONLY <3>1
  <2>5. QED
    BY <1>3, <1>6, <2>1, <2>2, <2>3, <2>4, Zenon
<1>8. width = 0 <=> ~(width > 0)
  OBVIOUS
<1>9. Len(string) + Len(r) = Wider(width, Len(string))
  BY <1>1, <1>2
<1>10. Padding(prints(string, width, right, zeros), string, width, right, zeros)
  BY <1>0, <1>2, <1>3, <1>4, <1>5, <1>8, <1>9, Zenon DEF Padding
<1>11. QED
  BY <1>7, <1>10

\* The word whose digits are printed.
Unsigned(i, f) == IF Negative(f.conv, i) THEN Magnitude(i) ELSE i
DigitsOf(i, f) == IF i = 0 THEN <<0>> ELSE Digits(Unsigned(i, f), Base(f.conv))
Ahead(i, f) == Negative(f.conv, i) /\ f.width # 0 /\ f.zeros
Signs(i, f) == IF Negative(f.conv, i) THEN 1 ELSE 0

LEMMA UnsignedIs ==
  ASSUME NEW i \in 1 .. WordSize - 1, NEW f \in AnyFormat
  PROVE  /\ Unsigned(i, f) \in 1 .. WordSize - 1
         /\ Unsigned(i, f) = IF Negative(f.conv, i) THEN WordSize - i ELSE i
         /\ Base(f.conv) \in Bases
<1>1. \A v, w \in Nat : v < w => v % w = v
  OBVIOUS
<1>2. WordSize \in Nat /\ WordSize - i \in 1 .. WordSize - 1
  BY PrintfAssumption
<1>3. Magnitude(i) = WordSize - i
  BY <1>1, <1>2 DEF Magnitude
<1>4. QED
  BY <1>2, <1>3 DEF Unsigned, Base, Bases

LEMMA ZeroIsNotNegative == \A conv : ~Negative(conv, 0)
<1>1. WordSize \div 2 \in Nat /\ WordSize \div 2 > 0
  BY PrintfAssumption
<1>2. ~(0 >= WordSize \div 2)
  BY <1>1
<1>3. QED
  BY <1>2 DEF Negative

LEMMA DigitsOfAre ==
  ASSUME NEW i \in 0 .. WordSize - 1, NEW f \in AnyFormat
  PROVE  /\ DigitsOf(i, f) \in Seq(Nat) /\ Len(DigitsOf(i, f)) \in 1 .. PRINT_BUF_LEN - 2
         /\ \A k \in 1 .. Len(DigitsOf(i, f)) : IsDigit(DigitsOf(i, f)[k])
<1>1. PRINT_BUF_LEN \in Nat /\ PRINT_BUF_LEN > 2 /\ WordSize \in Nat
  BY PrintfAssumption
<1>2. CASE i = 0
  BY <1>1, <1>2 DEF DigitsOf, IsDigit
<1>3. CASE i # 0
  <2> DEFINE u == Unsigned(i, f)
             b == Base(f.conv)
             q == Quotients(u, b)
             n == Divisions(u, b)
  <2>1. i \in 1 .. WordSize - 1
    BY <1>1, <1>3
  <2>2. u \in 1 .. WordSize - 1 /\ b \in Bases
    BY <2>1, UnsignedIs
  <2> HIDE DEF u, b
  <2>3. n \in 1 .. PRINT_BUF_LEN - 2
    BY <2>2, DivisionsAre
  <2>4. q \in [0 .. PRINT_BUF_LEN -> Nat]
    BY <1>1, <2>2, QuotientsAre
  <2>5. Digits(u, b) = [k \in 1 .. n |-> q[n - k] % b]
    BY DEF Digits
  <2> HIDE DEF n, q
  <2>6. ASSUME NEW k \in 1 .. n PROVE q[n - k] % b \in 0 .. 15
    <3>1. q[n - k] \in Nat
      BY <1>1, <2>3, <2>4
    <3>2. q[n - k] % b \in 0 .. b - 1
      BY <2>2, <3>1, Divides
    <3>3. b \in Int /\ b <= 16
      BY <2>2 DEF Bases
    <3>4. QED
      BY <3>2, <3>3
  <2>7. DigitsOf(i, f) = Digits(u, b)
    BY <1>3 DEF DigitsOf, u, b
  <2>8. /\ Digits(u, b) \in Seq(Nat) /\ Len(Digits(u, b)) = n
        /\ \A k \in 1 .. n : Digits(u, b)[k] \in 0 .. 15
    BY ONLY <1>1, <2>3, <2>5, <2>6
  <2>9. QED
    BY ONLY <2>3, <2>7, <2>8 DEF IsDigit
<1>4. QED
  BY <1>2, <1>3

\* The three ways of printi: without a sign, with the sign ahead of padding
\* zeros, and with the sign next to the digits.
LEMMA PrintiIs ==
  ASSUME NEW i \in 0 .. WordSize - 1, NEW f \in AnyFormat
  PROVE  /\ ~Negative(f.conv, i) =>
              printi(i, f) = [text |-> prints(DigitsOf(i, f), f.width, f.minus, f.zeros),
                              taken |-> Len(DigitsOf(i, f)) + 1]
         /\ Ahead(i, f) =>
              printi(i, f) = [text |-> <<Minus>> \o prints(DigitsOf(i, f), f.width - 1, f.minus, f.zeros),
                              taken |-> Len(DigitsOf(i, f)) + 1]
         /\ Negative(f.conv, i) /\ ~Ahead(i, f) =>
              printi(i, f) = [text |-> prints(<<Minus>> \o DigitsOf(i, f), f.width, f.minus, f.zeros),
                              taken |-> Len(<<Minus>> \o DigitsOf(i, f)) + 1]
<1>1. CASE i = 0
  <2>1. ~Negative(f.conv, i)
    BY <1>1, ZeroIsNotNegative
  <2>2. DigitsOf(i, f) = <<0>> /\ Len(<<0>>) + 1 = 2
    BY <1>1 DEF DigitsOf
  <2>3. QED
    BY <1>1, <2>1, <2>2 DEF printi, Ahead
<1>2. CASE i # 0
  <2>1. DigitsOf(i, f) = Digits(IF Negative(f.conv, i) THEN Magnitude(i) ELSE i, Base(f.conv))
    BY <1>2 DEF DigitsOf, Unsigned
  <2>2. CASE ~Negative(f.conv, i)
    <3> DEFINE t == prints(DigitsOf(i, f), f.width, f.minus, f.zeros)
    <3>1. t \in Seq(Nat)
      <4>1. f.width \in Nat /\ f.minus \in BOOLEAN /\ f.zeros \in BOOLEAN
        BY PrintfAssumption DEF AnyFormat
      <4>2. QED
        BY <4>1, DigitsOfAre, PrintsIn
    <3> HIDE DEF t
    <3>2. <<>> \o t = t
      BY <3>1
    <3>3. QED
      BY <1>2, <2>1, <2>2, <3>2 DEF printi, Ahead, t
  <2>3. CASE Ahead(i, f)
    BY <1>2, <2>1, <2>3 DEF printi, Ahead
  <2>4. CASE Negative(f.conv, i) /\ ~Ahead(i, f)
    <3> DEFINE d == <<Minus>> \o DigitsOf(i, f)
               t == prints(d, f.width, f.minus, f.zeros)
    <3>1. t \in Seq(Nat)
      <4>1. f.width \in Nat /\ f.minus \in BOOLEAN /\ f.zeros \in BOOLEAN
        BY PrintfAssumption DEF AnyFormat
      <4>2. <<Minus>> \in Seq(Nat)
        BY DEF Minus
      <4>3. d \in Seq(Nat)
        BY <4>2, DigitsOfAre, Concatenated
      <4> HIDE DEF d
      <4>4. QED
        BY <4>1, <4>3, PrintsIn
    <3> HIDE DEF t
    <3>2. <<>> \o t = t
      BY <3>1
    <3>3. QED
      BY <1>2, <2>1, <2>4, <3>2 DEF printi, Ahead, t
  <2>5. ~Negative(f.conv, i) \/ Ahead(i, f) \/ (Negative(f.conv, i) /\ ~Ahead(i, f))
    OBVIOUS
  <2>6. QED
    BY ONLY <2>2, <2>3, <2>4, <2>5, Zenon
<1>3. QED
  BY <1>1, <1>2, Zenon
LEMMA SignedIs ==
  ASSUME NEW D \in Seq(Nat)
  PROVE  /\ <<Minus>> \in Seq(Nat) /\ Len(<<Minus>>) = 1 /\ <<Minus>>[1] = Minus
         /\ <<Minus>> \o D \in Seq(Nat) /\ Len(<<Minus>> \o D) = 1 + Len(D)
         /\ (<<Minus>> \o D)[1] = Minus
         /\ \A k \in 1 .. Len(D) : (<<Minus>> \o D)[1 + k] = D[k]
<1>1. <<Minus>> \in Seq(Nat) /\ Len(<<Minus>>) = 1 /\ <<Minus>>[1] = Minus
  BY DEF Minus
<1>2. QED
  BY <1>1, Concatenated

\* The text is as wide as the field, or as the number with its sign.
LEMMA TextLength ==
  ASSUME NEW i \in 0 .. WordSize - 1, NEW f \in AnyFormat
  PROVE  /\ printi(i, f).text \in Seq(Nat)
         /\ Len(printi(i, f).text) = Wider(f.width, Signs(i, f) + Len(DigitsOf(i, f)))
<1> DEFINE D == DigitsOf(i, f)
           P(s, v) == prints(s, v, f.minus, f.zeros)
<1>1. f.width \in Nat /\ f.minus \in BOOLEAN /\ f.zeros \in BOOLEAN
  BY PrintfAssumption DEF AnyFormat
<1>2. D \in Seq(Nat) /\ Len(D) \in Nat /\ Len(D) > 0
  <2>1. PRINT_BUF_LEN \in Nat
    BY PrintfAssumption
  <2>2. QED
    BY <2>1, DigitsOfAre
<1> HIDE DEF D
<1>3. \A s \in Seq(Nat), v \in Nat : P(s, v) \in Seq(Nat) /\ Len(P(s, v)) = Wider(v, Len(s))
  BY <1>1, PrintsIn, Zenon
<1>4. CASE ~Negative(f.conv, i)
  <2>1. printi(i, f).text = P(D, f.width) /\ Signs(i, f) = 0
    BY <1>4, PrintiIs DEF D, Signs
  <2> HIDE DEF P
  <2>2. 0 + Len(D) = Len(D)
    BY <1>2
  <2>3. QED
    BY <1>1, <1>2, <1>3, <2>1, <2>2 DEF D
<1>5. CASE Ahead(i, f)
  <2>1. printi(i, f).text = <<Minus>> \o P(D, f.width - 1)
    BY <1>5, PrintiIs DEF D
  <2> HIDE DEF P
  <2>2. Signs(i, f) = 1 /\ f.width # 0
    BY <1>5 DEF Signs, Ahead
  <2>3. f.width - 1 \in Nat
    BY <1>1, <2>2
  <2>4. P(D, f.width - 1) \in Seq(Nat) /\ Len(P(D, f.width - 1)) = Wider(f.width - 1, Len(D))
    BY <1>2, <1>3, <2>3
  <2>5. 1 + Wider(f.width - 1, Len(D)) = Wider(f.width, 1 + Len(D))
    BY <1>1, <1>2, <2>2 DEF Wider
  <2>6. printi(i, f).text \in Seq(Nat) /\ Len(printi(i, f).text) = 1 + Len(P(D, f.width - 1))
    BY <2>1, <2>4, SignedIs
  <2>7. QED
    BY <2>2, <2>4, <2>5, <2>6 DEF D
<1>6. CASE Negative(f.conv, i) /\ ~Ahead(i, f)
  <2>1. printi(i, f).text = P(<<Minus>> \o D, f.width) /\ Signs(i, f) = 1
    BY <1>6, PrintiIs DEF D, Signs
  <2> HIDE DEF P
  <2>2. <<Minus>> \o D \in Seq(Nat) /\ Len(<<Minus>> \o D) = 1 + Len(D)
    BY <1>2, SignedIs
  <2>3. QED
    BY <1>1, <1>3, <2>1, <2>2 DEF D
<1>7. QED
  BY <1>4, <1>5, <1>6

\* A text from left to right: a blanks, s signs, z zeros, the digits, and blanks.
Laid(text, a, s, z, D) ==
  /\ text \in Seq(Nat) /\ Len(text) >= a + s + z + Len(D)
  /\ \A k \in 1 .. a : text[k] = Space
  /\ s = 1 => text[a + 1] = Minus
  /\ \A k \in 1 .. z : text[a + s + k] = 0
  /\ \A k \in 1 .. Len(D) : text[a + s + z + k] = D[k]
  /\ \A k \in a + s + z + Len(D) + 1 .. Len(text) : text[k] = Space

\* Padding before a text, and after it.
LEMMA PaddedBefore ==
  ASSUME NEW d \in Seq(Nat), NEW r \in Seq(Nat), NEW c \in Nat, \A k \in 1 .. Len(r) : r[k] = c
  PROVE  /\ r \o d \in Seq(Nat) /\ Len(r \o d) = Len(r) + Len(d)
         /\ \A k \in 1 .. Len(r) : (r \o d)[k] = c
         /\ \A k \in 1 .. Len(d) : (r \o d)[Len(r) + k] = d[k]
BY Concatenated

LEMMA PaddedAfter ==
  ASSUME NEW d \in Seq(Nat), NEW r \in Seq(Nat), NEW c \in Nat, \A k \in 1 .. Len(r) : r[k] = c
  PROVE  /\ d \o r \in Seq(Nat) /\ Len(d \o r) = Len(d) + Len(r)
         /\ \A k \in 1 .. Len(d) : (d \o r)[k] = d[k]
         /\ \A k \in Len(d) + 1 .. Len(d \o r) : (d \o r)[k] = c
<1> DEFINE t == d \o r
<1>1. /\ t \in Seq(Nat) /\ Len(t) = Len(d) + Len(r)
      /\ \A k \in 1 .. Len(d) : t[k] = d[k]
      /\ \A k \in 1 .. Len(r) : t[Len(d) + k] = r[k]
  BY Concatenated
<1> HIDE DEF t
<1>2. ASSUME NEW k \in Len(d) + 1 .. Len(t) PROVE t[k] = c
  <2>1. k - Len(d) \in 1 .. Len(r) /\ Len(d) + (k - Len(d)) = k
    BY <1>1
  <2>2. QED
    BY <1>1, <2>1
<1>3. QED
  BY <1>1, <1>2 DEF t

\* The three ways of printi, laid out: without a sign, ...
LEMMA UnsignedIsLaid ==
  ASSUME NEW D \in Seq(Nat), NEW w \in Nat, NEW right \in BOOLEAN, NEW zeros \in BOOLEAN,
         right = TRUE => zeros = FALSE,
         NEW t, t = prints(D, w, right, zeros)
  PROVE  \E a, z \in Nat : Laid(t, a, 0, z, D)
<1>0. Padding(t, D, w, right, zeros) /\ Len(D) \in Nat
  BY PrintsIn
<1>1. PICK r \in Seq(Nat), c \in {0, Space} :
        /\ \A k \in 1 .. Len(r) : r[k] = c
        /\ zeros = FALSE \/ w = 0 => c = Space
        /\ right = TRUE => t = D \o r
        /\ right = FALSE => t = r \o D
  BY <1>0, Zenon DEF Padding
<1>2. c \in Nat /\ Len(r) \in Nat
  BY DEF Space
<1>3. \A k \in 1 .. Len(r) : r[k] = c
  BY <1>1
<1>4. CASE right = TRUE
  <2>1. t = D \o r /\ c = Space
    BY <1>1, <1>4
  <2>2. /\ t \in Seq(Nat) /\ Len(t) = Len(D) + Len(r)
        /\ \A k \in 1 .. Len(D) : t[k] = D[k]
        /\ \A k \in Len(D) + 1 .. Len(t) : t[k] = Space
    <3>1. /\ D \o r \in Seq(Nat) /\ Len(D \o r) = Len(D) + Len(r)
          /\ \A k \in 1 .. Len(D) : (D \o r)[k] = D[k]
          /\ \A k \in Len(D) + 1 .. Len(D \o r) : (D \o r)[k] = c
      BY ONLY <1>2, <1>3, PaddedAfter, D \in Seq(Nat), r \in Seq(Nat)
    <3>2. QED
      BY <2>1, <3>1, Zenon
  <2>3. Laid(t, 0, 0, 0, D)
    BY <2>2 DEF Laid
  <2>4. QED
    BY <2>3
<1>5. CASE right = FALSE
  <2>1. t = r \o D
    BY <1>1, <1>5
  <2>2. /\ t \in Seq(Nat) /\ Len(t) = Len(r) + Len(D)
        /\ \A k \in 1 .. Len(r) : t[k] = c
        /\ \A k \in 1 .. Len(D) : t[Len(r) + k] = D[k]
    <3>1. /\ r \o D \in Seq(Nat) /\ Len(r \o D) = Len(r) + Len(D)
          /\ \A k \in 1 .. Len(r) : (r \o D)[k] = c
          /\ \A k \in 1 .. Len(D) : (r \o D)[Len(r) + k] = D[k]
      BY ONLY <1>2, <1>3, PaddedBefore, D \in Seq(Nat), r \in Seq(Nat)
    <3>2. QED
      BY <2>1, <3>1, Zenon
  <2>3. c = Space => Laid(t, Len(r), 0, 0, D)
    BY <2>2 DEF Laid
  <2>4. c = 0 => Laid(t, 0, 0, Len(r), D)
    BY <2>2 DEF Laid
  <2>5. QED
    BY <2>3, <2>4
<1>6. QED
  BY <1>4, <1>5

\* ... with the sign ahead of padding zeros, ...
LEMMA AheadIsLaid ==
  ASSUME NEW D \in Seq(Nat), NEW v \in Nat, NEW t, t = <<Minus>> \o prints(D, v, FALSE, TRUE)
  PROVE  \E z \in Nat : Laid(t, 0, 1, z, D)
<1> DEFINE p == prints(D, v, FALSE, TRUE)
<1>0. Len(D) \in Nat
  OBVIOUS
<1>a. Padding(p, D, v, FALSE, TRUE)
  BY PrintsIn, Zenon
<1>1. PICK r \in Seq(Nat), c \in {0, Space} :
        /\ Len(D) + Len(r) = Wider(v, Len(D))
        /\ \A k \in 1 .. Len(r) : r[k] = c
        /\ c = 0 \/ v = 0
        /\ p = r \o D
  BY <1>a, Zenon DEF Padding
<1>2. c \in Nat /\ Len(r) \in Nat /\ \A k \in 1 .. Len(r) : r[k] = c
  BY <1>1 DEF Space
<1>3. c = 0 \/ Len(r) = 0
  BY <1>1 DEF Wider
<1>4. p = r \o D
  BY <1>1
<1>5. t = <<Minus>> \o p
  OBVIOUS
<1> HIDE DEF p
<1>6. /\ p \in Seq(Nat) /\ Len(p) = Len(r) + Len(D)
      /\ \A k \in 1 .. Len(r) : p[k] = c
      /\ \A k \in 1 .. Len(D) : p[Len(r) + k] = D[k]
  <2>1. /\ r \o D \in Seq(Nat) /\ Len(r \o D) = Len(r) + Len(D)
        /\ \A k \in 1 .. Len(r) : (r \o D)[k] = c
        /\ \A k \in 1 .. Len(D) : (r \o D)[Len(r) + k] = D[k]
    BY ONLY <1>2, PaddedBefore, D \in Seq(Nat), r \in Seq(Nat)
  <2>2. QED
    BY ONLY <1>4, <2>1, Zenon
<1>7. /\ t \in Seq(Nat) /\ Len(t) = 1 + Len(p) /\ t[1] = Minus
      /\ \A k \in 1 .. Len(p) : t[1 + k] = p[k]
  <2>1. p \in Seq(Nat)
    BY <1>6
  <2>2. QED
    BY ONLY <1>5, <2>1, SignedIs
<1>8. \A k \in 1 .. Len(r) : t[1 + k] = 0
  <2> TAKE k \in 1 .. Len(r)
  <2>1. k \in 1 .. Len(p) /\ c = 0
    BY <1>0, <1>2, <1>3, <1>6
  <2>2. t[1 + k] = p[k] /\ p[k] = c
    BY <1>6, <1>7, <2>1
  <2>3. QED
    BY <2>1, <2>2
<1>9. \A k \in 1 .. Len(D) : t[1 + Len(r) + k] = D[k]
  <2> TAKE k \in 1 .. Len(D)
  <2>1. Len(r) + k \in 1 .. Len(p) /\ 1 + (Len(r) + k) = 1 + Len(r) + k
    BY <1>6
  <2>2. QED
    BY <1>6, <1>7, <2>1
<1>10. Laid(t, 0, 1, Len(r), D)
  <2>1. Len(t) = 1 + Len(p) /\ Len(p) = Len(r) + Len(D)
    BY <1>6, <1>7
  <2>2. Len(t) >= 0 + 1 + Len(r) + Len(D) /\ 0 + 1 + Len(r) + Len(D) + 1 > Len(t)
    <3>1. \A x, y \in Nat : 1 + (x + y) >= 0 + 1 + x + y /\ 0 + 1 + x + y + 1 > 1 + (x + y)
      OBVIOUS
    <3>2. QED
      BY <1>0, <1>2, <2>1, <3>1, Zenon
  <2>3. 0 + 1 + Len(r) = 1 + Len(r) /\ 0 + 1 = 1
    BY <1>2
  <2>4. \A k \in 0 + 1 + Len(r) + Len(D) + 1 .. Len(t) : t[k] = Space
    <3>1. \A x, y, l \in Nat : 0 + 1 + x + y + 1 > l => \A k \in 0 + 1 + x + y + 1 .. l : FALSE
      OBVIOUS
    <3>2. Len(t) \in Nat
      BY ONLY <1>0, <1>2, <2>1
    <3>3. QED
      BY <1>0, <1>2, <2>2, <3>1, <3>2, Zenon
  <2>5. \A k \in 1 .. 0 : t[k] = Space
    OBVIOUS
  <2>6. QED
    BY <1>7, <1>8, <1>9, <2>2, <2>3, <2>4, <2>5, Zenon DEF Laid
<1>11. QED
  BY <1>2, <1>10

\* ... and with the sign next to the digits.
LEMMA SignedIsLaid ==
  ASSUME NEW D \in Seq(Nat), NEW w \in Nat, NEW right \in BOOLEAN, NEW zeros \in BOOLEAN,
         w = 0 \/ zeros = FALSE,
         NEW t, t = prints(<<Minus>> \o D, w, right, zeros)
  PROVE  \E a \in Nat : Laid(t, a, 1, 0, D)
<1> DEFINE d == <<Minus>> \o D
<1>1. d \in Seq(Nat)
  BY SignedIs
<1>2. Len(d) = 1 + Len(D) /\ d[1] = Minus /\ \A k \in 1 .. Len(D) : d[1 + k] = D[k]
  BY SignedIs
<1>3. t = prints(d, w, right, zeros)
  OBVIOUS
<1> HIDE DEF d
<1>4. Padding(t, d, w, right, zeros)
  BY <1>1, <1>3, PrintsIn
<1>5. PICK r \in Seq(Nat), c \in {0, Space} :
        /\ \A k \in 1 .. Len(r) : r[k] = c
        /\ zeros = FALSE \/ w = 0 => c = Space
        /\ right = TRUE => t = d \o r
        /\ right = FALSE => t = r \o d
  BY <1>4, Zenon DEF Padding
<1>6. c = Space /\ c \in Nat /\ \A k \in 1 .. Len(r) : r[k] = c
  BY <1>5 DEF Space
<1>7. Len(D) \in Nat /\ Len(r) \in Nat
  OBVIOUS
<1>8. CASE right = TRUE
  <2>1. t = d \o r
    BY <1>5, <1>8
  <2>2. /\ t \in Seq(Nat) /\ Len(t) = Len(d) + Len(r)
        /\ \A k \in 1 .. Len(d) : t[k] = d[k]
        /\ \A k \in Len(d) + 1 .. Len(t) : t[k] = Space
    <3>1. /\ d \o r \in Seq(Nat) /\ Len(d \o r) = Len(d) + Len(r)
          /\ \A k \in 1 .. Len(d) : (d \o r)[k] = d[k]
          /\ \A k \in Len(d) + 1 .. Len(d \o r) : (d \o r)[k] = c
      BY ONLY <1>1, <1>6, PaddedAfter, r \in Seq(Nat)
    <3>2. QED
      BY <1>6, <2>1, <3>1, Zenon
  <2>3. t[1] = Minus
    <3>1. 1 \in 1 .. Len(d)
      BY <1>2, <1>7
    <3>2. QED
      BY <1>2, <2>2, <3>1
  <2>4. \A k \in 1 .. Len(D) : t[1 + k] = D[k]
    <3> TAKE k \in 1 .. Len(D)
    <3>1. 1 + k \in 1 .. Len(d)
      BY <1>2, <1>7
    <3>2. t[1 + k] = d[1 + k] /\ d[1 + k] = D[k]
      BY <1>2, <2>2, <3>1
    <3>3. QED
      BY <3>2
  <2>5. Laid(t, 0, 1, 0, D)
    <3>1. Len(t) >= 0 + 1 + 0 + Len(D) /\ 0 + 1 + 0 + Len(D) + 1 = Len(d) + 1
      BY <1>2, <1>7, <2>2
    <3>2. \A k \in 1 .. Len(D) : t[0 + 1 + 0 + k] = D[k]
      BY ONLY <2>4
    <3>3. 0 + 1 = 1 /\ (\A k \in 1 .. 0 : t[k] = Space) /\ \A k \in 1 .. 0 : t[0 + 1 + k] = 0
      OBVIOUS
    <3>4. QED
      BY <2>2, <2>3, <3>1, <3>2, <3>3, Zenon DEF Laid
  <2>6. QED
    BY <2>5
<1>9. CASE right = FALSE
  <2>1. t = r \o d
    BY <1>5, <1>9
  <2>2. /\ t \in Seq(Nat) /\ Len(t) = Len(r) + Len(d)
        /\ \A k \in 1 .. Len(r) : t[k] = Space
        /\ \A k \in 1 .. Len(d) : t[Len(r) + k] = d[k]
    <3>1. /\ r \o d \in Seq(Nat) /\ Len(r \o d) = Len(r) + Len(d)
          /\ \A k \in 1 .. Len(r) : (r \o d)[k] = c
          /\ \A k \in 1 .. Len(d) : (r \o d)[Len(r) + k] = d[k]
      BY ONLY <1>1, <1>6, PaddedBefore, r \in Seq(Nat)
    <3>2. QED
      BY <1>6, <2>1, <3>1, Zenon
  <2>3. t[Len(r) + 1] = Minus
    <3>1. 1 \in 1 .. Len(d)
      BY <1>2, <1>7
    <3>2. QED
      BY <1>2, <2>2, <3>1
  <2>4. \A k \in 1 .. Len(D) : t[Len(r) + 1 + 0 + k] = D[k]
    <3> TAKE k \in 1 .. Len(D)
    <3>1. 1 + k \in 1 .. Len(d) /\ Len(r) + (1 + k) = Len(r) + 1 + 0 + k
      BY <1>2, <1>7
    <3>2. t[Len(r) + (1 + k)] = d[1 + k] /\ d[1 + k] = D[k]
      BY <1>2, <2>2, <3>1
    <3>3. QED
      BY <3>1, <3>2
  <2>5. Laid(t, Len(r), 1, 0, D)
    <3>1. /\ Len(t) >= Len(r) + 1 + 0 + Len(D)
          /\ Len(r) + 1 + 0 + Len(D) + 1 > Len(t)
      BY <1>2, <1>7, <2>2
    <3>2. \A k \in Len(r) + 1 + 0 + Len(D) + 1 .. Len(t) : t[k] = Space
      BY <1>2, <1>7, <2>2, <3>1
    <3>3. \A k \in 1 .. 0 : t[Len(r) + 1 + k] = 0
      OBVIOUS
    <3>4. QED
      BY <2>2, <2>3, <2>4, <3>1, <3>2, <3>3, Zenon DEF Laid
  <2>6. QED
    BY <1>7, <2>5
<1>10. QED
  BY <1>8, <1>9

LEMMA TextIsLaid ==
  ASSUME NEW i \in 0 .. WordSize - 1, NEW f \in AnyFormat, ~(f.minus /\ f.zeros)
  PROVE  \E a, z \in Nat : Laid(printi(i, f).text, a, Signs(i, f), z, DigitsOf(i, f))
<1> DEFINE D == DigitsOf(i, f)
           t == printi(i, f).text
<1>1. /\ f.width \in Nat /\ f.minus \in BOOLEAN /\ f.zeros \in BOOLEAN
      /\ f.minus = TRUE => f.zeros = FALSE
  BY PrintfAssumption DEF AnyFormat
<1>2. D \in Seq(Nat)
  BY DigitsOfAre
<1>3. CASE ~Negative(f.conv, i)
  <2>1. t = prints(D, f.width, f.minus, f.zeros) /\ Signs(i, f) = 0
    BY <1>3, PrintiIs DEF Signs
  <2> HIDE DEF D, t
  <2>2. \E a, z \in Nat : Laid(t, a, 0, z, D)
    BY <1>1, <1>2, <2>1, UnsignedIsLaid, Zenon
  <2>3. QED
    BY <2>1, <2>2 DEF D, t
<1>4. CASE Ahead(i, f)
  <2>1. f.zeros = TRUE /\ f.minus = FALSE /\ f.width # 0 /\ Signs(i, f) = 1
    BY <1>1, <1>4 DEF Ahead, Signs
  <2>2. t = <<Minus>> \o prints(D, f.width - 1, f.minus, f.zeros)
    BY <1>4, PrintiIs
  <2> HIDE DEF D, t
  <2>3. t = <<Minus>> \o prints(D, f.width - 1, FALSE, TRUE)
    BY <2>1, <2>2, Zenon
  <2>4. f.width - 1 \in Nat
    BY <1>1, <2>1
  <2>5. \E z \in Nat : Laid(t, 0, 1, z, D)
    BY <1>2, <2>3, <2>4, AheadIsLaid, Zenon
  <2>6. QED
    BY <2>1, <2>5 DEF D, t
<1>5. CASE Negative(f.conv, i) /\ ~Ahead(i, f)
  <2>1. t = prints(<<Minus>> \o D, f.width, f.minus, f.zeros)
    BY <1>5, PrintiIs
  <2>2. Signs(i, f) = 1 /\ (f.width = 0 \/ f.zeros = FALSE)
    BY <1>1, <1>5 DEF Signs, Ahead
  <2> HIDE DEF D, t
  <2>3. \E a \in Nat : Laid(t, a, 1, 0, D)
    BY <1>1, <1>2, <2>1, <2>2, SignedIsLaid, Zenon
  <2>4. QED
    BY <2>2, <2>3 DEF D, t
<1>6. QED
  BY <1>3, <1>4, <1>5

-----------------------------------------------------------------------------
(* The conversion.                                                          *)

\* print has written nothing yet, or what printi makes of the argument.
Printed ==
  /\ format \in Formats /\ arg \in Values
  /\ \/ out = None /\ room = PRINT_BUF_LEN
     \/ /\ out = printi(arg, format).text /\ pc = Len(out)
        /\ room = PRINT_BUF_LEN - printi(arg, format).taken

LEMMA PrintedAlways == PrintSpec => []Printed
<1>1. PrintInit => Printed
  BY DEF PrintInit, Printed
<1>2. Printed /\ [PrintNext]_printvars => Printed'
  <2> SUFFICES ASSUME Printed, [PrintNext]_printvars PROVE Printed'
    OBVIOUS
  <2> HIDE DEF printi
  <2>1. CASE print
    BY <2>1 DEF print, Printed
  <2>2. CASE UNCHANGED printvars
    BY <2>2 DEF printvars, Printed
  <2>3. QED
    BY <2>1, <2>2 DEF PrintNext
<1>3. QED
  BY <1>1, <1>2, PTL DEF PrintSpec

LEMMA ValuesAre == Values \subseteq 0 .. WordSize - 1 /\ WordSize \in Nat /\ PRINT_BUF_LEN \in Nat
BY PrintfAssumption

LEMMA FormatsAre == Formats \subseteq AnyFormat
BY PrintfAssumption DEF Formats, AnyFormat

\* The text of a number reads back as that number, sign first.
LEMMA TextReadsBack ==
  ASSUME NEW i \in 0 .. WordSize - 1, NEW f \in AnyFormat, ~(f.minus /\ f.zeros), NEW t,
         t = printi(i, f).text
  PROVE  /\ ReadBack(t, Base(f.conv)) = IF Negative(f.conv, i) THEN WordSize - i ELSE i
         /\ \A k \in DOMAIN t :
              t[k] = Minus <=> /\ Negative(f.conv, i)
                               /\ t[k] # Space /\ \A m \in 1 .. k - 1 : t[m] = Space
<1> DEFINE D == DigitsOf(i, f)
           s == Signs(i, f)
           n == Len(D)
           b == Base(f.conv)
<1>1. PICK a \in Nat, z \in Nat : Laid(t, a, s, z, D)
  BY TextIsLaid
<1>2. s \in {0, 1} /\ (s = 1 <=> Negative(f.conv, i))
  BY DEF Signs
<1>3. n \in Nat /\ n > 0 /\ \A k \in 1 .. n : IsDigit(D[k])
  BY DigitsOfAre, ValuesAre
<1>4. b \in Bases
  BY DEF Base, Bases
<1> DEFINE x == a + s + z
<1>5. /\ t \in Seq(Nat) /\ Len(t) >= x + n
      /\ \A k \in 1 .. a : t[k] = Space
      /\ s = 1 => t[a + 1] = Minus
      /\ \A k \in 1 .. z : t[a + s + k] = 0
      /\ \A k \in 1 .. n : t[x + k] = D[k]
      /\ \A k \in x + n + 1 .. Len(t) : t[k] = Space
  BY <1>1 DEF Laid
<1>6. ~IsDigit(Minus) /\ ~IsDigit(Space) /\ Minus # Space /\ IsDigit(0)
  BY DEF IsDigit, Minus, Space
<1> HIDE DEF D, s, n, b
<1>7. x \in Nat /\ Len(t) \in Nat
  BY ONLY <1>2, <1>5
<1>8. ASSUME NEW k \in 1 .. x
      PROVE  t[k] = 0 \/ t[k] = Space \/ (t[k] = Minus /\ s = 1 /\ k = a + 1)
  <2>1. CASE k <= a
    BY ONLY <1>5, <1>8, <2>1
  <2>2. CASE s = 1 /\ k = a + 1
    BY ONLY <1>5, <2>2
  <2>3. CASE k > a + s
    <3>1. k - (a + s) \in 1 .. z /\ a + s + (k - (a + s)) = k
      BY ONLY <1>2, <1>8, <2>3, a \in Nat, z \in Nat
    <3>2. QED
      BY ONLY <1>5, <3>1
  <2>4. k <= a \/ (s = 1 /\ k = a + 1) \/ k > a + s
    BY ONLY <1>2, <1>8, a \in Nat, z \in Nat
  <2>5. QED
    BY ONLY <2>1, <2>2, <2>3, <2>4
<1>9. ReadBack(t, b) = IF Negative(f.conv, i) THEN WordSize - i ELSE i
  <2>1. \A k \in 1 .. x : t[k] = 0 \/ ~IsDigit(t[k])
    BY ONLY <1>6, <1>8
  <2>2. \A k \in x + n + 1 .. Len(t) : ~IsDigit(t[k])
    BY ONLY <1>5, <1>6
  <2>3. CASE i = 0
    <3>1. n = 1 /\ D[1] = 0 /\ ~Negative(f.conv, i)
      BY <2>3, ZeroIsNotNegative DEF D, n, DigitsOf
    <3>2. ASSUME NEW k \in 1 .. Len(t) PROVE t[k] = 0 \/ ~IsDigit(t[k])
      <4>1. CASE k <= x
        BY ONLY <1>7, <2>1, <3>2, <4>1
      <4>2. CASE k = x + 1
        BY ONLY <1>5, <3>1, <4>2
      <4>3. CASE k > x + 1
        BY ONLY <1>7, <2>2, <3>1, <3>2, <4>3
      <4>4. QED
        BY ONLY <1>7, <3>2, <4>1, <4>2, <4>3
    <3>3. ReadBack(t, b) = 0
      BY ONLY <1>4, <1>5, <3>2, ReadBackZero
    <3>4. QED
      BY ONLY <2>3, <3>1, <3>3
  <2>4. CASE i # 0
    <3> DEFINE u == Unsigned(i, f)
    <3>1. i \in 1 .. WordSize - 1
      BY <2>4, ValuesAre
    <3>2. u \in 1 .. WordSize - 1 /\ u = IF Negative(f.conv, i) THEN WordSize - i ELSE i
      BY <3>1, UnsignedIs
    <3>3. D = Digits(u, b)
      BY <2>4 DEF D, DigitsOf, b
    <3> HIDE DEF u, x
    <3>4. n = Len(Digits(u, b)) /\ \A k \in 1 .. Len(Digits(u, b)) : t[x + k] = Digits(u, b)[k]
      BY ONLY <1>5, <3>3 DEF n
    <3>5. x + Len(Digits(u, b)) <= Len(t)
      BY ONLY <1>3, <1>5, <1>7, <3>4
    <3>6. \A k \in x + Len(Digits(u, b)) + 1 .. Len(t) : ~IsDigit(t[k])
      BY ONLY <2>2, <3>4
    <3>7. ReadBack(t, b) = u
      BY ONLY <1>4, <1>5, <1>7, <2>1, <3>2, <3>4, <3>5, <3>6, ReadBackIs
    <3>8. QED
      BY ONLY <3>2, <3>7
  <2>5. QED
    BY ONLY <2>3, <2>4
<1>10. ASSUME NEW k \in DOMAIN t
       PROVE  t[k] = Minus <=> /\ Negative(f.conv, i)
                               /\ t[k] # Space /\ \A m \in 1 .. k - 1 : t[m] = Space
  <2>1. k \in 1 .. Len(t)
    BY ONLY <1>5, <1>10
  <2>2. t[k] = Minus => s = 1 /\ k = a + 1
    <3>1. CASE k <= x
      BY ONLY <1>6, <1>7, <1>8, <2>1, <3>1 DEF Minus, Space
    <3>2. CASE k > x /\ k <= x + n
      <4>1. k - x \in 1 .. n /\ x + (k - x) = k
        BY ONLY <1>3, <1>7, <2>1, <3>2
      <4>2. IsDigit(t[k])
        BY ONLY <1>3, <1>5, <4>1
      <4>3. QED
        BY ONLY <1>6, <4>2
    <3>3. CASE k > x + n
      BY ONLY <1>3, <1>5, <1>6, <1>7, <2>1, <3>3
    <3>4. QED
      BY ONLY <1>3, <1>7, <2>1, <3>1, <3>2, <3>3
  <2>3. s = 1 /\ k = a + 1 => t[k] = Minus /\ \A m \in 1 .. k - 1 : t[m] = Space
    BY ONLY <1>5, a \in Nat
  <2>4. ASSUME s = 1, t[k] # Space, \A m \in 1 .. k - 1 : t[m] = Space
        PROVE  k = a + 1
    <3>1. ~(k <= a)
      BY ONLY <1>5, <2>1, <2>4
    <3>2. ~(k > a + 1)
      <4>1. k > a + 1 => a + 1 \in 1 .. k - 1
        BY ONLY <2>1, a \in Nat
      <4>2. t[a + 1] = Minus
        BY ONLY <1>5, <2>4
      <4>3. QED
        BY ONLY <1>6, <2>4, <4>1, <4>2
    <3>3. QED
      BY ONLY <2>1, <3>1, <3>2, a \in Nat
  <2>5. QED
    BY ONLY <1>2, <1>6, <2>2, <2>3, <2>4
<1>11. QED
  BY <1>9, <1>10 DEF b

\* Every word that print writes is read back as the number it is, its sign first.
THEOREM PrintReadsBack == PrintSpec => []NumberReadsBack
<1>1. Printed => NumberReadsBack
  <2> SUFFICES ASSUME Printed, out # None, ~(format.minus /\ format.zeros)
               PROVE  /\ ReadBack(out, Base(format.conv)) = NumberMeant
                      /\ \A k \in DOMAIN out :
                           out[k] = Minus <=> /\ Negative(format.conv, arg)
                                              /\ out[k] # Space /\ \A m \in 1 .. k - 1 : out[m] = Space
    BY DEF NumberReadsBack
  <2>1. out = printi(arg, format).text /\ arg \in 0 .. WordSize - 1 /\ format \in Formats
    BY ValuesAre DEF Printed
  <2>2. QED
    <3>1. format \in AnyFormat
      BY <2>1, FormatsAre
    <3>2. ~(format.minus /\ format.zeros)
      OBVIOUS
    <3>3. /\ ReadBack(out, Base(format.conv)) = IF Negative(format.conv, arg) THEN WordSize - arg ELSE arg
          /\ \A k \in DOMAIN out :
               out[k] = Minus <=> /\ Negative(format.conv, arg)
                                  /\ out[k] # Space /\ \A m \in 1 .. k - 1 : out[m] = Space
      BY ONLY <2>1, <3>1, <3>2, TextReadsBack
    <3>4. QED
      BY <3>3 DEF NumberMeant
<1>2. QED
  BY <1>1, PrintedAlways, PTL

\* A conversion is as wide as its field asks, or as its number.
THEOREM PrintFillsField == PrintSpec => []FillsField
<1>1. Printed => FillsField
  <2> SUFFICES ASSUME Printed, out # None
               PROVE  Len(out) = Max({format.width,
                                      Len(printi(arg, [format EXCEPT !.width = 0]).text)}) /\ pc = Len(out)
    BY DEF FillsField
  <2> DEFINE f0 == [format EXCEPT !.width = 0]
             n == Signs(arg, format) + Len(DigitsOf(arg, format))
  <2>1. out = printi(arg, format).text /\ pc = Len(out) /\ arg \in 0 .. WordSize - 1 /\ format \in Formats
    BY ValuesAre DEF Printed
  <2>2. format \in AnyFormat /\ format.width \in Nat
    BY <2>1, FormatsAre DEF AnyFormat
  <2>3. f0 \in AnyFormat /\ f0.width = 0 /\ f0.conv = format.conv
    BY <2>2 DEF AnyFormat
  <2>4. Signs(arg, f0) = Signs(arg, format) /\ DigitsOf(arg, f0) = DigitsOf(arg, format)
    BY <2>3 DEF Signs, DigitsOf, Unsigned
  <2>5. Len(DigitsOf(arg, format)) \in Nat /\ Len(DigitsOf(arg, format)) > 0
    BY <2>1, <2>2, DigitsOfAre, ValuesAre
  <2> HIDE DEF f0
  <2>6. n \in Nat
    BY <2>5 DEF Signs
  <2>7. Len(out) = Wider(format.width, n)
    BY <2>1, <2>2, TextLength
  <2>8. Len(printi(arg, f0).text) = Wider(0, n)
    BY <2>1, <2>3, <2>4, TextLength
  <2> HIDE DEF n
  <2>9. Wider(0, n) = n
    BY <2>6 DEF Wider
  <2>10. \A v, w \in Nat : Max({v, w}) = Wider(v, w)
    BY DEF Max, Wider
  <2>11. QED
    BY <2>1, <2>2, <2>6, <2>7, <2>8, <2>9, <2>10 DEF f0
<1>2. QED
  BY <1>1, PrintedAlways, PTL

\* print_buf takes the sign, the digits of every word, and the NUL: the comment at
\* its size is right.
THEOREM PrintBufferSuffices == PrintSpec => []BufferSuffices
<1>1. Printed => BufferSuffices
  <2> SUFFICES ASSUME Printed PROVE room >= 0
    BY DEF BufferSuffices
  <2>1. CASE out = None /\ room = PRINT_BUF_LEN
    BY <2>1, ValuesAre
  <2>2. CASE room = PRINT_BUF_LEN - printi(arg, format).taken
    <3> DEFINE D == DigitsOf(arg, format)
               taken == printi(arg, format).taken
    <3>1. arg \in 0 .. WordSize - 1 /\ format \in AnyFormat
      BY ValuesAre, FormatsAre DEF Printed
    <3>2. D \in Seq(Nat) /\ Len(D) \in 1 .. PRINT_BUF_LEN - 2
      BY <3>1, DigitsOfAre
    <3>3. Len(<<Minus>> \o D) = 1 + Len(D)
      BY <3>2, SignedIs
    <3>4. taken \in {Len(D) + 1, Len(<<Minus>> \o D) + 1}
      BY <3>1, PrintiIs DEF Ahead
    <3> HIDE DEF D, taken
    <3>5. taken \in Int /\ taken <= PRINT_BUF_LEN
      BY <3>2, <3>3, <3>4, ValuesAre
    <3>6. QED
      BY <2>2, <3>5, ValuesAre DEF taken
  <2>3. QED
    BY <2>1, <2>2 DEF Printed
<1>2. QED
  BY <1>1, PrintedAlways, PTL

-----------------------------------------------------------------------------
(* Lines.                                                                   *)

Lines == [0 .. LineSize -> Characters]

LEMMA SizesAre ==
  /\ LineSize \in Nat /\ LineSize > 3 /\ Word \in Nat /\ Word > LineSize + 3
  /\ Cardinality(0 .. LineSize) = LineSize + 1
<1>1. LineSize \in Nat /\ LineSize > 3 /\ Word \in Nat /\ Word > LineSize + 3
  BY ShellAssumption
<1>2. Cardinality(0 .. LineSize) = LineSize + 1
  BY <1>1, FS_Interval
<1>3. QED
  BY <1>1, <1>2

LEMMA CharactersAre == /\ NUL \in Characters /\ CR \in Characters /\ LF \in Characters
                       /\ "h" \in Characters /\ Packets \subseteq Seq(Characters)
<1>1. ASSUME NEW p \in Packets PROVE p \in Seq(Characters)
  <2>1. p \in Seq(STRING)
    BY ShellAssumption
  <2>2. \A k \in 1 .. Len(p) : p[k] \in Range(p)
    BY <2>1 DEF Range
  <2>3. \A k \in 1 .. Len(p) : p[k] \in Characters
    BY <2>2 DEF Characters
  <2>4. QED
    BY <2>1, <2>3
<1>2. NUL \in Characters /\ CR \in Characters /\ LF \in Characters /\ "h" \in Characters
  <2> DEFINE typed == UNION {Range(p) : p \in Packets}
  <2>1. Characters = {CR, LF, NUL, "h"} \cup typed
    BY DEF Characters
  <2> HIDE DEF typed
  <2>2. QED
    BY <2>1
<1>3. QED
  BY <1>1, <1>2

LEMMA BelowZero == ASSUME NEW w \in Nat, w > 3 PROVE (0 - 1) % w = w - 1
<1> DEFINE q == (0 - 1) \div w
           r == (0 - 1) % w
<1>1. q \in Int /\ r \in Int /\ 0 <= r /\ r < w
  OBVIOUS
<1>2. 0 - 1 = w * q + r
  OBVIOUS
<1> HIDE DEF q, r
<1>3. q < 0
  <2>1. q >= 0 => w * q >= 0
    BY <1>1
  <2>2. QED
    BY <1>1, <1>2, <2>1
<1>4. q > -2
  <2>1. q <= -2 => w * q <= w * (-2)
    BY <1>1
  <2>2. w * q \in Int
    BY <1>1
  <2>3. QED
    BY <1>1, <1>2, <2>1, <2>2
<1>5. q = -1
  BY <1>1, <1>3, <1>4
<1>6. QED
  BY <1>1, <1>2, <1>5 DEF r

LEMMA LeastIsMin ==
  ASSUME NEW S \in SUBSET Nat, S # {}
  PROVE  Min(S) \in S /\ \A k \in S : Min(S) <= k
<1>1. PICK n \in S : \A k \in S : n <= k
  BY Least
<1>2. QED
  BY <1>1 DEF Min

\* A C string ends at its first NUL.
LEMMA CStringIs ==
  ASSUME NEW a \in Lines, NEW m \in 0 .. LineSize, a[m] = NUL
  PROVE  \E e \in 0 .. m : /\ CString(a, 0) = [k \in 1 .. e |-> a[k - 1]]
                           /\ a[e] = NUL /\ \A k \in 0 .. e - 1 : a[k] # NUL
<1> DEFINE nuls == {k \in DOMAIN a : k >= 0 /\ a[k] = NUL}
           e == Min(nuls)
<1>1. LineSize \in Nat /\ DOMAIN a = 0 .. LineSize
  BY SizesAre DEF Lines
<1>2. m \in nuls /\ nuls \in SUBSET Nat
  BY <1>1
<1>3. e \in nuls /\ \A k \in nuls : e <= k
  BY <1>2, LeastIsMin
<1>4. nuls # {}
  BY <1>2
<1>5. CString(a, 0) = [k \in 1 .. e - 0 |-> a[0 + k - 1]]
  BY <1>4 DEF CString
<1> HIDE DEF e
<1>6. e \in 0 .. m /\ a[e] = NUL /\ \A k \in 0 .. e - 1 : a[k] # NUL
  BY <1>1, <1>2, <1>3
<1>7. e - 0 = e /\ \A k \in 1 .. e : 0 + k - 1 = k - 1
  BY <1>6
<1>8. CString(a, 0) = [k \in 1 .. e |-> a[k - 1]]
  BY <1>5, <1>7
<1>9. QED
  BY <1>6, <1>8

LEMMA UpToNulIs ==
  ASSUME NEW s \in Seq(Characters), NEW e \in 0 .. Len(s), \A k \in 1 .. e : s[k] # NUL,
         e = Len(s) \/ s[e + 1] = NUL
  PROVE  UpToNul(s) = [k \in 1 .. e |-> s[k]]
<1> DEFINE S == {k \in 1 .. Len(s) + 1 : k > Len(s) \/ s[k] = NUL}
<1>1. e + 1 \in S /\ S \in SUBSET Nat
  OBVIOUS
<1>2. \A k \in S : e + 1 <= k
  OBVIOUS
<1>3. Min(S) = e + 1
  <2>1. Min(S) \in S /\ \A k \in S : Min(S) <= k
    BY <1>1, LeastIsMin
  <2>2. QED
    BY <1>1, <1>2, <2>1
<1>4. UpToNul(s) = SubSeq(s, 1, Min(S) - 1)
  BY DEF UpToNul
<1> HIDE DEF S
<1>5. UpToNul(s) = SubSeq(s, 1, e)
  BY <1>3, <1>4
<1>6. SubSeq(s, 1, e) = [k \in 1 .. e |-> s[k]]
  OBVIOUS
<1>7. QED
  BY <1>5, <1>6

-----------------------------------------------------------------------------
(* The tokenizer.                                                           *)

TokenStates ==
  [line : Lines, jj : Nat, argstart : Int, args : Seq(Nat), error : BOOLEAN, wholeLength : Int]

LEMMA LengthIs == ASSUME NEW a \in Lines, a[LineSize] = NUL PROVE Len(CString(a, 0)) \in 0 .. LineSize
<1>1. LineSize \in 0 .. LineSize
  BY SizesAre
<1>2. PICK e \in 0 .. LineSize : CString(a, 0) = [k \in 1 .. e |-> a[k - 1]]
  BY <1>1, CStringIs
<1>3. Len([k \in 1 .. e |-> a[k - 1]]) = e
  OBVIOUS
<1>4. QED
  BY <1>2, <1>3

LEMMA ClosingIs ==
  ASSUME NEW st \in TokenStates, st.line[LineSize] = NUL
  PROVE  Closing(st) \in Nat
<1> DEFINE n == Len(CString(st.line, 0))
           q == {k \in st.jj + 1 .. n - 1 : st.line[k] = st.line[st.jj]}
           m == Max({st.jj + 1, n})
<1>1. n \in Nat /\ st.jj \in Nat
  BY LengthIs, SizesAre DEF TokenStates
<1>2. Closing(st) = Min({m} \cup q)
  BY DEF Closing
<1> HIDE DEF n
<1>3. m \in Nat
  BY <1>1 DEF Max
<1> HIDE DEF m
<1>4. {m} \cup q \in SUBSET Nat /\ {m} \cup q # {}
  BY <1>1, <1>3
<1>5. QED
  BY <1>2, <1>4, LeastIsMin

LEMMA TurnIn ==
  ASSUME NEW st \in TokenStates, st.line[LineSize] = NUL
  PROVE  Turn(st) \in TokenStates /\ Turn(st).line[LineSize] = NUL
<1> USE DEF TokenStates, Lines
<1>1. LineSize \in Nat /\ LineSize \in 0 .. LineSize /\ NUL \in Characters
  BY SizesAre, CharactersAre
<1>2. Quoted(st) \in TokenStates /\ Quoted(st).line[LineSize] = NUL
  <2>1. Closing(st) \in Nat
    BY ClosingIs
  <2> DEFINE kk == Closing(st)
  <2> HIDE DEF kk
  <2>2. CASE st.line[kk] # st.line[st.jj]
    <3>1. Quoted(st) = [st EXCEPT !.error = TRUE]
      BY <2>2 DEF Quoted, kk
    <3>2. QED
      BY <3>1
  <2>3. CASE st.line[kk] = st.line[st.jj]
    <3>1. Quoted(st) = [st EXCEPT !.line[kk] = NUL, !.args = Append(@, st.jj + 1), !.jj = kk + 2]
      BY <2>3 DEF Quoted, kk
    <3>2. kk + 2 \in Nat /\ Append(st.args, st.jj + 1) \in Seq(Nat)
      BY <2>1 DEF kk
    <3>3. [st.line EXCEPT ![kk] = NUL] \in Lines /\ [st.line EXCEPT ![kk] = NUL][LineSize] = NUL
      BY <1>1
    <3>4. QED
      BY <3>1, <3>2, <3>3
  <2>4. QED
    BY <2>2, <2>3
<1>3. Blank(st) \in TokenStates /\ Blank(st).line[LineSize] = NUL
  <2>1. CASE st.argstart < 0
    BY <2>1 DEF Blank
  <2>2. CASE ~(st.argstart < 0)
    <3>1. Blank(st) = [st EXCEPT !.line[st.jj] = NUL, !.args = Append(@, st.argstart),
                                 !.argstart = -1, !.jj = @ + 1]
      BY <2>2 DEF Blank
    <3>2. st.jj + 1 \in Nat /\ Append(st.args, st.argstart) \in Seq(Nat) /\ -1 \in Int
      BY <2>2
    <3>3. [st.line EXCEPT ![st.jj] = NUL] \in Lines /\ [st.line EXCEPT ![st.jj] = NUL][LineSize] = NUL
      BY <1>1
    <3>4. QED
      BY <3>1, <3>2, <3>3
  <2>3. QED
    BY <2>1, <2>2
<1>4. Other(st) \in TokenStates /\ Other(st).line[LineSize] = NUL
  <2>1. /\ (IF st.argstart < 0 THEN st.jj ELSE st.argstart) \in Int /\ st.jj + 1 \in Nat
    OBVIOUS
  <2>2. Other(st) = [st EXCEPT !.argstart = IF st.argstart < 0 THEN st.jj ELSE st.argstart,
                               !.jj = st.jj + 1]
    BY DEF Other
  <2>3. QED
    BY <2>1, <2>2
<1>5. QED
  BY <1>2, <1>3, <1>4 DEF Turn

\* What the loop has made of the line after each turn.
LEMMA TurnsAre ==
  ASSUME NEW a \in Lines, a[LineSize] = NUL
  PROVE  /\ Turns(a)[0] = Start(a)
         /\ \A n \in 0 .. LineSize : Turns(a)[n + 1] = Turn(Turns(a)[n])
         /\ \A n \in 0 .. LineSize + 1 :
              Turns(a)[n] \in TokenStates /\ Turns(a)[n].line[LineSize] = NUL
<1> DEFINE m == LineSize + 1
           V == {st \in TokenStates : st.line[LineSize] = NUL}
           D == [n \in 1 .. m |-> [st \in V |-> Turn(st)]]
           Def(g) == [n \in 0 .. m |-> IF n = 0 THEN Start(a) ELSE Turn(g[n - 1])]
<1>1. m \in Nat /\ LineSize \in Nat
  BY SizesAre
<1>2. Cardinality(DOMAIN a) = m
  BY SizesAre DEF Lines
<1>3. Start(a) \in V
  <2>1. Len(CString(a, 0)) \in Int
    BY LengthIs, SizesAre
  <2> DEFINE w == IF Len(CString(a, 0)) = COMMAND_SIZE THEN Len(CString(a, 0)) - 1 ELSE Len(CString(a, 0))
  <2>2. w \in Int
    BY <2>1
  <2>3. Start(a) = [line |-> a, jj |-> 0, argstart |-> -1, args |-> <<>>, error |-> FALSE,
                    wholeLength |-> w]
    BY DEF Start
  <2> HIDE DEF w
  <2>4. <<>> \in Seq(Nat) /\ -1 \in Int
    OBVIOUS
  <2>5. QED
    BY <2>2, <2>3, <2>4 DEF TokenStates
<1>4. \A st \in V : Turn(st) \in V
  BY TurnIn
<1>5. Turns(a) = CHOOSE g : g = Def(g)
  BY <1>2 DEF Turns
<1> HIDE DEF m
<1>6. \E g : g = Def(g)
  <2>1. D \in [1 .. m -> [V -> V]]
    BY <1>4
  <2> HIDE DEF D, V
  <2>2. PICK g : Solves(g, m, V, Start(a), D)
    BY <1>1, <1>3, <2>1, Recursion
  <2>3. ASSUME NEW n \in 1 .. m PROVE g[n] = Turn(g[n - 1])
    <3>1. n - 1 \in 0 .. m /\ g[n - 1] \in V /\ g[n] = D[n][g[n - 1]]
      BY <1>1, <2>2 DEF Solves
    <3>2. D[n] = [st \in V |-> Turn(st)]
      BY DEF D
    <3>3. QED
      BY <3>1, <3>2
  <2>4. g = Def(g)
    BY <2>2, <2>3 DEF Solves
  <2>5. QED
    BY <2>4
<1> DEFINE g == Turns(a)
<1>7. g = Def(g)
  BY <1>5, <1>6
<1> HIDE DEF g
<1>8. g[0] = Start(a)
  BY <1>1, <1>7
<1>9. ASSUME NEW n \in 0 .. m - 1 PROVE g[n + 1] = Turn(g[n])
  <2>1. n + 1 \in 0 .. m /\ n + 1 # 0 /\ n + 1 - 1 = n
    BY <1>1
  <2>2. \A k \in 0 .. m : k # 0 => g[k] = Turn(g[k - 1])
    BY <1>7
  <2>3. QED
    BY <2>1, <2>2
<1> DEFINE S == {n \in 0 .. m : g[n] \in V}
<1>10. 0 \in S /\ S \in SUBSET Nat
  BY <1>1, <1>3, <1>8
<1>11. ASSUME NEW n \in S, n < m PROVE n + 1 \in S
  <2>1. n \in 0 .. m - 1 /\ n + 1 \in 0 .. m /\ g[n] \in V
    BY <1>1, <1>11
  <2>2. QED
    BY <1>4, <1>9, <2>1
<1> HIDE DEF S
<1>12. 0 .. m \subseteq S
  BY <1>1, <1>10, <1>11, UpTo
<1>13. \A n \in 0 .. m : g[n] \in V
  BY <1>12 DEF S
<1>14. m - 1 = LineSize
  BY <1>1 DEF m
<1>15. QED
  BY <1>8, <1>9, <1>13, <1>14 DEF g, m

LEMMA TokenizedIs ==
  ASSUME NEW a \in Lines, a[LineSize] = NUL
  PROVE  Tokenize(a) \in TokenStates /\ Tokenize(a).line[LineSize] = NUL
<1> DEFINE st == Turns(a)[LineSize + 1]
<1>1. LineSize \in Nat /\ LineSize \in 0 .. LineSize
  BY SizesAre
<1>0. NUL \in Characters
  BY CharactersAre
<1>2. st \in TokenStates /\ st.line[LineSize] = NUL
  BY <1>1, TurnsAre
<1>3. Tokenize(a) = Finish(st)
  BY SizesAre DEF Tokenize, Lines
<1> HIDE DEF st
<1>4. CASE st.error \/ st.argstart < 0
  BY <1>2, <1>3, <1>4 DEF Finish
<1>5. CASE ~(st.error \/ st.argstart < 0)
  <2>1. Finish(st) = [st EXCEPT !.line[st.jj] = NUL, !.args = Append(@, st.argstart)]
    BY <1>5 DEF Finish
  <2>2. st.argstart \in Nat
    BY <1>2, <1>5 DEF TokenStates
  <2>3. Append(st.args, st.argstart) \in Seq(Nat)
    BY <1>2, <2>2 DEF TokenStates
  <2>4. [st.line EXCEPT ![st.jj] = NUL] \in Lines /\ [st.line EXCEPT ![st.jj] = NUL][LineSize] = NUL
    BY <1>0, <1>1, <1>2 DEF TokenStates, Lines
  <2>5. st = [line |-> st.line, jj |-> st.jj, argstart |-> st.argstart, args |-> st.args,
               error |-> st.error, wholeLength |-> st.wholeLength]
    BY ONLY <1>2 DEF TokenStates
  <2>6. Finish(st) = [line |-> [st.line EXCEPT ![st.jj] = NUL], jj |-> st.jj, argstart |-> st.argstart,
                      args |-> Append(st.args, st.argstart), error |-> st.error,
                      wholeLength |-> st.wholeLength]
    BY ONLY <2>1, <2>5
  <2>7. QED
    BY ONLY <1>2, <1>3, <2>3, <2>4, <2>6 DEF TokenStates
<1>6. QED
  BY <1>4, <1>5

-----------------------------------------------------------------------------
(* Words.                                                                   *)

\* Where a line has its quotes: nowhere (p = q = 0), or around its first word.
QuotedAt(s, p, q) ==
  \/ p = 0 /\ q = 0 /\ \A k \in 1 .. Len(s) : s[k] \notin Quotes
  \/ /\ p \in 1 .. Len(s) /\ q \in p + 1 .. Len(s) /\ s[p] = s[q]
     /\ \A k \in 1 .. Len(s) : s[k] \in Quotes <=> k = p \/ k = q
     /\ \A k \in 1 .. p - 1 : s[k] \in Blanks
     /\ q < Len(s) => s[q + 1] \in Blanks

\* The characters of its words.
Wordy(s, p, q) ==
  \A i \in Int : InWord(s, i) <=> i \in 1 .. Len(s) /\ (s[i] \notin Blanks \/ (p < i /\ i <= q))

LEMMA NotBoth == \A c \in Quotes : c \notin Blanks
BY Zenon DEF Quotes, Blanks

LEMMA EvenQuotes == ASSUME NEW n \in Nat, n <= 2, n % 2 = 0, n # 0 PROVE n = 2
OBVIOUS

LEMMA Pair == ASSUME NEW x, NEW y, x # y PROVE Cardinality({x, y}) = 2
<1>1. IsFiniteSet({x}) /\ Cardinality({x}) = 1
  BY FS_Singleton
<1>2. Cardinality({x} \cup {y}) = 2
  <2>1. y \notin {x}
    OBVIOUS
  <2>2. Cardinality({x} \cup {y}) = IF y \in {x} THEN Cardinality({x}) ELSE Cardinality({x}) + 1
    BY <1>1, FS_AddElement, Zenon
  <2>3. QED
    BY ONLY <1>1, <2>1, <2>2
<1>3. {x, y} = {x} \cup {y}
  OBVIOUS
<1>4. QED
  BY ONLY <1>2, <1>3

LEMMA OtherOne ==
  ASSUME NEW S, NEW x, x \in S, IsFiniteSet(S), Cardinality(S) = 2
  PROVE  \E y : y # x /\ {x, y} = S
<1>1. IsFiniteSet(S \ {x}) /\ Cardinality(S \ {x}) = IF x \in S THEN Cardinality(S) - 1 ELSE Cardinality(S)
  BY FS_RemoveElement, Zenon
<1>2. Cardinality(S \ {x}) = 1
  BY ONLY <1>1, Cardinality(S) = 2, x \in S
<1>3. PICK y : S \ {x} = {y}
  BY ONLY <1>1, <1>2, FS_Singleton, Zenon
<1>4. QED
  BY <1>3

LEMMA QuotesAre ==
  ASSUME NEW s \in Seq(Characters), WellQuoted(s), FirstWordQuoted(s)
  PROVE  \E p, q \in 0 .. Len(s) : QuotedAt(s, p, q) /\ Wordy(s, p, q)
<1> DEFINE L == Len(s)
           Q == {k \in 1 .. L : s[k] \in Quotes}
           before(i) == {k \in 1 .. i - 1 : s[k] \in Quotes}
<1>1. L \in Nat /\ DOMAIN s = 1 .. L
  OBVIOUS
<1>2. IsFiniteSet(Q) /\ Cardinality(Q) \in Nat
  <2>1. IsFiniteSet(1 .. L) /\ Q \in SUBSET (1 .. L)
    BY ONLY <1>1, FS_Interval
  <2>2. IsFiniteSet(Q)
    BY ONLY <2>1, FS_Subset
  <2>3. QED
    BY ONLY <2>2, FS_CardinalityType
<1>3. /\ Cardinality({s[k] : k \in Q}) <= 1 /\ Cardinality(Q) % 2 = 0
      /\ \A k \in Q : IF QuotesBefore(s, k) % 2 = 0 THEN ~InWord(s, k - 1) ELSE ~InWord(s, k + 1)
  BY <1>1 DEF WellQuoted
<1>4. Cardinality(Q) <= 2 /\ (Q # {} => \A k \in 1 .. Min(Q) - 1 : s[k] \in Blanks)
  BY <1>1 DEF FirstWordQuoted
<1>5. \A i \in Int : QuotesBefore(s, i) = Cardinality(before(i))
  BY DEF QuotesBefore
<1>6. \A i \in Int : InWord(s, i) <=> i \in 1 .. L /\ (s[i] \notin Blanks \/ QuotesBefore(s, i) % 2 = 1)
  BY <1>1 DEF InWord
<1>7. CASE Q = {}
  <2>1. \A i \in 1 .. L : before(i) = {}
    BY ONLY <1>1, <1>7
  <2>2. \A i \in 1 .. L : QuotesBefore(s, i) = 0
    BY ONLY <1>1, <1>5, <2>1, FS_EmptySet
  <2>3. Wordy(s, 0, 0)
    <3>1. ASSUME NEW i \in 1 .. L PROVE ~(QuotesBefore(s, i) % 2 = 1) /\ ~(0 < i /\ i <= 0)
      BY ONLY <1>1, <2>2
    <3>2. QED
      BY ONLY <1>1, <1>6, <3>1 DEF Wordy
  <2>4. QuotedAt(s, 0, 0)
    BY ONLY <1>7 DEF QuotedAt
  <2>5. QED
    BY <1>1, <2>3, <2>4
<1>8. CASE Q # {}
  <2> DEFINE p == Min(Q)
  <2>1. p \in Q /\ \A k \in Q : p <= k
    <3>1. Q \in SUBSET Nat
      BY ONLY <1>1
    <3> HIDE DEF Q
    <3>2. QED
      BY ONLY <1>8, <3>1, LeastIsMin
  <2> HIDE DEF p
  <2>2. Cardinality(Q) = 2
    <3>1. Cardinality(Q) # 0
      BY ONLY <1>2, <1>8, FS_EmptySet
    <3>2. QED
      BY ONLY <1>2, <1>3, <1>4, <3>1, EvenQuotes
  <2>3. PICK q : q # p /\ Q = {p, q}
    <3> HIDE DEF Q
    <3>1. IsFiniteSet(Q) /\ p \in Q
      BY ONLY <1>2, <2>1
    <3>2. \E y : y # p /\ {p, y} = Q
      <4>1. Cardinality(Q) = 2 /\ IsFiniteSet(Q) /\ p \in Q
        BY ONLY <2>2, <3>1
      <4>2. QED
        BY ONLY <4>1, OtherOne, Zenon
    <3>3. QED
      BY ONLY <3>2
  <2>4. Q = {p, q} /\ p \in 1 .. L /\ q \in 1 .. L /\ p < q
    <3>1. q \in Q /\ p <= q
      BY ONLY <2>1, <2>3
    <3>2. QED
      BY ONLY <1>1, <2>1, <2>3, <3>1
  <2>5. s[p] = s[q]
    <3> SUFFICES ASSUME s[p] # s[q] PROVE FALSE
      OBVIOUS
    <3> DEFINE T == {s[k] : k \in Q}
    <3>1. T = {s[p], s[q]} /\ Cardinality(T) <= 1
      BY ONLY <1>3, <2>4
    <3>2. Cardinality({s[p], s[q]}) = 2
      BY ONLY s[p] # s[q], Pair
    <3> HIDE DEF T
    <3>3. Cardinality(T) = 2
      BY ONLY <3>1, <3>2
    <3>4. QED
      BY ONLY <3>1, <3>3
  <2>6. \A k \in 1 .. L : s[k] \in Quotes <=> k = p \/ k = q
    BY ONLY <2>4
  <2>7. \A i \in 1 .. L : QuotesBefore(s, i) % 2 = 1 <=> p < i /\ i <= q
    <3> TAKE i \in 1 .. L
    <3>1. QuotesBefore(s, i) = Cardinality(before(i))
      BY ONLY <1>1, <1>5
    <3>2. i <= p => before(i) = {}
      BY ONLY <1>1, <2>4, <2>6
    <3>3. p < i /\ i <= q => before(i) = {p}
      BY ONLY <1>1, <2>4, <2>6
    <3>4. q < i => before(i) = Q
      BY ONLY <1>1, <2>4, <2>6
    <3> HIDE DEF before, Q
    <3>5. i <= p => QuotesBefore(s, i) = 0
      BY ONLY <3>1, <3>2, FS_EmptySet
    <3>6. p < i /\ i <= q => QuotesBefore(s, i) = 1
      BY ONLY <3>1, <3>3, FS_Singleton
    <3>7. q < i => QuotesBefore(s, i) = 2
      BY ONLY <3>1, <3>4, <2>2
    <3>8. i \in Int /\ p \in Int /\ q \in Int /\ p < q
      BY ONLY <1>1, <2>4
    <3>9. QED
      BY ONLY <3>5, <3>6, <3>7, <3>8
  <2>8. Wordy(s, p, q)
    BY ONLY <1>1, <1>6, <2>7 DEF Wordy
  <2>9. q < L => s[q + 1] \in Blanks
    <3>1. QuotesBefore(s, q) % 2 = 1
      BY ONLY <1>1, <2>4, <2>7
    <3>2. ~InWord(s, q + 1)
      BY ONLY <1>3, <2>4, <3>1
    <3>3. q + 1 \in Int /\ (q < L => q + 1 \in 1 .. L)
      BY ONLY <1>1, <2>4
    <3>4. QED
      BY ONLY <1>6, <3>2, <3>3
  <2>10. \A k \in 1 .. p - 1 : s[k] \in Blanks
    BY <1>4, <1>8 DEF p
  <2>11. p \in 1 .. L /\ q \in p + 1 .. L /\ q \in 0 .. L /\ p \in 0 .. L
    BY ONLY <1>1, <2>4
  <2>12. QuotedAt(s, p, q)
    BY ONLY <2>5, <2>6, <2>9, <2>10, <2>11 DEF QuotedAt
  <2>13. QED
    BY ONLY <2>8, <2>11, <2>12
<1>9. QED
  BY <1>7, <1>8

\* A word ends where the run of its characters does.
LEMMA EndIs ==
  ASSUME NEW s \in Seq(Characters), NEW i \in 1 .. Len(s), InWord(s, i)
  PROVE  /\ End(s, i) \in i .. Len(s) /\ ~InWord(s, End(s, i) + 1)
         /\ \A k \in i .. End(s, i) : InWord(s, k)
         /\ \A e \in i .. Len(s) :
              ~InWord(s, e + 1) /\ (\A k \in i .. e : InWord(s, k)) => End(s, i) = e
<1> DEFINE S == {k \in i .. Len(s) : ~InWord(s, k + 1)}
<1>1. Len(s) \in Nat /\ ~InWord(s, Len(s) + 1)
  BY DEF InWord
<1>2. S \in SUBSET Nat /\ Len(s) \in S
  BY <1>1
<1>3. Min(S) \in S /\ \A k \in S : Min(S) <= k
  BY <1>2, LeastIsMin
<1>4. End(s, i) = Min(S)
  BY DEF End
<1> DEFINE e == End(s, i)
<1>5. e \in i .. Len(s) /\ ~InWord(s, e + 1) /\ \A k \in i .. e - 1 : InWord(s, k + 1)
  <2>1. e \in S /\ \A k \in S : e <= k
    BY ONLY <1>3, <1>4
  <2> HIDE DEF e
  <2>2. e \in i .. Len(s) /\ ~InWord(s, e + 1)
    BY ONLY <2>1
  <2>3. ASSUME NEW k \in i .. e - 1 PROVE InWord(s, k + 1)
    <3>1. k \in i .. Len(s) /\ ~(e <= k)
      BY ONLY <1>1, <2>2
    <3>2. QED
      BY ONLY <2>1, <3>1
  <2>4. QED
    BY ONLY <2>2, <2>3
<1> HIDE DEF e, S
<1>6. ASSUME NEW k \in i .. e PROVE InWord(s, k)
  <2>1. k = i \/ (k - 1 \in i .. e - 1 /\ k - 1 + 1 = k)
    BY ONLY <1>5, <1>1
  <2>2. QED
    BY <1>5, <2>1
<1>7. ASSUME NEW d \in i .. Len(s), ~InWord(s, d + 1), \A k \in i .. d : InWord(s, k)
      PROVE  e = d
  <2>1. e <= d
    BY ONLY <1>3, <1>4, <1>7 DEF e, S
  <2>2. ~(e < d)
    <3>1. e < d => e + 1 \in i .. d
      BY ONLY <1>1, <1>5
    <3>2. QED
      BY ONLY <1>5, <1>7, <3>1
  <2>3. QED
    BY ONLY <1>1, <1>5, <2>1, <2>2
<1>8. QED
  BY <1>5, <1>6, <1>7 DEF e

\* An increasing sequence of all numbers in S lists the first, the second, ...
LEMMA NthIs ==
  ASSUME NEW S \in SUBSET Nat, NEW f \in Seq(S),
         \A k \in 1 .. Len(f) : \A m \in 1 .. k - 1 : f[m] < f[k],
         \A i \in S : \E k \in 1 .. Len(f) : f[k] = i
  PROVE  Cardinality(S) = Len(f) /\ \A k \in 1 .. Len(f) : Nth(S, k) = f[k]
<1> DEFINE n == Len(f)
           upto(i) == {m \in S : m <= i}
<1>1. n \in Nat /\ f \in [1 .. n -> S]
  OBVIOUS
<1>2. \A k, m \in 1 .. n : (f[m] <= f[k] <=> m <= k) /\ f[k] \in Nat
  <2> TAKE k, m \in 1 .. n
  <2>1. f[k] \in Nat /\ f[m] \in Nat
    BY ONLY <1>1, S \in SUBSET Nat
  <2>2. m < k => m \in 1 .. k - 1
    BY ONLY <1>1
  <2>3. k < m => k \in 1 .. m - 1
    BY ONLY <1>1
  <2>4. (m < k => f[m] < f[k]) /\ (k < m => f[k] < f[m])
    BY <2>2, <2>3
  <2>5. QED
    BY ONLY <1>1, <2>1, <2>4
<1>3. ASSUME NEW k \in 0 .. n, NEW T, T = {f[m] : m \in 1 .. k} PROVE Cardinality(T) = k
  <2> DEFINE g == [m \in 1 .. k |-> f[m]]
  <2>1. k \in Nat /\ 1 .. k \subseteq 1 .. n
    BY ONLY <1>1
  <2>2. g \in [1 .. k -> T] /\ \A i \in T : \E m \in 1 .. k : g[m] = i
    BY ONLY <1>3
  <2>3. \A m, l \in 1 .. k : g[m] = g[l] => m = l
    <3> TAKE m, l \in 1 .. k
    <3>1. m \in 1 .. n /\ l \in 1 .. n /\ m \in Int /\ l \in Int
      BY ONLY <2>1
    <3>2. f[m] = f[l] => f[m] <= f[l] /\ f[l] <= f[m]
      BY ONLY <1>2, <3>1
    <3>3. f[m] = f[l] => m = l
      BY ONLY <1>2, <3>1, <3>2
    <3>4. QED
      BY ONLY <3>3
  <2> HIDE DEF g
  <2>4. g \in Bijection(1 .. k, T)
    BY ONLY <2>2, <2>3 DEF Bijection, Injection, Surjection, IsInjective
  <2>5. ExistsBijection(1 .. k, T)
    BY ONLY <2>4 DEF ExistsBijection
  <2>6. IsFiniteSet(1 .. k) /\ Cardinality(1 .. k) = k
    BY ONLY <2>1, FS_Interval
  <2>7. QED
    BY ONLY <2>5, <2>6, FS_Bijection
<1>4. S = {f[m] : m \in 1 .. n}
  BY <1>1
<1>5. \A k \in 1 .. n : upto(f[k]) = {f[m] : m \in 1 .. k}
  BY ONLY <1>1, <1>2, <1>4
<1>6. \A k \in 1 .. n : Cardinality(upto(f[k])) = k
  BY ONLY <1>1, <1>3, <1>5
<1>7. Cardinality(S) = n
  BY ONLY <1>1, <1>3, <1>4
<1>8. ASSUME NEW k \in 1 .. n PROVE Nth(S, k) = f[k]
  <2>1. f[k] \in S /\ Cardinality(upto(f[k])) = k
    BY <1>1, <1>6
  <2>2. ASSUME NEW i \in S, Cardinality(upto(i)) = k PROVE i = f[k]
    <3>1. PICK m \in 1 .. n : f[m] = i
      BY <1>4
    <3>2. Cardinality(upto(f[m])) = m
      BY <1>6
    <3>3. QED
      BY ONLY <2>2, <3>1, <3>2
  <2>3. QED
    BY ONLY <2>1, <2>2 DEF Nth
<1>9. QED
  BY <1>7, <1>8

\* The index at which a word begins for the argument vector, and that of the NUL
\* which ends it.
From(i, p) == IF i = p THEN i ELSE i - 1
Mark(s, i, p) == IF i = p THEN End(s, i) - 1 ELSE End(s, i)

\* In line b the word that begins at character i of s is whole and ended.
Ended(b, s, i, p) ==
  b[Mark(s, i, p)] = NUL /\ \A x \in From(i, p) .. Mark(s, i, p) - 1 : b[x] = s[x + 1]

\* Line a holds s, which has its quotes at p and q.
Holding(a, s, p, q) ==
  /\ a \in Lines /\ a[LineSize] = NUL
  /\ s \in Seq(Characters) /\ Len(s) \in 0 .. LineSize /\ Len(s) <= Len(CString(a, 0))
  /\ \A k \in 1 .. Len(s) : s[k] = a[k - 1] /\ s[k] # NUL
  /\ p \in 0 .. Len(s) /\ q \in 0 .. Len(s) /\ QuotedAt(s, p, q) /\ Wordy(s, p, q)

\* The words that begin up to character n have been found, at f: they are the
\* arguments v, and ended in line b before index n.
Cut(f, b, v, n, s, p) ==
  /\ f \in Seq(Starts(s)) /\ v \in Seq(Nat) /\ Len(v) = Len(f)
  /\ \A k \in 1 .. Len(f) : \A m \in 1 .. k - 1 : f[m] < f[k]
  /\ \A i \in Starts(s) : i <= n <=> \E k \in 1 .. Len(f) : f[k] = i
  /\ \A k \in 1 .. Len(f) : v[k] = From(f[k], p) /\ Mark(s, f[k], p) < n /\ Ended(b, s, f[k], p)

LEMMA StartsAre ==
  ASSUME NEW a, NEW s, NEW p, NEW q, Holding(a, s, p, q), NEW i \in Starts(s)
  PROVE  /\ i \in 1 .. Len(s) /\ InWord(s, i) /\ ~InWord(s, i - 1)
         /\ End(s, i) \in i .. Len(s)
         /\ i = p => End(s, i) = q /\ p < q
         /\ s[i] \in Quotes <=> i = p
<1>1. s \in Seq(Characters) /\ Len(s) \in Nat /\ DOMAIN s = 1 .. Len(s)
  BY DEF Holding
<1>2. i \in 1 .. Len(s) /\ InWord(s, i) /\ ~InWord(s, i - 1)
  BY <1>1 DEF Starts
<1>3. End(s, i) \in i .. Len(s)
  BY <1>1, <1>2, EndIs
<1>4. QuotedAt(s, p, q) /\ Wordy(s, p, q) /\ p \in Nat /\ q \in Nat
  BY DEF Holding
<1>5. ASSUME i = p PROVE End(s, i) = q /\ p < q
  <2>1. p > 0
    BY ONLY <1>1, <1>2, <1>5
  <2>2. /\ p \in 1 .. Len(s) /\ q \in p + 1 .. Len(s)
        /\ \A k \in 1 .. Len(s) : s[k] \in Quotes <=> k = p \/ k = q
        /\ q < Len(s) => s[q + 1] \in Blanks
    BY ONLY <1>4, <2>1 DEF QuotedAt
  <2>3. \A k \in p .. q : InWord(s, k)
    <3> TAKE k \in p .. q
    <3>1. k \in Int /\ k \in 1 .. Len(s) /\ (k = p \/ (p < k /\ k <= q))
      BY ONLY <1>1, <2>2
    <3>2. k = p => InWord(s, k)
      BY ONLY <1>2, <1>5
    <3>3. QED
      BY ONLY <1>4, <3>1, <3>2 DEF Wordy
  <2>4. ~InWord(s, q + 1)
    <3>1. q + 1 \in Int /\ ~(q + 1 <= q) /\ (q + 1 \in 1 .. Len(s) => q < Len(s))
      BY ONLY <1>1, <1>4
    <3>2. QED
      BY ONLY <1>4, <2>2, <3>1 DEF Wordy
  <2>5. q \in i .. Len(s)
    BY ONLY <1>1, <1>5, <2>2
  <2>6. End(s, i) = q
    BY ONLY <1>1, <1>2, <1>5, <2>3, <2>4, <2>5, EndIs
  <2>7. QED
    BY ONLY <1>1, <2>2, <2>6
<1>6. s[i] \in Quotes <=> i = p
  <2>1. CASE p = 0 /\ q = 0 /\ \A k \in 1 .. Len(s) : s[k] \notin Quotes
    BY ONLY <1>1, <1>2, <2>1
  <2>2. CASE /\ p \in 1 .. Len(s) /\ q \in p + 1 .. Len(s)
             /\ \A k \in 1 .. Len(s) : s[k] \in Quotes <=> k = p \/ k = q
    <3>1. i # q
      <4> SUFFICES ASSUME i = q PROVE FALSE
        OBVIOUS
      <4>1. q - 1 \in Int /\ q - 1 \in 1 .. Len(s) /\ (q - 1 = p \/ (p < q - 1 /\ q - 1 <= q))
        BY ONLY <1>1, <2>2
      <4>2. s[p] \in Quotes
        BY ONLY <2>2
      <4>3. s[p] \notin Blanks
        BY ONLY <4>2, NotBoth
      <4>4. InWord(s, q - 1)
        BY ONLY <1>4, <4>1, <4>3 DEF Wordy
      <4>5. QED
        BY ONLY <1>2, <4>4, i = q
    <3>2. QED
      BY ONLY <1>2, <2>2, <3>1
  <2>3. QED
    BY ONLY <1>4, <2>1, <2>2 DEF QuotedAt
<1>7. QED
  BY ONLY <1>2, <1>3, <1>5, <1>6

\* The word at i is the one that begins after n and no later than m; line b, of
\* which what is before index n is settled, has it whole, and its end is before m.
Grows(i, n, m, b, s, p) ==
  /\ n \in Nat /\ m \in Nat /\ b \in Lines /\ i \in Starts(s) /\ n < i /\ n <= m
  /\ \A x \in Starts(s) : x <= m <=> x <= n \/ x = i
  /\ n <= Mark(s, i, p) /\ Mark(s, i, p) < m /\ Mark(s, i, p) \in 0 .. LineSize
  /\ \A x \in From(i, p) .. Mark(s, i, p) - 1 : b[x] = s[x + 1]

\* Such a word is found and its end marked.
LEMMA CutGrows ==
  ASSUME NEW a, NEW s, NEW p, NEW q, Holding(a, s, p, q),
         NEW f, NEW b, NEW v, NEW n, Cut(f, b, v, n, s, p), NEW i, NEW m, Grows(i, n, m, b, s, p)
  PROVE  \E g : Cut(g, [b EXCEPT ![Mark(s, i, p)] = NUL], Append(v, From(i, p)), m, s, p)
<1> DEFINE g == Append(f, i)
           z == Mark(s, i, p)
           L == Len(f)
           c == [b EXCEPT ![Mark(s, i, p)] = NUL]
           w == Append(v, From(i, p))
<1>0. /\ n \in Nat /\ m \in Nat /\ b \in Lines /\ i \in Starts(s) /\ n < i /\ n <= m
      /\ \A x \in Starts(s) : x <= m <=> x <= n \/ x = i
      /\ n <= z /\ z < m /\ z \in 0 .. LineSize
      /\ \A x \in From(i, p) .. z - 1 : b[x] = s[x + 1]
  BY DEF Grows
<1>1. /\ f \in Seq(Starts(s)) /\ v \in Seq(Nat) /\ Len(v) = L
      /\ \A k \in 1 .. L : \A x \in 1 .. k - 1 : f[x] < f[k]
      /\ \A x \in Starts(s) : x <= n <=> \E k \in 1 .. L : f[k] = x
      /\ \A k \in 1 .. L : v[k] = From(f[k], p) /\ Mark(s, f[k], p) < n /\ Ended(b, s, f[k], p)
  BY DEF Cut
<1>2. \A x \in Starts(s) : x \in Nat /\ x >= 1 /\ From(x, p) \in Nat /\ Mark(s, x, p) \in Nat
  <2> TAKE x \in Starts(s)
  <2>1. x \in 1 .. Len(s) /\ End(s, x) \in x .. Len(s)
    BY ONLY Holding(a, s, p, q), StartsAre
  <2>0. Len(s) \in Nat
    BY DEF Holding
  <2>2. QED
    BY ONLY <2>0, <2>1 DEF From, Mark
<1>3. L \in Nat /\ g \in Seq(Starts(s)) /\ Len(g) = L + 1 /\ g[L + 1] = i /\ \A k \in 1 .. L : g[k] = f[k]
  BY ONLY <1>0, <1>1
<1>4. w \in Seq(Nat) /\ Len(w) = L + 1 /\ w[L + 1] = From(i, p) /\ \A k \in 1 .. L : w[k] = v[k]
  <2>1. From(i, p) \in Nat
    BY ONLY <1>0, <1>2
  <2>2. QED
    BY ONLY <1>1, <2>1 DEF w
<1>5. \A k \in 1 .. L : f[k] \in Starts(s) /\ f[k] <= n
  BY ONLY <1>1
<1>6. /\ c[z] = NUL /\ \A x \in 0 .. LineSize : x # z => c[x] = b[x]
  <2>1. DOMAIN b = 0 .. LineSize
    BY ONLY <1>0 DEF Lines
  <2>2. QED
    BY ONLY <1>0, <2>1 DEF c, z
<1>7. ASSUME NEW x \in Starts(s), Mark(s, x, p) < z, Ended(b, s, x, p) PROVE Ended(c, s, x, p)
  <2>1. Mark(s, x, p) \in 0 .. LineSize /\ z \in 0 .. LineSize /\ From(x, p) \in Nat /\ LineSize \in Nat
    BY ONLY <1>0, <1>2, <1>7, SizesAre
  <2> HIDE DEF z
  <2>2. \A y \in From(x, p) .. Mark(s, x, p) : c[y] = b[y]
    <3> TAKE y \in From(x, p) .. Mark(s, x, p)
    <3>1. y \in 0 .. LineSize /\ y # z
      BY ONLY <1>7, <2>1
    <3>2. QED
      BY ONLY <1>6, <3>1
  <2>3. c[Mark(s, x, p)] = b[Mark(s, x, p)]
    BY ONLY <1>6, <1>7, <2>1
  <2>4. \A y \in From(x, p) .. Mark(s, x, p) - 1 : c[y] = b[y]
    BY ONLY <2>1, <2>2
  <2>5. QED
    BY ONLY <1>7, <2>3, <2>4 DEF Ended
<1>8. Ended(c, s, i, p)
  <2>1. z \in 0 .. LineSize /\ From(i, p) \in Nat /\ LineSize \in Nat
    BY ONLY <1>0, <1>2, SizesAre
  <2>2. \A x \in From(i, p) .. z - 1 : c[x] = b[x]
    <3> HIDE DEF z
    <3> TAKE x \in From(i, p) .. z - 1
    <3>1. x \in 0 .. LineSize /\ x # z
      BY ONLY <2>1
    <3>2. QED
      BY ONLY <1>6, <3>1
  <2>3. \A x \in From(i, p) .. z - 1 : c[x] = s[x + 1]
    BY ONLY <1>0, <2>2
  <2>4. QED
    BY ONLY <1>6, <2>3 DEF Ended, z
<1> HIDE DEF g, L, z, c, w
<1>9. \A k \in 1 .. L + 1 : k = L + 1 \/ k \in 1 .. L
  BY ONLY <1>3
<1>10. \A k \in 1 .. L + 1 : \A x \in 1 .. k - 1 : g[x] < g[k]
  <2> TAKE k \in 1 .. L + 1
  <2> TAKE x \in 1 .. k - 1
  <2>1. x \in 1 .. L
    BY ONLY <1>3
  <2>2. CASE k = L + 1
    <3>1. f[x] <= n /\ f[x] \in Nat
      BY ONLY <1>2, <1>5, <2>1
    <3>2. i \in Nat /\ n \in Nat /\ n < i
      BY ONLY <1>0, <1>2
    <3>3. g[x] = f[x] /\ g[k] = i
      BY ONLY <1>3, <2>1, <2>2
    <3>4. QED
      BY ONLY <3>1, <3>2, <3>3
  <2>3. CASE k \in 1 .. L
    BY ONLY <1>1, <1>3, <2>1, <2>3
  <2>4. QED
    BY <1>9, <2>2, <2>3
<1>11. \A x \in Starts(s) : x <= m <=> \E k \in 1 .. L + 1 : g[k] = x
  <2> TAKE x \in Starts(s)
  <2>1. (\E k \in 1 .. L + 1 : g[k] = x) <=> (\E k \in 1 .. L : f[k] = x) \/ x = i
    BY ONLY <1>3, <1>9
  <2>2. x <= n <=> \E k \in 1 .. L : f[k] = x
    BY ONLY <1>1
  <2>3. x <= m <=> x <= n \/ x = i
    BY ONLY <1>0
  <2>4. QED
    BY ONLY <2>1, <2>2, <2>3
<1>12. \A k \in 1 .. L + 1 : w[k] = From(g[k], p) /\ Mark(s, g[k], p) < m /\ Ended(c, s, g[k], p)
  <2> TAKE k \in 1 .. L + 1
  <2>1. CASE k = L + 1
    <3>1. Mark(s, i, p) < m
      BY ONLY <1>0 DEF z
    <3>2. QED
      BY ONLY <1>3, <1>4, <1>8, <2>1, <3>1
  <2>2. CASE k \in 1 .. L
    <3>1. v[k] = From(f[k], p) /\ Mark(s, f[k], p) < n /\ Ended(b, s, f[k], p) /\ f[k] \in Starts(s)
      BY ONLY <1>1, <1>5, <2>2
    <3>2. Mark(s, f[k], p) \in Nat /\ n <= m /\ n <= z /\ n \in Nat /\ m \in Nat /\ z \in Nat
      <4>1. Mark(s, f[k], p) \in Nat
        BY ONLY <1>2, <3>1
      <4>2. QED
        BY ONLY <1>0, <4>1, SizesAre
    <3>3. Mark(s, f[k], p) < m /\ Mark(s, f[k], p) < z
      BY ONLY <3>1, <3>2
    <3>4. Ended(c, s, f[k], p)
      BY ONLY <1>7, <3>1, <3>3
    <3>5. QED
      BY ONLY <1>3, <1>4, <2>2, <3>1, <3>3, <3>4
  <2>3. QED
    BY <1>9, <2>1, <2>2
<1>13. Cut(g, c, w, m, s, p)
  BY ONLY <1>3, <1>4, <1>10, <1>11, <1>12 DEF Cut
<1>14. QED
  BY ONLY <1>13 DEF c, w

\* A character that begins no word.
LEMMA CutStays ==
  ASSUME NEW a, NEW s, NEW p, NEW q, Holding(a, s, p, q),
         NEW f, NEW b, NEW v, NEW n \in Nat, Cut(f, b, v, n, s, p), n + 1 \notin Starts(s)
  PROVE  Cut(f, b, v, n + 1, s, p)
<1>1. /\ f \in Seq(Starts(s)) /\ v \in Seq(Nat) /\ Len(v) = Len(f)
      /\ \A k \in 1 .. Len(f) : \A m \in 1 .. k - 1 : f[m] < f[k]
      /\ \A i \in Starts(s) : i <= n <=> \E k \in 1 .. Len(f) : f[k] = i
      /\ \A k \in 1 .. Len(f) : v[k] = From(f[k], p) /\ Mark(s, f[k], p) < n /\ Ended(b, s, f[k], p)
  BY DEF Cut
<1>2. \A x \in Starts(s) : x \in Nat /\ Mark(s, x, p) \in Nat
  <2> TAKE x \in Starts(s)
  <2>1. x \in 1 .. Len(s) /\ End(s, x) \in x .. Len(s)
    BY ONLY Holding(a, s, p, q), StartsAre
  <2>0. Len(s) \in Nat
    BY DEF Holding
  <2>2. QED
    BY ONLY <2>0, <2>1 DEF Mark
<1>3. \A i \in Starts(s) : i <= n + 1 <=> i <= n
  BY ONLY <1>2, n \in Nat, n + 1 \notin Starts(s)
<1>4. \A k \in 1 .. Len(f) : Mark(s, f[k], p) < n + 1
  <2> TAKE k \in 1 .. Len(f)
  <2>1. f[k] \in Starts(s) /\ Mark(s, f[k], p) < n
    BY ONLY <1>1
  <2>2. QED
    BY ONLY <1>2, <2>1, n \in Nat
<1>5. QED
  BY ONLY <1>1, <1>3, <1>4 DEF Cut

\* The words that have been found are read off the line as they are in s.
LEMMA CutReads ==
  ASSUME NEW a, NEW s, NEW p, NEW q, Holding(a, s, p, q),
         NEW f, NEW b \in Lines, NEW v, NEW n \in Nat, Cut(f, b, v, n, s, p), Len(s) <= n
  PROVE  [k \in DOMAIN v |-> CString(b, v[k])] = Words(s)
<1>1. /\ s \in Seq(Characters) /\ Len(s) \in Nat /\ Len(s) <= LineSize /\ LineSize \in Nat
      /\ \A k \in 1 .. Len(s) : s[k] # NUL
  BY SizesAre DEF Holding
<1>2. /\ f \in Seq(Starts(s)) /\ v \in Seq(Nat) /\ Len(v) = Len(f)
      /\ \A k \in 1 .. Len(f) : \A m \in 1 .. k - 1 : f[m] < f[k]
      /\ \A i \in Starts(s) : i <= n <=> \E k \in 1 .. Len(f) : f[k] = i
      /\ \A k \in 1 .. Len(f) : v[k] = From(f[k], p) /\ Ended(b, s, f[k], p)
  BY DEF Cut
<1>3. ASSUME NEW i \in Starts(s), Ended(b, s, i, p) PROVE CString(b, From(i, p)) = WordAt(s, i)
  <2>1. /\ i \in 1 .. Len(s) /\ End(s, i) \in i .. Len(s)
        /\ i = p => End(s, i) = q /\ p < q
        /\ s[i] \in Quotes <=> i = p
    BY ONLY Holding(a, s, p, q), StartsAre
  <2> DEFINE m == From(i, p)
             z == Mark(s, i, p)
             e == End(s, i)
             nuls == {k \in DOMAIN b : k >= m /\ b[k] = NUL}
  <2>2. /\ m \in Nat /\ z \in 0 .. LineSize /\ m <= z /\ z <= Len(s)
        /\ i = p => m = i /\ z = e - 1
        /\ i # p => m = i - 1 /\ z = e
    <3>1. p \in Nat /\ q \in Nat
      BY DEF Holding
    <3>2. QED
      BY ONLY <1>1, <2>1, <3>1 DEF From, Mark
  <2>3. b[z] = NUL /\ \A x \in m .. z - 1 : b[x] = s[x + 1]
    BY ONLY <1>3 DEF Ended
  <2> HIDE DEF m, z
  <2>4. DOMAIN b = 0 .. LineSize
    BY DEF Lines
  <2>5. z \in nuls /\ nuls \in SUBSET Nat
    BY ONLY <1>1, <2>2, <2>3, <2>4
  <2>6. ASSUME NEW k \in nuls PROVE z <= k
    <3>1. k \in Nat /\ k >= m /\ b[k] = NUL
      BY ONLY <1>1, <2>4, k \in nuls
    <3>2. k < z => k \in m .. z - 1 /\ k + 1 \in 1 .. Len(s)
      BY ONLY <1>1, <2>2, <3>1
    <3>3. ~(k < z)
      BY ONLY <1>1, <2>3, <3>1, <3>2
    <3>4. QED
      BY ONLY <2>2, <3>1, <3>3
  <2>7. Min(nuls) = z
    <3>1. nuls # {}
      BY ONLY <2>5
    <3>2. Min(nuls) \in nuls /\ \A k \in nuls : Min(nuls) <= k
      BY ONLY <2>5, <3>1, LeastIsMin
    <3>3. Min(nuls) <= z /\ z <= Min(nuls) /\ Min(nuls) \in Nat
      BY ONLY <2>5, <2>6, <3>2
    <3>4. QED
      BY ONLY <2>2, <3>3
  <2>8. CString(b, m) = [k \in 1 .. z - m |-> b[m + k - 1]]
    <3>1. nuls # {}
      BY ONLY <2>5
    <3>2. CString(b, m) = [k \in 1 .. Min(nuls) - m |-> b[m + k - 1]]
      BY ONLY <3>1 DEF CString
    <3>3. QED
      BY ONLY <2>7, <3>2
  <2>9. \A k \in 1 .. z - m : b[m + k - 1] = s[m + k]
    <3> TAKE k \in 1 .. z - m
    <3>1. m + k - 1 \in m .. z - 1 /\ m + k - 1 + 1 = m + k
      BY ONLY <1>1, <2>2
    <3>2. QED
      BY ONLY <2>3, <3>1
  <2>10. CString(b, m) = [k \in 1 .. z - m |-> s[m + k]]
    BY ONLY <2>8, <2>9
  <2>11. CASE i = p
    <3>1. WordAt(s, i) = SubSeq(s, i + 1, e - 1)
      BY ONLY <2>1, <2>11 DEF WordAt
    <3>2. SubSeq(s, i + 1, e - 1) = [k \in 1 .. e - 1 - i |-> s[i + k]]
      <4>1. i + 1 \in Int /\ e - 1 \in Int /\ (e - 1) - (i + 1) + 1 = e - 1 - i
        BY ONLY <1>1, <2>1
      <4>2. SubSeq(s, i + 1, e - 1) = [k \in 1 .. (e - 1) - (i + 1) + 1 |-> s[(i + 1) + k - 1]]
        BY ONLY <1>1, <4>1
      <4>3. \A k \in 1 .. e - 1 - i : (i + 1) + k - 1 = i + k
        BY ONLY <1>1, <2>1
      <4>4. QED
        BY ONLY <4>1, <4>2, <4>3
    <3>3. QED
      BY ONLY <2>2, <2>10, <2>11, <3>1, <3>2 DEF m
  <2>12. CASE i # p
    <3>1. WordAt(s, i) = SubSeq(s, i, e)
      BY ONLY <2>1, <2>12 DEF WordAt
    <3>2. SubSeq(s, i, e) = [k \in 1 .. e - (i - 1) |-> s[(i - 1) + k]]
      <4>1. i \in Int /\ e \in Int /\ e - i + 1 = e - (i - 1)
        BY ONLY <1>1, <2>1
      <4>2. SubSeq(s, i, e) = [k \in 1 .. e - i + 1 |-> s[i + k - 1]]
        BY ONLY <1>1, <4>1
      <4>3. \A k \in 1 .. e - i + 1 : i + k - 1 = (i - 1) + k
        BY ONLY <1>1, <2>1
      <4>4. QED
        BY ONLY <4>1, <4>2, <4>3
    <3>3. QED
      BY ONLY <2>2, <2>10, <2>12, <3>1, <3>2 DEF m
  <2>13. QED
    BY <2>11, <2>12
<1>4. \A i \in Starts(s) : i \in Nat /\ i <= n
  <2> TAKE i \in Starts(s)
  <2>1. i \in 1 .. Len(s)
    BY ONLY Holding(a, s, p, q), StartsAre
  <2>2. QED
    BY ONLY <1>1, <2>1, n \in Nat, Len(s) <= n
<1>5. Cardinality(Starts(s)) = Len(f) /\ \A k \in 1 .. Len(f) : Nth(Starts(s), k) = f[k]
  <2>1. Starts(s) \in SUBSET Nat
    BY <1>4
  <2>2. \A i \in Starts(s) : \E k \in 1 .. Len(f) : f[k] = i
    BY ONLY <1>2, <1>4
  <2>3. QED
    BY ONLY <1>2, <2>1, <2>2, NthIs
<1>6. DOMAIN v = 1 .. Len(f)
  BY ONLY <1>2
<1>7. \A k \in 1 .. Len(f) : CString(b, v[k]) = WordAt(s, Nth(Starts(s), k))
  <2> TAKE k \in 1 .. Len(f)
  <2>1. f[k] \in Starts(s) /\ v[k] = From(f[k], p) /\ Ended(b, s, f[k], p) /\ Nth(Starts(s), k) = f[k]
    BY ONLY <1>2, <1>5
  <2>2. QED
    BY ONLY <1>3, <2>1
<1>8. QED
  BY ONLY <1>5, <1>6, <1>7 DEF Words

-----------------------------------------------------------------------------
(* The loop of cmdParse.                                                    *)

\* Up to which index the line is settled: before the word in progress.
Edge(st) == IF st.argstart < 0 THEN st.jj ELSE st.argstart

\* Where the loop stands in a line whose quotes are at p and q: never between
\* them, and inside a word it knows where that word began.
Stands(st, a, s, p, q) ==
  /\ st \in TokenStates /\ st.error = FALSE /\ st.wholeLength = Len(s) /\ st.jj <= Len(s) + 1
  /\ p > 0 => q < st.jj \/ (st.jj < p /\ st.line = a)
  /\ \A x \in Edge(st) .. Len(s) - 1 : st.line[x] = s[x + 1]
  /\ ~InWord(s, st.jj) => st.argstart = -1
  /\ InWord(s, st.jj) => /\ st.argstart \in 0 .. st.jj - 1 /\ st.argstart + 1 \in Starts(s)
                         /\ st.argstart + 1 # p
                         /\ \A k \in st.argstart + 1 .. st.jj : InWord(s, k)

Loop(st, a, s, p, q) ==
  Stands(st, a, s, p, q) /\ \E f : Cut(f, st.line, st.args, Edge(st), s, p)

\* What a turn at a character that is not quoted finds.
LEMMA HereIs ==
  ASSUME NEW a, NEW s, NEW p, NEW q, Holding(a, s, p, q), NEW st, Stands(st, a, s, p, q), st.jj < Len(s)
  PROVE  /\ st.jj \in Nat /\ Len(s) \in Nat /\ st.jj + 1 \in 1 .. Len(s) /\ Edge(st) \in Nat /\ Edge(st) <= st.jj
         /\ st.line[st.jj] = s[st.jj + 1]
         /\ st.line \in Lines /\ st.args \in Seq(Nat) /\ st.argstart \in Int
         /\ s[st.jj + 1] \in Quotes => st.jj + 1 = p
         /\ s[st.jj + 1] \notin Quotes =>
              (p > 0 => (st.jj + 1 < p \/ q < st.jj + 1)) /\ (InWord(s, st.jj + 1) <=> s[st.jj + 1] \notin Blanks)
<1>1. /\ st.jj \in Nat /\ st.line \in Lines /\ st.args \in Seq(Nat) /\ st.argstart \in Int
      /\ p > 0 => q < st.jj \/ (st.jj < p /\ st.line = a)
      /\ \A x \in Edge(st) .. Len(s) - 1 : st.line[x] = s[x + 1]
  BY DEF Stands, TokenStates
<1>2. Len(s) \in Nat /\ p \in Nat /\ q \in Nat /\ QuotedAt(s, p, q) /\ Wordy(s, p, q)
  BY DEF Holding
<1>3. st.argstart = -1 \/ st.argstart \in 0 .. st.jj - 1
  BY DEF Stands
<1>4. Edge(st) \in Nat /\ Edge(st) <= st.jj
  BY ONLY <1>1, <1>3 DEF Edge
<1>5. st.jj + 1 \in 1 .. Len(s) /\ st.jj \in Edge(st) .. Len(s) - 1
  BY ONLY <1>1, <1>2, <1>4, st.jj < Len(s)
<1>6. st.line[st.jj] = s[st.jj + 1]
  BY ONLY <1>1, <1>5
<1> DEFINE h == st.jj + 1
<1>7. h \in 1 .. Len(s) /\ (p > 0 => q < h \/ h <= p) /\ (p > 0 => q # h)
  <2>1. p > 0 => p < q
    BY ONLY <1>2 DEF QuotedAt
  <2>2. QED
    BY ONLY <1>1, <1>2, <1>5, <2>1
<1> HIDE DEF h
<1>8. s[h] \in Quotes => h = p
  <2>1. p = 0 => s[h] \notin Quotes
    BY ONLY <1>2, <1>7 DEF QuotedAt
  <2>2. p > 0 => (s[h] \in Quotes <=> h = p \/ h = q)
    BY ONLY <1>2, <1>7 DEF QuotedAt
  <2>3. QED
    BY ONLY <1>2, <1>7, <2>1, <2>2
<1>9. ASSUME s[h] \notin Quotes
      PROVE  (p > 0 => (h < p \/ q < h)) /\ (InWord(s, h) <=> s[h] \notin Blanks)
  <2>1. p > 0 => h # p
    BY ONLY <1>2, <1>7, <1>9 DEF QuotedAt
  <2>2. p > 0 => (h < p \/ q < h)
    BY ONLY <1>2, <1>7, <2>1
  <2>3. p = 0 => q = 0
    BY ONLY <1>2 DEF QuotedAt
  <2>4. ~(p < h /\ h <= q) /\ h \in Int
    BY ONLY <1>2, <1>7, <2>2, <2>3
  <2>5. QED
    BY ONLY <1>2, <1>7, <2>2, <2>4 DEF Wordy
<1>10. QED
  BY ONLY <1>1, <1>2, <1>4, <1>5, <1>6, <1>8, <1>9 DEF h

\* A word in progress ends at the next character.
LEMMA WordEnds ==
  ASSUME NEW a, NEW s, NEW p, NEW q, Holding(a, s, p, q), NEW st, Stands(st, a, s, p, q),
         NEW f, Cut(f, st.line, st.args, Edge(st), s, p), ~(st.argstart < 0),
         ~InWord(s, st.jj + 1)
  PROVE  /\ \E g : Cut(g, [st.line EXCEPT ![st.jj] = NUL], Append(st.args, st.argstart), st.jj + 1, s, p)
         /\ p > 0 => q < st.jj
         /\ st.jj \in 0 .. LineSize
<1> DEFINE n == st.argstart
           i == n + 1
           e == st.jj
<1>1. /\ s \in Seq(Characters) /\ Len(s) \in Nat /\ Len(s) <= LineSize /\ LineSize \in Nat
      /\ p \in Nat /\ q \in Nat /\ QuotedAt(s, p, q) /\ Wordy(s, p, q)
  BY SizesAre DEF Holding
<1>2. /\ st.jj \in Nat /\ st.line \in Lines /\ n \in Int
      /\ p > 0 => q < st.jj \/ (st.jj < p /\ st.line = a)
      /\ \A x \in Edge(st) .. Len(s) - 1 : st.line[x] = s[x + 1]
  BY DEF Stands, TokenStates
<1>3. InWord(s, e)
  BY <1>2 DEF Stands
<1>4. n \in 0 .. e - 1 /\ i \in Starts(s) /\ i # p /\ \A k \in i .. e : InWord(s, k)
  BY <1>3 DEF Stands
<1>5. n \in Nat /\ Edge(st) = n /\ i \in 1 .. Len(s) /\ e \in i .. Len(s) /\ ~InWord(s, e + 1)
  <2>1. e \in 1 .. Len(s)
    BY ONLY <1>1, <1>2, <1>3 DEF Wordy
  <2>2. Edge(st) = n
    BY DEF Edge
  <2>3. ~InWord(s, e + 1)
    OBVIOUS
  <2>4. QED
    BY ONLY <1>1, <1>2, <1>4, <2>1, <2>2, <2>3
<1> HIDE DEF e
<1>6. End(s, i) = e
  <2>1. InWord(s, i)
    BY ONLY <1>1, <1>2, <1>4, <1>5
  <2> HIDE DEF i
  <2>2. QED
    BY ONLY <1>1, <1>4, <1>5, <2>1, EndIs
<1>7. Mark(s, i, p) = e /\ From(i, p) = n
  BY ONLY <1>2, <1>4, <1>5, <1>6 DEF Mark, From
<1>8. \A x \in Starts(s) : x <= e + 1 <=> x <= n \/ x = i
  <2> TAKE x \in Starts(s)
  <2>1. x \in 1 .. Len(s) /\ InWord(s, x) /\ ~InWord(s, x - 1)
    BY ONLY Holding(a, s, p, q), StartsAre
  <2>2. x # e + 1
    BY ONLY <1>5, <2>1
  <2>3. x - 1 \notin i .. e
    BY ONLY <1>4, <2>1
  <2>4. e \in Nat
    BY ONLY <1>2 DEF e
  <2>5. QED
    BY ONLY <1>1, <1>5, <2>1, <2>2, <2>3, <2>4
<1>9. \A x \in n .. e - 1 : st.line[x] = s[x + 1]
  BY ONLY <1>1, <1>2, <1>5
<1>10. /\ n < i /\ e + 1 \in Nat /\ n <= e + 1 /\ n <= e /\ e < e + 1 /\ e \in 0 .. LineSize
  BY ONLY <1>1, <1>5
<1>11. \E g : Cut(g, [st.line EXCEPT ![e] = NUL], Append(st.args, n), e + 1, s, p)
  <2>1. Cut(f, st.line, st.args, n, s, p)
    BY ONLY Cut(f, st.line, st.args, Edge(st), s, p), <1>5
  <2>2. Grows(i, n, e + 1, st.line, s, p)
    BY ONLY <1>2, <1>4, <1>5, <1>7, <1>8, <1>9, <1>10 DEF Grows
  <2> HIDE DEF n, i
  <2>3. \E g : Cut(g, [st.line EXCEPT ![Mark(s, i, p)] = NUL], Append(st.args, From(i, p)), e + 1, s, p)
    BY ONLY Holding(a, s, p, q), <2>1, <2>2, CutGrows
  <2>4. QED
    BY ONLY <1>7, <2>3
<1>12. p > 0 => q < e
  <2>1. ASSUME p > 0, e < p PROVE FALSE
    <3>1. \A k \in 1 .. p - 1 : s[k] \in Blanks
      BY ONLY <1>1, <2>1 DEF QuotedAt
    <3>2. e \in 1 .. p - 1 /\ e \in Int
      BY ONLY <1>1, <1>5, <2>1
    <3>3. ~InWord(s, e)
      BY ONLY <1>1, <2>1, <3>1, <3>2 DEF Wordy
    <3>4. QED
      BY ONLY <1>3, <3>3 DEF e
  <2>2. QED
    BY <1>2, <2>1 DEF e
<1>13. QED
  BY ONLY <1>10, <1>11, <1>12 DEF e

LEMMA BlankTurn ==
  ASSUME NEW a, NEW s, NEW p, NEW q, Holding(a, s, p, q), NEW st, Loop(st, a, s, p, q), st.jj < Len(s),
         s[st.jj + 1] \in Blanks
  PROVE  Loop(Blank(st), a, s, p, q)
<1> DEFINE h == st.jj + 1
           u == Blank(st)
<1>1. Stands(st, a, s, p, q) /\ s[h] \notin Quotes
  BY NotBoth DEF Loop
<1>2. PICK f : Cut(f, st.line, st.args, Edge(st), s, p)
  BY DEF Loop
<1>3. /\ st.jj \in Nat /\ Len(s) \in Nat /\ h \in 1 .. Len(s)
      /\ st.line \in Lines /\ st.args \in Seq(Nat) /\ st.argstart \in Int
      /\ p > 0 => (h < p \/ q < h)
      /\ ~InWord(s, h) /\ p \in Nat /\ q \in Nat
  <2>1. p \in Nat /\ q \in Nat
    BY DEF Holding
  <2>2. s[h] \in Blanks
    OBVIOUS
  <2>3. QED
    BY ONLY Holding(a, s, p, q), st.jj < Len(s), <1>1, <2>1, <2>2, HereIs
<1>4. /\ st \in TokenStates /\ st.error = FALSE /\ st.wholeLength = Len(s)
      /\ p > 0 => q < st.jj \/ (st.jj < p /\ st.line = a)
      /\ \A x \in Edge(st) .. Len(s) - 1 : st.line[x] = s[x + 1]
  BY <1>1 DEF Stands
<1>5. CASE st.argstart < 0
  <2>1. u = [st EXCEPT !.jj = h]
    BY <1>5 DEF Blank
  <2>2. /\ u \in TokenStates /\ u.jj = h /\ u.line = st.line /\ u.args = st.args
        /\ u.argstart = st.argstart /\ u.error = FALSE /\ u.wholeLength = Len(s)
    <3>1. st = [line |-> st.line, jj |-> st.jj, argstart |-> st.argstart, args |-> st.args,
                error |-> st.error, wholeLength |-> st.wholeLength]
      BY ONLY <1>4 DEF TokenStates
    <3>2. u = [line |-> st.line, jj |-> h, argstart |-> st.argstart, args |-> st.args,
               error |-> st.error, wholeLength |-> st.wholeLength]
      BY ONLY <2>1, <3>1
    <3>3. QED
      BY ONLY <1>3, <1>4, <3>2 DEF TokenStates
  <2>3. st.argstart = -1 /\ Edge(st) = st.jj /\ Edge(u) = h
    BY ONLY <1>1, <1>3, <1>5, <2>2 DEF Edge, Stands
  <2>4. Cut(f, u.line, u.args, Edge(u), s, p)
    <3>1. h \notin Starts(s)
      BY ONLY <1>3 DEF Starts
    <3>2. Cut(f, st.line, st.args, st.jj, s, p)
      BY ONLY <1>2, <2>3
    <3>3. Cut(f, st.line, st.args, st.jj + 1, s, p)
      BY ONLY Holding(a, s, p, q), <1>3, <3>1, <3>2, CutStays
    <3>4. QED
      BY ONLY <2>2, <2>3, <3>3
  <2>5. /\ u.jj <= Len(s) + 1
        /\ p > 0 => q < u.jj \/ (u.jj < p /\ u.line = a)
        /\ \A x \in Edge(u) .. Len(s) - 1 : u.line[x] = s[x + 1]
        /\ ~InWord(s, u.jj) /\ u.argstart = -1
    BY ONLY <1>3, <1>4, <2>2, <2>3
  <2> HIDE DEF u
  <2>6. Stands(u, a, s, p, q)
    BY ONLY <2>2, <2>5 DEF Stands
  <2>7. QED
    BY ONLY <2>4, <2>6 DEF Loop, u
<1>6. CASE ~(st.argstart < 0)
  <2>1. u = [st EXCEPT !.line[st.jj] = NUL, !.args = Append(@, st.argstart), !.argstart = -1, !.jj = @ + 1]
    BY <1>6 DEF Blank
  <2>2. /\ \E g : Cut(g, [st.line EXCEPT ![st.jj] = NUL], Append(st.args, st.argstart), h, s, p)
        /\ p > 0 => q < st.jj
        /\ st.jj \in 0 .. LineSize
    BY ONLY Holding(a, s, p, q), <1>1, <1>2, <1>3, <1>6, WordEnds
  <2>3. st = [line |-> st.line, jj |-> st.jj, argstart |-> st.argstart, args |-> st.args,
               error |-> st.error, wholeLength |-> st.wholeLength]
    BY ONLY <1>4 DEF TokenStates
  <2>4. u = [line |-> [st.line EXCEPT ![st.jj] = NUL], jj |-> h, argstart |-> -1,
             args |-> Append(st.args, st.argstart), error |-> st.error, wholeLength |-> st.wholeLength]
    BY ONLY <2>1, <2>3
  <2>5. /\ u \in TokenStates /\ u.jj = h /\ u.line = [st.line EXCEPT ![st.jj] = NUL]
        /\ u.args = Append(st.args, st.argstart)
        /\ u.argstart = -1 /\ u.error = FALSE /\ u.wholeLength = Len(s)
    <3>1. [st.line EXCEPT ![st.jj] = NUL] \in Lines
      BY ONLY <1>3, CharactersAre DEF Lines
    <3>2. Append(st.args, st.argstart) \in Seq(Nat) /\ h \in Nat /\ -1 \in Int
      BY ONLY <1>3, <1>6
    <3>3. QED
      BY ONLY <1>4, <2>4, <3>1, <3>2 DEF TokenStates
  <2> HIDE DEF u
  <2>6. Edge(u) = h
    BY ONLY <2>5 DEF Edge
  <2>7. \E g : Cut(g, u.line, u.args, Edge(u), s, p)
    BY ONLY <2>2, <2>5, <2>6
  <2>8. /\ u.jj <= Len(s) + 1
        /\ p > 0 => q < u.jj \/ (u.jj < p /\ u.line = a)
    BY ONLY <1>3, <2>2, <2>5
  <2>9. \A x \in Edge(u) .. Len(s) - 1 : u.line[x] = s[x + 1]
    <3>1. Edge(st) \in Int /\ Edge(st) <= st.jj
      BY ONLY Holding(a, s, p, q), st.jj < Len(s), <1>1, HereIs
    <3> TAKE x \in Edge(u) .. Len(s) - 1
    <3>2. x \in Edge(st) .. Len(s) - 1 /\ x # st.jj
      BY ONLY <1>3, <2>6, <3>1
    <3>3. u.line[x] = st.line[x]
      BY ONLY <2>5, <3>2, <1>3 DEF Lines
    <3>4. QED
      BY ONLY <1>4, <3>2, <3>3
  <2>10. ~InWord(s, u.jj)
    BY ONLY <1>3, <2>5
  <2>11. Stands(u, a, s, p, q)
    BY ONLY <2>5, <2>8, <2>9, <2>10 DEF Stands
  <2>12. QED
    BY ONLY <2>7, <2>11 DEF Loop, u
<1>7. QED
  BY ONLY <1>5, <1>6

LEMMA OtherTurn ==
  ASSUME NEW a, NEW s, NEW p, NEW q, Holding(a, s, p, q), NEW st, Loop(st, a, s, p, q), st.jj < Len(s),
         s[st.jj + 1] \notin Blanks, s[st.jj + 1] \notin Quotes
  PROVE  Loop(Other(st), a, s, p, q)
<1> DEFINE h == st.jj + 1
           u == Other(st)
           n == IF st.argstart < 0 THEN st.jj ELSE st.argstart
<1>1. Stands(st, a, s, p, q)
  BY DEF Loop
<1>2. PICK f : Cut(f, st.line, st.args, Edge(st), s, p)
  BY DEF Loop
<1>3. /\ st.jj \in Nat /\ Len(s) \in Nat /\ h \in 1 .. Len(s)
      /\ st.line \in Lines /\ st.args \in Seq(Nat) /\ st.argstart \in Int
      /\ p > 0 => (h < p \/ q < h)
      /\ InWord(s, h) /\ p \in Nat /\ q \in Nat /\ DOMAIN s = 1 .. Len(s) /\ QuotedAt(s, p, q)
  <2>1. p \in Nat /\ q \in Nat /\ DOMAIN s = 1 .. Len(s) /\ QuotedAt(s, p, q)
    BY DEF Holding
  <2>2. s[h] \notin Blanks /\ s[h] \notin Quotes
    OBVIOUS
  <2>3. QED
    BY ONLY Holding(a, s, p, q), st.jj < Len(s), <1>1, <2>1, <2>2, HereIs
<1>4. /\ st \in TokenStates /\ st.error = FALSE /\ st.wholeLength = Len(s)
      /\ p > 0 => q < st.jj \/ (st.jj < p /\ st.line = a)
      /\ \A x \in Edge(st) .. Len(s) - 1 : st.line[x] = s[x + 1]
      /\ ~InWord(s, st.jj) => st.argstart = -1
      /\ InWord(s, st.jj) => /\ st.argstart \in 0 .. st.jj - 1 /\ st.argstart + 1 \in Starts(s)
                             /\ st.argstart + 1 # p
                             /\ \A k \in st.argstart + 1 .. st.jj : InWord(s, k)
  BY <1>1 DEF Stands
<1>5. Edge(st) = n
  BY DEF Edge
<1>6. /\ u \in TokenStates /\ u.jj = h /\ u.line = st.line /\ u.args = st.args
      /\ u.argstart = n /\ u.error = FALSE /\ u.wholeLength = Len(s)
  <2>1. st = [line |-> st.line, jj |-> st.jj, argstart |-> st.argstart, args |-> st.args,
              error |-> st.error, wholeLength |-> st.wholeLength]
    BY ONLY <1>4 DEF TokenStates
  <2>2. u = [st EXCEPT !.argstart = n, !.jj = h]
    BY DEF Other
  <2>3. n \in Int /\ h \in Nat
    BY ONLY <1>3
  <2> HIDE DEF n, h, u
  <2>4. u = [line |-> st.line, jj |-> h, argstart |-> n, args |-> st.args,
             error |-> st.error, wholeLength |-> st.wholeLength]
    BY ONLY <2>1, <2>2
  <2>5. QED
    BY ONLY <1>3, <1>4, <2>3, <2>4 DEF TokenStates
<1>7. /\ n \in 0 .. h - 1 /\ n + 1 \in Starts(s) /\ n + 1 # p /\ \A k \in n + 1 .. h : InWord(s, k)
  <2>1. p > 0 => p < q
    BY ONLY <1>3 DEF QuotedAt
  <2>2. CASE InWord(s, st.jj)
    <3>1. st.argstart \in 0 .. st.jj - 1 /\ n = st.argstart
      BY ONLY <1>3, <1>4, <2>2
    <3>2. \A k \in n + 1 .. h : k \in n + 1 .. st.jj \/ k = h
      BY ONLY <1>3, <3>1
    <3>3. QED
      BY ONLY <1>3, <1>4, <2>2, <3>1, <3>2
  <2>3. CASE ~InWord(s, st.jj)
    <3>1. n = st.jj /\ n + 1 = h /\ n \in 0 .. h - 1
      BY ONLY <1>3, <1>4, <2>3
    <3>2. h \in Starts(s)
      <4>1. h - 1 = st.jj
        BY ONLY <1>3
      <4>2. QED
        BY ONLY <1>3, <2>3, <4>1 DEF Starts
    <3>3. h # p
      BY ONLY <1>3, <2>1
    <3>4. \A k \in n + 1 .. h : k = h
      BY ONLY <1>3, <3>1
    <3>5. QED
      BY ONLY <1>3, <3>1, <3>2, <3>3, <3>4
  <2>4. QED
    BY ONLY <2>2, <2>3
<1> HIDE DEF u, n
<1>8. Edge(u) = n
  BY ONLY <1>6, <1>7, <1>3 DEF Edge
<1>9. p > 0 => q < u.jj \/ (u.jj < p /\ u.line = a)
  BY ONLY <1>3, <1>4, <1>6
<1>10. /\ u.jj <= Len(s) + 1 /\ InWord(s, u.jj)
       /\ u.argstart \in 0 .. u.jj - 1 /\ u.argstart + 1 \in Starts(s)
       /\ u.argstart + 1 # p /\ \A k \in u.argstart + 1 .. u.jj : InWord(s, k)
       /\ \A x \in Edge(u) .. Len(s) - 1 : u.line[x] = s[x + 1]
  BY ONLY <1>3, <1>4, <1>5, <1>6, <1>7, <1>8
<1>11. Stands(u, a, s, p, q)
  BY ONLY <1>6, <1>9, <1>10 DEF Stands
<1>12. Cut(f, u.line, u.args, Edge(u), s, p)
  BY ONLY <1>2, <1>5, <1>6, <1>8
<1>13. QED
  BY ONLY <1>11, <1>12 DEF Loop, u

LEMMA GreaterIs == ASSUME NEW v \in Nat, NEW w \in Nat PROVE Max({v, w}) \in Nat /\ Max({v, w}) >= w
<1>1. \E x \in {v, w} : \A y \in {v, w} : x >= y
  <2>1. CASE v >= w
    BY <2>1
  <2>2. CASE ~(v >= w)
    BY <2>2
  <2>3. QED
    BY <2>1, <2>2
<1>2. Max({v, w}) \in {v, w} /\ \A y \in {v, w} : Max({v, w}) >= y
  BY <1>1 DEF Max
<1>3. QED
  BY <1>2

\* The search for the closing quote finds it.
LEMMA ClosingFinds ==
  ASSUME NEW a, NEW s, NEW p, NEW q, Holding(a, s, p, q), p > 0, NEW st, st.line = a, st.jj = p - 1
  PROVE  Closing(st) = q - 1 /\ a[q - 1] = a[p - 1]
<1> DEFINE N == Len(CString(a, 0))
           T == {k \in p .. N - 1 : a[k] = a[p - 1]}
           M == Max({p, N})
<1>1. /\ Len(s) \in Nat /\ Len(s) <= N /\ \A k \in 1 .. Len(s) : s[k] = a[k - 1]
      /\ p \in Nat /\ q \in Nat /\ QuotedAt(s, p, q) /\ a \in Lines /\ a[LineSize] = NUL
  BY DEF Holding
<1>2. N \in Nat
  BY ONLY <1>1, LengthIs, SizesAre
<1>3. /\ p \in 1 .. Len(s) /\ q \in p + 1 .. Len(s) /\ s[p] = s[q]
      /\ \A k \in 1 .. Len(s) : s[k] \in Quotes <=> k = p \/ k = q
  BY <1>1 DEF QuotedAt
<1> HIDE DEF N
<1>4. M \in Nat /\ M >= N
  <2>1. p \in Nat
    BY ONLY <1>1
  <2>2. QED
    BY ONLY <1>2, <2>1, GreaterIs
<1>5. Closing(st) = Min({M} \cup T)
  <2>1. st.jj + 1 = p
    BY ONLY st.jj = p - 1, <1>1
  <2>2. QED
    BY ONLY st.line = a, st.jj = p - 1, <2>1 DEF Closing, N
<1> HIDE DEF M
<1>6. a[q - 1] = s[q] /\ a[p - 1] = s[p]
  BY ONLY <1>1, <1>3
<1>7. q - 1 \in T
  BY ONLY <1>1, <1>2, <1>3, <1>6
<1>8. ASSUME NEW k \in T PROVE q - 1 <= k
  <2>1. k \in p .. N - 1 /\ a[k] = s[p] /\ k \in Nat
    BY ONLY <1>1, <1>2, <1>6
  <2>2. k < q - 1 => k + 1 \in 1 .. Len(s) /\ k + 1 # p /\ k + 1 # q
    BY ONLY <1>1, <1>2, <1>3, <2>1
  <2>3. k < q - 1 => s[k + 1] = a[k] /\ s[k + 1] \notin Quotes
    <3>1. ASSUME k < q - 1 PROVE s[k + 1] = a[k]
      <4>1. k + 1 - 1 = k
        BY ONLY <2>1
      <4>2. QED
        BY ONLY <1>1, <2>2, <3>1, <4>1
    <3>2. QED
      BY ONLY <1>3, <2>2, <3>1
  <2>4. s[p] \in Quotes
    BY ONLY <1>3
  <2>5. ~(k < q - 1)
    BY ONLY <2>1, <2>3, <2>4
  <2>6. QED
    BY ONLY <1>1, <2>1, <2>5
<1>9. q - 1 <= M
  BY ONLY <1>1, <1>2, <1>3, <1>4
<1>10. {M} \cup T \in SUBSET Nat /\ {M} \cup T # {}
  BY ONLY <1>1, <1>2, <1>4
<1>11. Min({M} \cup T) \in {M} \cup T /\ \A k \in {M} \cup T : Min({M} \cup T) <= k
  BY ONLY <1>10, LeastIsMin
<1> HIDE DEF T
<1>12. Min({M} \cup T) <= q - 1 /\ q - 1 <= Min({M} \cup T) /\ Min({M} \cup T) \in Nat
  BY ONLY <1>7, <1>8, <1>9, <1>10, <1>11
<1>13. Min({M} \cup T) = q - 1
  BY ONLY <1>1, <1>3, <1>12
<1>14. QED
  BY ONLY <1>3, <1>5, <1>6, <1>13

LEMMA QuotedTurn ==
  ASSUME NEW a, NEW s, NEW p, NEW q, Holding(a, s, p, q), NEW st, Loop(st, a, s, p, q), st.jj < Len(s),
         s[st.jj + 1] \in Quotes
  PROVE  Loop(Quoted(st), a, s, p, q) /\ Quoted(st).jj > st.jj
<1> DEFINE u == Quoted(st)
<1>1. Stands(st, a, s, p, q)
  BY DEF Loop
<1>2. PICK f : Cut(f, st.line, st.args, Edge(st), s, p)
  BY DEF Loop
<1>3. /\ st.jj \in Nat /\ Len(s) \in Nat /\ st.jj + 1 \in 1 .. Len(s) /\ st.jj + 1 = p
      /\ st.line \in Lines /\ st.args \in Seq(Nat) /\ st.argstart \in Int
  BY ONLY Holding(a, s, p, q), st.jj < Len(s), s[st.jj + 1] \in Quotes, <1>1, HereIs
<1>4. /\ s \in Seq(Characters) /\ p \in Nat /\ q \in Nat /\ QuotedAt(s, p, q) /\ Wordy(s, p, q)
      /\ \A k \in 1 .. Len(s) : s[k] = a[k - 1]
      /\ Len(s) <= LineSize /\ LineSize \in Nat
  BY SizesAre DEF Holding
<1>5. /\ st \in TokenStates /\ st.error = FALSE /\ st.wholeLength = Len(s)
      /\ p > 0 => q < st.jj \/ (st.jj < p /\ st.line = a)
      /\ ~InWord(s, st.jj) => st.argstart = -1
  BY <1>1 DEF Stands
<1>6. /\ p \in 1 .. Len(s) /\ q \in p + 1 .. Len(s)
      /\ \A k \in 1 .. Len(s) : s[k] \in Quotes <=> k = p \/ k = q
      /\ \A k \in 1 .. p - 1 : s[k] \in Blanks
      /\ q < Len(s) => s[q + 1] \in Blanks
  BY ONLY <1>3, <1>4 DEF QuotedAt
<1>7. st.line = a /\ st.jj = p - 1 /\ p > 0
  BY ONLY <1>3, <1>5, <1>6
<1>8. ~InWord(s, p - 1) /\ InWord(s, p) /\ ~InWord(s, q + 1)
  <2>1. p - 1 \in Int /\ p \in Int /\ q + 1 \in Int
    BY ONLY <1>4
  <2>2. ~(p < p - 1) /\ ~(q + 1 <= q) /\ (p - 1 \in 1 .. Len(s) => s[p - 1] \in Blanks)
    BY ONLY <1>4, <1>6
  <2>3. q + 1 \in 1 .. Len(s) => s[q + 1] \in Blanks
    BY ONLY <1>4, <1>6, <1>3
  <2>4. s[p] \notin Blanks
    BY ONLY <1>6, NotBoth
  <2>5. QED
    BY ONLY <1>4, <1>6, <2>1, <2>2, <2>3, <2>4 DEF Wordy
<1>9. st.argstart = -1 /\ Edge(st) = p - 1
  BY ONLY <1>5, <1>7, <1>8 DEF Edge
<1>10. p \in Starts(s)
  BY ONLY <1>4, <1>6, <1>8 DEF Starts
<1>11. End(s, p) = q /\ Mark(s, p, p) = q - 1 /\ From(p, p) = p
  <2>1. End(s, p) = q
    BY ONLY Holding(a, s, p, q), <1>10, StartsAre
  <2>2. QED
    BY ONLY <2>1 DEF Mark, From
<1>12. Grows(p, p - 1, q + 1, a, s, p)
  <2>1. \A x \in Starts(s) : x <= q + 1 <=> x <= p - 1 \/ x = p
    <3> TAKE x \in Starts(s)
    <3>1. x \in 1 .. Len(s) /\ InWord(s, x) /\ ~InWord(s, x - 1)
      BY ONLY Holding(a, s, p, q), StartsAre
    <3>2. x # q + 1
      BY ONLY <1>8, <3>1
    <3>3. ~(p < x /\ x <= q)
      <4>1. ASSUME p < x, x <= q PROVE InWord(s, x - 1)
        <5>1. x - 1 \in Int /\ x - 1 \in 1 .. Len(s) /\ (x - 1 = p \/ (p < x - 1 /\ x - 1 <= q))
          BY ONLY <1>3, <1>4, <1>6, <3>1, <4>1
        <5>2. QED
          BY ONLY <1>4, <1>8, <5>1 DEF Wordy
      <4>2. QED
        BY ONLY <3>1, <4>1
    <3>4. QED
      BY ONLY <1>3, <1>4, <1>6, <3>1, <3>2, <3>3
  <2>2. \A x \in p .. q - 1 - 1 : a[x] = s[x + 1]
    <3> TAKE x \in p .. q - 1 - 1
    <3>1. x + 1 \in 1 .. Len(s) /\ x + 1 - 1 = x
      BY ONLY <1>3, <1>4, <1>6
    <3>2. QED
      BY ONLY <1>4, <3>1
  <2>3. /\ p - 1 \in Nat /\ q + 1 \in Nat /\ p - 1 < p /\ p - 1 <= q + 1 /\ p - 1 <= q - 1 /\ q - 1 < q + 1
        /\ q - 1 \in 0 .. LineSize
    BY ONLY <1>3, <1>4, <1>6
  <2>4. a \in Lines
    BY ONLY <1>3, <1>7
  <2>5. QED
    BY ONLY <1>10, <1>11, <2>1, <2>2, <2>3, <2>4 DEF Grows
<1>13. \E g : Cut(g, [a EXCEPT ![q - 1] = NUL], Append(st.args, p), q + 1, s, p)
  <2>1. Cut(f, a, st.args, p - 1, s, p)
    BY ONLY <1>2, <1>7, <1>9
  <2>2. \E g : Cut(g, [a EXCEPT ![Mark(s, p, p)] = NUL], Append(st.args, From(p, p)), q + 1, s, p)
    BY ONLY Holding(a, s, p, q), <1>12, <2>1, CutGrows
  <2>3. QED
    BY ONLY <1>11, <2>2
<1>14. /\ u \in TokenStates /\ u.jj = q + 1 /\ u.line = [a EXCEPT ![q - 1] = NUL]
       /\ u.args = Append(st.args, p)
       /\ u.argstart = -1 /\ u.error = FALSE /\ u.wholeLength = Len(s)
  <2> DEFINE kk == Closing(st)
  <2>1. kk = q - 1 /\ a[q - 1] = a[p - 1]
    BY ONLY Holding(a, s, p, q), <1>7, ClosingFinds
  <2>2. st.line[kk] = st.line[st.jj]
    BY ONLY <1>7, <2>1
  <2>3. u = [st EXCEPT !.line[kk] = NUL, !.args = Append(@, st.jj + 1), !.jj = kk + 2]
    BY ONLY <2>2 DEF Quoted
  <2>4. st = [line |-> st.line, jj |-> st.jj, argstart |-> st.argstart, args |-> st.args,
              error |-> st.error, wholeLength |-> st.wholeLength]
    BY ONLY <1>5 DEF TokenStates
  <2> HIDE DEF kk, u
  <2>5. u = [line |-> [st.line EXCEPT ![kk] = NUL], jj |-> kk + 2, argstart |-> st.argstart,
             args |-> Append(st.args, st.jj + 1), error |-> st.error, wholeLength |-> st.wholeLength]
    BY ONLY <2>3, <2>4
  <2>6. kk + 2 = q + 1 /\ q + 1 \in Nat /\ st.jj + 1 = p /\ -1 \in Int
    BY ONLY <1>3, <1>4, <2>1
  <2>7. [a EXCEPT ![q - 1] = NUL] \in Lines
    BY ONLY <1>3, <1>7, CharactersAre DEF Lines
  <2>8. Append(st.args, p) \in Seq(Nat)
    BY ONLY <1>3, <1>4
  <2>9. u = [line |-> [a EXCEPT ![q - 1] = NUL], jj |-> q + 1, argstart |-> -1,
             args |-> Append(st.args, p), error |-> st.error, wholeLength |-> st.wholeLength]
    BY ONLY <1>7, <1>9, <2>1, <2>5, <2>6 DEF kk
  <2>10. QED
    BY ONLY <1>5, <2>6, <2>7, <2>8, <2>9 DEF TokenStates
<1> HIDE DEF u
<1>15. Edge(u) = q + 1
  BY ONLY <1>14 DEF Edge
<1>16. \A x \in Edge(u) .. Len(s) - 1 : u.line[x] = s[x + 1]
  <2> TAKE x \in Edge(u) .. Len(s) - 1
  <2>1. x # q - 1 /\ x \in 0 .. LineSize /\ x + 1 \in 1 .. Len(s) /\ x + 1 - 1 = x
    BY ONLY <1>3, <1>4, <1>6, <1>15
  <2>2. u.line[x] = a[x]
    BY ONLY <1>3, <1>7, <1>14, <2>1 DEF Lines
  <2>3. QED
    BY ONLY <1>4, <2>1, <2>2
<1>17. /\ u.jj <= Len(s) + 1 /\ q < u.jj /\ u.jj > st.jj
  BY ONLY <1>3, <1>4, <1>6, <1>14
<1>18. ~InWord(s, u.jj)
  BY ONLY <1>8, <1>14
<1>19. Stands(u, a, s, p, q)
  BY ONLY <1>14, <1>16, <1>17, <1>18 DEF Stands
<1>20. \E g : Cut(g, u.line, u.args, Edge(u), s, p)
  BY ONLY <1>13, <1>14, <1>15
<1>21. QED
  BY ONLY <1>17, <1>19, <1>20 DEF Loop, u

LEMMA TurnKeeps ==
  ASSUME NEW a, NEW s, NEW p, NEW q, Holding(a, s, p, q), NEW st, Loop(st, a, s, p, q)
  PROVE  /\ Loop(Turn(st), a, s, p, q)
         /\ st.jj < Len(s) => Turn(st).jj > st.jj
         /\ ~(st.jj < Len(s)) => Turn(st) = st
<1>1. Stands(st, a, s, p, q)
  BY DEF Loop
<1>2. st \in TokenStates /\ st.error = FALSE /\ st.wholeLength = Len(s) /\ st.jj \in Nat /\ Len(s) \in Nat
  BY <1>1 DEF Stands, TokenStates, Holding
<1>3. CASE ~(st.jj < Len(s))
  <2>1. Turn(st) = st
    BY <1>2, <1>3 DEF Turn
  <2>2. QED
    BY ONLY <1>3, <2>1, Loop(st, a, s, p, q)
<1>4. CASE st.jj < Len(s)
  <2> DEFINE c == s[st.jj + 1]
  <2>1. st.line[st.jj] = c
    BY ONLY Holding(a, s, p, q), <1>1, <1>4, HereIs
  <2>2. Turn(st) = IF c \in Quotes THEN Quoted(st) ELSE IF c \in Blanks THEN Blank(st) ELSE Other(st)
    BY ONLY <1>2, <1>4, <2>1 DEF Turn
  <2>3. CASE c \in Quotes
    <3>1. Loop(Quoted(st), a, s, p, q) /\ Quoted(st).jj > st.jj
      BY ONLY Holding(a, s, p, q), Loop(st, a, s, p, q), <1>4, <2>3, QuotedTurn
    <3>2. QED
      BY ONLY <1>4, <2>2, <2>3, <3>1
  <2>4. CASE c \in Blanks /\ c \notin Quotes
    <3>1. Loop(Blank(st), a, s, p, q)
      BY ONLY Holding(a, s, p, q), Loop(st, a, s, p, q), <1>4, <2>4, BlankTurn
    <3>2. Blank(st).jj = st.jj + 1
      BY ONLY <1>2 DEF Blank, TokenStates
    <3>3. QED
      BY ONLY <1>2, <1>4, <2>2, <2>4, <3>1, <3>2
  <2>5. CASE c \notin Blanks /\ c \notin Quotes
    <3>1. Loop(Other(st), a, s, p, q)
      BY ONLY Holding(a, s, p, q), Loop(st, a, s, p, q), <1>4, <2>5, OtherTurn
    <3>2. Other(st).jj = st.jj + 1
      BY ONLY <1>2 DEF Other, TokenStates
    <3>3. QED
      BY ONLY <1>2, <1>4, <2>2, <2>5, <3>1, <3>2
  <2>6. QED
    BY ONLY <2>3, <2>4, <2>5
<1>5. QED
  BY ONLY <1>3, <1>4

\* Where the loop starts, and how many characters it looks at.
Cuttable(a, s) ==
  /\ a \in Lines /\ a[LineSize] = NUL
  /\ s = IF Len(CString(a, 0)) = COMMAND_SIZE THEN Front(CString(a, 0)) ELSE CString(a, 0)
  /\ WellQuoted(s) /\ FirstWordQuoted(s)

LEMMA StartIs ==
  ASSUME NEW a, NEW s, Cuttable(a, s)
  PROVE  \E p, q : Holding(a, s, p, q) /\ Start(a).wholeLength = Len(s)
<1> DEFINE t == CString(a, 0)
<1>1. a \in Lines /\ a[LineSize] = NUL /\ WellQuoted(s) /\ FirstWordQuoted(s)
      /\ s = IF Len(t) = COMMAND_SIZE THEN Front(t) ELSE t
  BY DEF Cuttable
<1>2. LineSize \in Nat /\ LineSize \in 0 .. LineSize /\ COMMAND_SIZE \in Nat \ {0}
  BY SizesAre, CommandSizeAssumption
<1>3. PICK e \in 0 .. LineSize : /\ t = [k \in 1 .. e |-> a[k - 1]]
                                 /\ a[e] = NUL /\ \A k \in 0 .. e - 1 : a[k] # NUL
  BY ONLY <1>1, <1>2, CStringIs
<1>4. /\ t \in Seq(Characters) /\ Len(t) = e /\ \A k \in 1 .. e : t[k] = a[k - 1] /\ t[k] # NUL
  <2>1. \A k \in 1 .. e : k - 1 \in 0 .. e - 1 /\ k - 1 \in 0 .. LineSize
    BY ONLY <1>2, <1>3
  <2>2. \A k \in 1 .. e : a[k - 1] \in Characters /\ a[k - 1] # NUL
    BY ONLY <1>1, <1>3, <2>1 DEF Lines
  <2>3. QED
    BY ONLY <1>2, <1>3, <2>2
<1>5. Start(a).wholeLength = IF Len(t) = COMMAND_SIZE THEN Len(t) - 1 ELSE Len(t)
  BY DEF Start
<1> HIDE DEF t
<1>6. /\ s \in Seq(Characters) /\ Len(s) <= e /\ Len(s) = Start(a).wholeLength
      /\ \A k \in 1 .. Len(s) : s[k] = t[k]
  <2>1. CASE Len(t) = COMMAND_SIZE
    <3>1. s = SubSeq(t, 1, Len(t) - 1) /\ Len(t) \in Nat /\ Len(t) - 1 \in Nat
      BY ONLY <1>1, <1>2, <2>1 DEF Front
    <3>2. s \in Seq(Characters) /\ Len(s) = Len(t) - 1 /\ \A k \in 1 .. Len(s) : s[k] = t[k]
      BY ONLY <1>4, <3>1
    <3>3. QED
      BY ONLY <1>4, <1>5, <2>1, <3>1, <3>2
  <2>2. CASE Len(t) # COMMAND_SIZE
    BY ONLY <1>1, <1>2, <1>3, <1>4, <1>5, <2>2
  <2>3. QED
    BY ONLY <2>1, <2>2
<1>7. PICK p, q \in 0 .. Len(s) : QuotedAt(s, p, q) /\ Wordy(s, p, q)
  BY ONLY <1>1, <1>6, QuotesAre
<1>8. Holding(a, s, p, q)
  <2>1. Len(s) \in Nat /\ Len(s) \in 0 .. LineSize /\ \A k \in 1 .. Len(s) : k \in 1 .. e
    BY ONLY <1>2, <1>3, <1>6
  <2>2. \A k \in 1 .. Len(s) : s[k] = a[k - 1] /\ s[k] # NUL
    BY ONLY <1>4, <1>6, <2>1
  <2>3. Len(s) <= Len(CString(a, 0))
    BY ONLY <1>4, <1>6 DEF t
  <2>4. QED
    BY ONLY <1>1, <1>6, <1>7, <2>1, <2>2, <2>3 DEF Holding
<1>9. QED
  BY ONLY <1>6, <1>8

LEMMA LoopStarts ==
  ASSUME NEW a, NEW s, NEW p, NEW q, Holding(a, s, p, q), Start(a).wholeLength = Len(s)
  PROVE  Loop(Start(a), a, s, p, q) /\ Start(a).jj = 0
<1> DEFINE u == Start(a)
<1>1. a \in Lines /\ a[LineSize] = NUL /\ Len(s) \in Nat /\ \A k \in 1 .. Len(s) : s[k] = a[k - 1]
      /\ p \in Nat /\ q \in Nat
  BY DEF Holding
<1>2. /\ u.line = a /\ u.jj = 0 /\ u.argstart = -1 /\ u.args = <<>> /\ u.error = FALSE
      /\ u.wholeLength = Len(s) /\ u \in TokenStates
  <2>1. 0 \in 0 .. LineSize + 1
    BY SizesAre
  <2>2. u \in TokenStates
    BY ONLY <1>1, <2>1, TurnsAre
  <2>3. QED
    BY <2>2 DEF Start
<1> HIDE DEF u
<1>3. Edge(u) = 0
  BY ONLY <1>2 DEF Edge
<1>4. ~InWord(s, 0)
  BY ONLY <1>1 DEF InWord
<1>5. \A x \in 0 .. Len(s) - 1 : a[x] = s[x + 1]
  <2> TAKE x \in 0 .. Len(s) - 1
  <2>1. x + 1 \in 1 .. Len(s) /\ x + 1 - 1 = x
    BY ONLY <1>1
  <2>2. QED
    BY ONLY <1>1, <2>1
<1>6. u.jj <= Len(s) + 1 /\ (p > 0 => u.jj < p)
  BY ONLY <1>1, <1>2
<1>7. Stands(u, a, s, p, q)
  BY ONLY <1>2, <1>3, <1>4, <1>5, <1>6 DEF Stands
<1>8. Cut(<<>>, a, <<>>, 0, s, p)
  <2>1. \A i \in Starts(s) : ~(i <= 0)
    <3> TAKE i \in Starts(s)
    <3>1. i \in 1 .. Len(s)
      BY ONLY Holding(a, s, p, q), StartsAre
    <3>2. QED
      BY ONLY <1>1, <3>1
  <2>2. <<>> \in Seq(Nat) /\ <<>> \in Seq(Starts(s)) /\ Len(<<>>) = 0 /\ 1 .. 0 = {}
    OBVIOUS
  <2>3. QED
    BY ONLY <2>1, <2>2 DEF Cut
<1>9. QED
  BY ONLY <1>2, <1>3, <1>7, <1>8 DEF Loop, u

\* After n turns the loop stands behind n characters, or is through.
LEMMA LoopRuns ==
  ASSUME NEW a, NEW s, NEW p, NEW q, Holding(a, s, p, q), Start(a).wholeLength = Len(s)
  PROVE  LET st == Turns(a)[LineSize + 1] IN Loop(st, a, s, p, q) /\ Len(s) <= st.jj
<1> DEFINE m == LineSize + 1
           g == Turns(a)
           S == {n \in 0 .. m : Loop(g[n], a, s, p, q) /\ (n <= g[n].jj \/ Len(s) <= g[n].jj)}
<1>1. /\ a \in Lines /\ a[LineSize] = NUL /\ Len(s) \in Nat /\ Len(s) <= LineSize /\ LineSize \in Nat
      /\ m \in Nat
  BY SizesAre DEF Holding
<1>2. g[0] = Start(a) /\ \A n \in 0 .. LineSize : g[n + 1] = Turn(g[n])
  BY ONLY <1>1, TurnsAre
<1> HIDE DEF g
<1>3. Loop(Start(a), a, s, p, q) /\ Start(a).jj = 0
  BY LoopStarts
<1>4. 0 \in S /\ S \in SUBSET Nat
  BY ONLY <1>1, <1>2, <1>3
<1>5. ASSUME NEW n \in S, n < m PROVE n + 1 \in S
  <2>1. n \in 0 .. LineSize /\ n + 1 \in 0 .. m /\ Loop(g[n], a, s, p, q) /\ n \in Nat
        /\ (n <= g[n].jj \/ Len(s) <= g[n].jj)
    BY ONLY <1>1, <1>5
  <2>2. g[n + 1] = Turn(g[n])
    BY ONLY <1>2, <2>1
  <2>3. /\ Loop(Turn(g[n]), a, s, p, q)
        /\ g[n].jj < Len(s) => Turn(g[n]).jj > g[n].jj
        /\ ~(g[n].jj < Len(s)) => Turn(g[n]) = g[n]
    BY ONLY Holding(a, s, p, q), <2>1, TurnKeeps
  <2>4. g[n].jj \in Nat /\ Turn(g[n]).jj \in Nat
    BY ONLY <2>1, <2>3 DEF Loop, Stands, TokenStates
  <2>5. n + 1 <= g[n + 1].jj \/ Len(s) <= g[n + 1].jj
    BY ONLY <1>1, <2>1, <2>2, <2>3, <2>4
  <2>6. QED
    BY ONLY <2>1, <2>2, <2>3, <2>5
<1> HIDE DEF S, m
<1>6. 0 .. m \subseteq S
  BY ONLY <1>1, <1>4, <1>5, UpTo
<1>7. m \in S
  BY ONLY <1>1, <1>6
<1>8. Loop(g[m], a, s, p, q) /\ (m <= g[m].jj \/ Len(s) <= g[m].jj)
  BY ONLY <1>7 DEF S
<1>9. Len(s) <= g[m].jj
  <2>1. g[m].jj \in Nat
    BY ONLY <1>8 DEF Loop, Stands, TokenStates
  <2>2. QED
    BY ONLY <1>1, <1>8, <2>1 DEF m
<1>10. QED
  BY ONLY <1>8, <1>9 DEF g, m

\* A line is cut into its words.
LEMMA CutsAre ==
  ASSUME NEW a, NEW s, Cuttable(a, s)
  PROVE  Tokenize(a).error = FALSE /\ ArgStrings(Tokenize(a)) = Words(s)
<1> DEFINE st == Turns(a)[LineSize + 1]
           u == Tokenize(a)
<1>1. PICK p, q : Holding(a, s, p, q) /\ Start(a).wholeLength = Len(s)
  BY ONLY Cuttable(a, s), StartIs
<1>2. /\ a \in Lines /\ a[LineSize] = NUL /\ Len(s) \in Nat /\ LineSize \in Nat
      /\ DOMAIN s = 1 .. Len(s)
  BY <1>1, SizesAre DEF Holding
<1>3. u = Finish(st)
  BY <1>2, SizesAre DEF Tokenize, Lines
<1>4. Loop(st, a, s, p, q) /\ Len(s) <= st.jj
  BY ONLY <1>1, LoopRuns
<1> HIDE DEF st, u
<1>5. Stands(st, a, s, p, q)
  BY ONLY <1>4 DEF Loop
<1>6. PICK f : Cut(f, st.line, st.args, Edge(st), s, p)
  BY ONLY <1>4 DEF Loop
<1>7. /\ st \in TokenStates /\ st.error = FALSE /\ st.jj \in Nat /\ st.line \in Lines
      /\ st.args \in Seq(Nat)
  BY ONLY <1>5 DEF Stands, TokenStates
<1>8. CASE st.argstart < 0
  <2> DEFINE b == st.line
             v == st.args
             n == st.jj
  <2>1. u = st /\ Edge(st) = n
    BY ONLY <1>3, <1>8 DEF Finish, Edge
  <2>2. Cut(f, b, v, n, s, p) /\ b \in Lines /\ n \in Nat /\ Len(s) <= n
    BY ONLY <1>4, <1>6, <1>7, <2>1
  <2>3. u.line = b /\ u.args = v /\ u.error = FALSE
    BY ONLY <1>7, <2>1
  <2> HIDE DEF b, v, n
  <2>4. [k \in DOMAIN v |-> CString(b, v[k])] = Words(s)
    BY ONLY <1>1, <2>2, CutReads
  <2>5. QED
    BY ONLY <2>3, <2>4 DEF ArgStrings, u
<1>9. CASE ~(st.argstart < 0)
  <2> DEFINE b == [st.line EXCEPT ![st.jj] = NUL]
             v == Append(st.args, st.argstart)
  <2>1. u = [st EXCEPT !.line[st.jj] = NUL, !.args = Append(@, st.argstart)]
    BY ONLY <1>3, <1>7, <1>9 DEF Finish
  <2>2. u.line = b /\ u.args = v /\ u.error = FALSE
    BY ONLY <1>7, <2>1 DEF TokenStates
  <2>3. ~InWord(s, st.jj + 1)
    <3>1. st.jj + 1 \notin DOMAIN s
      BY ONLY <1>2, <1>4, <1>7
    <3>2. QED
      BY ONLY <3>1 DEF InWord
  <2>4. \E g : Cut(g, b, v, st.jj + 1, s, p)
    BY ONLY <1>1, <1>5, <1>6, <1>9, <2>3, WordEnds
  <2>5. b \in Lines
    BY ONLY <1>7, CharactersAre DEF Lines
  <2> HIDE DEF b, v
  <2>6. PICK g : Cut(g, b, v, st.jj + 1, s, p)
    BY ONLY <2>4
  <2>7. st.jj + 1 \in Nat /\ Len(s) <= st.jj + 1
    BY ONLY <1>2, <1>4, <1>7
  <2>8. [k \in DOMAIN v |-> CString(b, v[k])] = Words(s)
    BY ONLY <1>1, <2>5, <2>6, <2>7, CutReads
  <2>9. QED
    BY ONLY <2>2, <2>8 DEF ArgStrings, u
<1>10. QED
  BY ONLY <1>8, <1>9

-----------------------------------------------------------------------------
(* The commands.                                                            *)

LEMMA DispatchIs ==
  ASSUME NEW argv, aux \in [0 .. 3 -> {0, 1}], NEW o \in Dispatch(argv)
  PROVE  o.err \in {0, 1, 254, 255} /\ o.aux \in [0 .. 3 -> {0, 1}]
<1> DEFINE Fine == {r \in [err : {0, 1, 254, 255}, aux : [0 .. 3 -> {0, 1}]] : TRUE}
<1>1. \A err \in {0, 1, 254, 255} : Result(err) \in Fine
  BY DEF Result
<1>2. cmd_aux(argv) \in Fine
  BY <1>1 DEF cmd_aux, SetAux
<1>3. cmd_hv(argv) \in Fine /\ cmd_sw(argv) \in Fine
  BY <1>1 DEF cmd_hv, cmd_sw
<1>4. Result(cmd_help(argv)) \in Fine
  BY <1>1 DEF cmd_help
<1>5. Run(argv) \subseteq Fine
  <2>1. /\ {Result(cmd_help(argv))} \subseteq Fine /\ {cmd_aux(argv)} \subseteq Fine
        /\ {cmd_hv(argv)} \subseteq Fine /\ {cmd_sw(argv)} \subseteq Fine
        /\ {} \subseteq Fine /\ {Result(0)} \subseteq Fine
    BY <1>1, <1>2, <1>3, <1>4
  <2> HIDE DEF Fine
  <2>2. QED
    BY <2>1, Zenon DEF Run
<1>6. Dispatch(argv) \subseteq Fine
  BY <1>1, <1>5 DEF Dispatch
<1>7. QED
  BY <1>6

LEMMA OutcomeIs == ASSUME NEW argv, NEW o \in Dispatch(argv) PROVE o = [err |-> o.err, aux |-> o.aux]
<1> DEFINE Whole(r) == r = [err |-> r.err, aux |-> r.aux]
<1>1. \A err : Whole(Result(err))
  BY DEF Result
<1>2. Whole(cmd_aux(argv)) /\ Whole(cmd_hv(argv)) /\ Whole(cmd_sw(argv))
  BY <1>1 DEF cmd_aux, cmd_hv, cmd_sw
<1> DEFINE Fine == {Result(cmd_help(argv)), cmd_aux(argv), cmd_hv(argv), cmd_sw(argv), Result(0), Result(254)}
<1>3. \A r \in Fine : Whole(r)
  BY <1>1, <1>2
<1>4. /\ {Result(cmd_help(argv))} \subseteq Fine /\ {cmd_aux(argv)} \subseteq Fine
      /\ {cmd_hv(argv)} \subseteq Fine /\ {cmd_sw(argv)} \subseteq Fine
      /\ {} \subseteq Fine /\ {Result(0)} \subseteq Fine /\ {Result(254)} \subseteq Fine
  OBVIOUS
<1> HIDE DEF Fine, Whole
<1>5. Run(argv) \subseteq Fine
  BY <1>4, Zenon DEF Run
<1>6. o \in Fine
  BY <1>4, <1>5 DEF Dispatch
<1>7. QED
  BY <1>3, <1>6 DEF Whole

-----------------------------------------------------------------------------
(* Reading a line.                                                          *)

\* The buffer holds the characters of s.
Holds(s) == \A k \in 0 .. Len(s) - 1 : line[k] = s[k + 1]

\* While a line is read the buffer holds what was edited, unless the count went
\* below zero.
IndInv ==
  /\ TypeOK
  /\ len = -1 => \/ j = Word - 1
                 \/ j = Len(edited) /\ Holds(edited)
  /\ len # -1 => \/ len = Word - 1
                 \/ ended /\ len = Len(edited) + 2 /\ Holds(edited)
                 \/ ~ended /\ len = Len(edited) /\ len >= 2 /\ Holds(edited)

LEMMA InitOK == Init => IndInv
<1> SUFFICES ASSUME Init PROVE IndInv
  OBVIOUS
<1>1. \E c \in {NUL, "h"} : line = [k \in 0 .. LineSize |-> IF k < LineSize THEN c ELSE NUL]
  BY DEF Init
<1>2. LineSize \in Nat /\ LineSize > 3 /\ MaxPackets \in Nat /\ QueueLength \in Nat
  BY ShellAssumption
<1>3. line \in [0 .. LineSize -> Characters] /\ line[LineSize] = NUL
  <2>1. PICK c \in {NUL, "h"} : line = [k \in 0 .. LineSize |-> IF k < LineSize THEN c ELSE NUL]
    BY <1>1
  <2>2. c \in Characters /\ NUL \in Characters
    BY CharactersAre
  <2>3. QED
    BY <1>2, <2>1, <2>2
<1>4. j = 0 /\ len = -1 /\ edited = <<>> /\ packets = 0 /\ UARTinQ = <<>> /\ ended = FALSE /\ cmdErr = 0
      /\ aux = [n \in 0 .. 3 |-> 0]
  BY DEF Init
<1>5. <<>> \in Seq(Characters) /\ Len(<<>>) = 0
  OBVIOUS
<1>6. TypeOK
  <2>1. /\ packets \in 0 .. MaxPackets /\ UARTinQ \in Seq(Characters) /\ Len(UARTinQ) <= QueueLength
        /\ edited \in Seq(Characters) /\ Len(edited) <= MaxLen /\ j \in 0 .. MaxLen - 1
        /\ len \in -1 .. LineSize - 1
    BY <1>2, <1>4, <1>5 DEF MaxLen
  <2>2. ended \in BOOLEAN /\ cmdErr \in {0, 1, 254, 255} /\ aux \in [0 .. 3 -> {0, 1}]
    BY <1>4
  <2>3. QED
    BY <1>3, <2>1, <2>2 DEF TypeOK
<1>7. Holds(edited)
  BY <1>4, <1>5 DEF Holds
<1>8. QED
  BY <1>4, <1>5, <1>6, <1>7 DEF IndInv

LEMMA RxStep == ASSUME IndInv, NEW p \in Packets, cdcacm_data_rx_cb(p) PROVE IndInv'
<1> USE DEF cdcacm_data_rx_cb, outcome
<1>1. UARTinQ' \in Seq(Characters) /\ Len(UARTinQ') <= QueueLength
  <2> DEFINE s == UARTinQ \o p
             n == Min({Len(s), QueueLength})
  <2>1. s \in Seq(Characters) /\ QueueLength \in Nat
    <3>1. p \in Seq(Characters) /\ UARTinQ \in Seq(Characters) /\ QueueLength \in Nat
      BY ShellAssumption, CharactersAre DEF IndInv, TypeOK
    <3>2. QED
      BY ONLY <3>1 DEF s
  <2>2. UARTinQ' = SubSeq(s, 1, n)
    OBVIOUS
  <2> HIDE DEF s
  <2>3. n \in Nat /\ n <= Len(s) /\ n <= QueueLength
    <3>1. ASSUME NEW v \in Nat, NEW w \in Nat
          PROVE  Min({v, w}) \in Nat /\ Min({v, w}) <= v /\ Min({v, w}) <= w
      <4>1. {v, w} \in SUBSET Nat /\ {v, w} # {}
        OBVIOUS
      <4>2. Min({v, w}) \in {v, w} /\ \A k \in {v, w} : Min({v, w}) <= k
        BY ONLY <4>1, LeastIsMin
      <4>3. QED
        BY ONLY <4>2, v \in Nat, w \in Nat
    <3>2. Len(s) \in Nat
      BY <2>1
    <3>3. QED
      BY ONLY <2>1, <3>1, <3>2
  <2> HIDE DEF n
  <2>4. SubSeq(s, 1, n) \in Seq(Characters) /\ Len(SubSeq(s, 1, n)) = n
    BY ONLY <2>1, <2>3
  <2>5. QED
    BY ONLY <2>2, <2>3, <2>4
<1>2. packets' \in 0 .. MaxPackets
  BY ShellAssumption DEF IndInv, TypeOK
<1>3. UNCHANGED <<line, j, len, edited, ended, cmdErr, aux>>
  OBVIOUS
<1>4. TypeOK'
  <2>1. TypeOK
    BY DEF IndInv
  <2>2. line' = line /\ j' = j /\ len' = len /\ edited' = edited /\ ended' = ended /\ cmdErr' = cmdErr /\ aux' = aux
    BY ONLY <1>3
  <2>3. QED
    BY ONLY <1>1, <1>2, <2>1, <2>2 DEF TypeOK
<1>5. Holds(edited)' = Holds(edited)
  BY <1>3 DEF Holds
<1>6. QED
  BY <1>3, <1>4, <1>5 DEF IndInv

LEMMA ReadIs == ASSUME TypeOK, UARTinQ # <<>>, Read
                PROVE  /\ Head(UARTinQ) \in Characters /\ UARTinQ' \in Seq(Characters)
                       /\ Len(UARTinQ') <= QueueLength
<1>1. UARTinQ \in Seq(Characters) /\ Len(UARTinQ) <= QueueLength /\ QueueLength \in Nat
  BY ShellAssumption DEF TypeOK
<1>2. UARTinQ' = Tail(UARTinQ)
  BY DEF Read
<1>3. QED
  BY <1>1, <1>2

LEMMA FullStep == ASSUME IndInv, FullLine PROVE IndInv'
<1>1. LineSize \in Nat /\ LineSize > 3 /\ Word \in Nat /\ Word > LineSize + 3 /\ MaxLen = LineSize - 1
  BY ShellAssumption DEF MaxLen
<1>2. /\ len = -1 /\ j >= MaxLen - 1 /\ len' = j /\ ended' = FALSE
      /\ packets' = packets /\ UARTinQ' = UARTinQ /\ line' = line /\ j' = j /\ edited' = edited
      /\ cmdErr' = cmdErr /\ aux' = aux
  BY DEF FullLine, outcome
<1>3. j = Word - 1 \/ (j = Len(edited) /\ Holds(edited))
  BY <1>2 DEF IndInv
<1>4. j \in 0 .. MaxLen - 1 \cup {Word - 1}
  BY DEF IndInv, TypeOK
<1>5. TypeOK'
  <2>1. len' \in -1 .. LineSize - 1 \cup {Word - 1} /\ ended' \in BOOLEAN
    <3>1. j \in -1 .. LineSize - 1 \cup {Word - 1}
      BY ONLY <1>1, <1>4
    <3>2. len' = j /\ ended' = FALSE
      BY ONLY <1>2
    <3>3. QED
      BY ONLY <3>1, <3>2
  <2>2. QED
    BY <1>2, <2>1 DEF IndInv, TypeOK
<1>6. Holds(edited)' = Holds(edited)
  BY <1>2 DEF Holds
<1>7. QED
  BY <1>1, <1>2, <1>3, <1>4, <1>5, <1>6 DEF IndInv

LEMMA ReturnStep == ASSUME IndInv, ReadReturn PROVE IndInv'
<1>1. LineSize \in Nat /\ LineSize > 3 /\ Word \in Nat /\ Word > LineSize + 3 /\ MaxLen = LineSize - 1
  BY ShellAssumption DEF MaxLen
<1>2. UARTinQ' \in Seq(Characters) /\ Len(UARTinQ') <= QueueLength
  BY ReadIs DEF IndInv, ReadReturn
<1>3. len = -1 /\ j = Len(edited) /\ j < MaxLen - 1 /\ j \in Nat /\ Holds(edited)
  BY <1>1 DEF IndInv, TypeOK, ReadReturn
<1>4. line' = [line EXCEPT ![j] = CR, ![j + 1] = LF, ![j + 2] = NUL]
  BY DEF ReadReturn
<1>5. line' \in [0 .. LineSize -> Characters] /\ line'[LineSize] = NUL
  <2>1. line \in [0 .. LineSize -> Characters] /\ line[LineSize] = NUL
    BY DEF IndInv, TypeOK
  <2>2. j \in 0 .. LineSize /\ j + 1 \in 0 .. LineSize /\ j + 2 \in 0 .. LineSize
        /\ j # LineSize /\ j + 1 # LineSize /\ j + 2 # LineSize /\ LineSize \in 0 .. LineSize
    BY <1>1, <1>3
  <2>3. QED
    BY ONLY <1>4, <2>1, <2>2, CharactersAre
<1>6. \A k \in 0 .. j - 1 : line'[k] = line[k]
  BY <1>1, <1>3, <1>4 DEF IndInv, TypeOK
<1>7. edited' = edited /\ ended' = TRUE /\ len' = j + 2 /\ j' = j
      /\ packets' = packets /\ cmdErr' = cmdErr /\ aux' = aux
  BY DEF ReadReturn, outcome
<1>8. Holds(edited)'
  BY <1>3, <1>6, <1>7 DEF Holds
<1>9. TypeOK'
  BY <1>1, <1>2, <1>3, <1>5, <1>7 DEF IndInv, TypeOK
<1>10. QED
  BY <1>3, <1>7, <1>8, <1>9 DEF IndInv

LEMMA BackspaceStep == ASSUME IndInv, ReadBackspace PROVE IndInv'
<1>1. LineSize \in Nat /\ LineSize > 3 /\ Word \in Nat /\ Word > LineSize + 3 /\ MaxLen = LineSize - 1
  BY ShellAssumption DEF MaxLen
<1>2. UARTinQ' \in Seq(Characters) /\ Len(UARTinQ') <= QueueLength
  BY ReadIs DEF IndInv, ReadBackspace
<1>3. len = -1 /\ j = Len(edited) /\ j < MaxLen - 1 /\ j \in Nat /\ Holds(edited) /\ edited \in Seq(Characters)
  BY <1>1 DEF IndInv, TypeOK, ReadBackspace
<1>4. len' = len /\ line' = line /\ ended' = ended /\ packets' = packets /\ cmdErr' = cmdErr /\ aux' = aux
  BY DEF ReadBackspace, outcome
<1>5. CASE j = 0
  <2>1. edited = <<>> /\ j' = (0 - 1) % Word
    <3>1. j' = (j - 1) % Word
      BY DEF ReadBackspace
    <3>2. edited = <<>>
      <4>1. \A s \in Seq(Characters) : Len(s) = 0 => s = <<>>
        OBVIOUS
      <4>2. QED
        BY ONLY <1>3, <1>5, <4>1
    <3>3. QED
      BY <1>5, <3>1, <3>2, Zenon
  <2>3. Word \in Nat /\ Word > 3
    BY <1>1
  <2>4. j' = Word - 1
    BY ONLY <2>1, <2>3, BelowZero
  <2>5. edited' = edited
    BY <2>1 DEF ReadBackspace
  <2>6. QED
    BY <1>1, <1>2, <1>3, <1>4, <2>4, <2>5 DEF IndInv, TypeOK
<1>6. CASE j # 0
  <2>1. edited # <<>> /\ j' = (j - 1) % Word /\ edited' = Front(edited)
    BY <1>3, <1>6 DEF ReadBackspace
  <2>2. \A v, w \in Nat : v < w => v % w = v
    OBVIOUS
  <2>3. j' = j - 1
    BY <1>1, <1>3, <1>6, <2>1, <2>2
  <2>4. edited' = SubSeq(edited, 1, Len(edited) - 1)
    BY <2>1 DEF Front
  <2>5. edited' \in Seq(Characters) /\ Len(edited') = j - 1 /\ \A k \in 1 .. j - 1 : edited'[k] = edited[k]
    BY <1>3, <1>6, <2>4
  <2>6. Holds(edited)'
    BY <1>3, <1>4, <2>5 DEF Holds
  <2>7. TypeOK'
    BY <1>1, <1>2, <1>3, <1>4, <1>6, <2>3, <2>5 DEF IndInv, TypeOK
  <2>8. QED
    BY <1>3, <1>4, <2>3, <2>5, <2>6, <2>7 DEF IndInv
<1>7. QED
  BY <1>5, <1>6

LEMMA OtherStep == ASSUME IndInv, ReadOther PROVE IndInv'
<1>1. LineSize \in Nat /\ LineSize > 3 /\ Word \in Nat /\ Word > LineSize + 3 /\ MaxLen = LineSize - 1
  BY ShellAssumption DEF MaxLen
<1>2. UARTinQ' \in Seq(Characters) /\ Len(UARTinQ') <= QueueLength /\ Head(UARTinQ) \in Characters
  BY ReadIs DEF IndInv, ReadOther
<1>3. len = -1 /\ j = Len(edited) /\ j < MaxLen - 1 /\ j \in Nat /\ Holds(edited) /\ edited \in Seq(Characters)
  BY <1>1 DEF IndInv, TypeOK, ReadOther
<1>4. len' = len /\ ended' = ended /\ packets' = packets /\ cmdErr' = cmdErr /\ aux' = aux
      /\ j' = j + 1 /\ edited' = Append(edited, Head(UARTinQ)) /\ line' = [line EXCEPT ![j] = Head(UARTinQ)]
  BY DEF ReadOther, outcome
<1>5. edited' \in Seq(Characters) /\ Len(edited') = j + 1 /\ edited'[j + 1] = Head(UARTinQ)
      /\ \A k \in 1 .. j : edited'[k] = edited[k]
  BY <1>2, <1>3, <1>4
<1>6. line' \in [0 .. LineSize -> Characters] /\ line'[LineSize] = NUL /\ line'[j] = Head(UARTinQ)
      /\ \A k \in 0 .. j - 1 : line'[k] = line[k]
  <2>1. line \in [0 .. LineSize -> Characters] /\ line[LineSize] = NUL
    BY DEF IndInv, TypeOK
  <2>2. j \in 0 .. LineSize /\ j # LineSize /\ LineSize \in 0 .. LineSize
    BY ONLY <1>1, <1>3
  <2>3. \A k \in 0 .. j - 1 : k # j /\ k \in 0 .. LineSize
    BY ONLY <1>1, <1>3
  <2>4. QED
    BY ONLY <1>2, <1>4, <2>1, <2>2, <2>3
<1>7. Holds(edited)'
  BY <1>3, <1>5, <1>6 DEF Holds
<1>8. TypeOK'
  BY <1>1, <1>2, <1>3, <1>4, <1>5, <1>6 DEF IndInv, TypeOK
<1>9. QED
  BY <1>3, <1>4, <1>5, <1>7, <1>8 DEF IndInv

\* What the parser is handed.
LEMMA StrippedIs ==
  ASSUME IndInv, len # -1
  PROVE  /\ Stripped \in Lines /\ Stripped[LineSize] = NUL
         /\ len # Word - 1 =>
              LET s == IF ended THEN edited ELSE SubSeq(edited, 1, Len(edited) - 2)
              IN /\ s \in Seq(Characters) /\ Len(s) \in 0 .. LineSize /\ Stripped[Len(s)] = NUL
                 /\ \A k \in 0 .. Len(s) - 1 : Stripped[k] = s[k + 1]
<1>1. LineSize \in Nat /\ LineSize > 3 /\ Word \in Nat /\ Word > LineSize + 3 /\ MaxLen = LineSize - 1
  BY ShellAssumption DEF MaxLen
<1>2. /\ line \in [0 .. LineSize -> Characters] /\ line[LineSize] = NUL /\ NUL \in Characters
      /\ edited \in Seq(Characters) /\ Len(edited) \in Nat
      /\ len \in -1 .. LineSize - 1 \cup {Word - 1}
  BY CharactersAre DEF IndInv, TypeOK
<1>3. Stripped \in Lines /\ Stripped[LineSize] = NUL
  BY <1>1, <1>2 DEF Stripped, Lines
<1>4. ASSUME len # Word - 1, len >= 2
      PROVE  Stripped[len - 2] = NUL /\ \A k \in 0 .. len - 3 : Stripped[k] = line[k]
  <2>1. len - 2 \in 0 .. LineSize /\ DOMAIN line = 0 .. LineSize
    BY ONLY <1>1, <1>2, <1>4
  <2>2. Stripped = [line EXCEPT ![len - 2] = NUL]
    BY <2>1 DEF Stripped
  <2>3. \A k \in 0 .. len - 3 : k # len - 2 /\ k \in 0 .. LineSize
    BY ONLY <1>1, <1>2, <1>4
  <2>4. QED
    BY ONLY <1>2, <2>1, <2>2, <2>3
<1>5. CASE len # Word - 1 /\ ended
  <2>1. len = Len(edited) + 2 /\ Holds(edited) /\ len >= 2
    BY <1>1, <1>2, <1>5 DEF IndInv
  <2>2. len - 2 = Len(edited) /\ len - 3 = Len(edited) - 1 /\ Len(edited) \in 0 .. LineSize
    BY ONLY <1>1, <1>2, <1>5, <2>1
  <2>3. Stripped[Len(edited)] = NUL /\ \A k \in 0 .. Len(edited) - 1 : Stripped[k] = edited[k + 1]
    BY ONLY <1>4, <1>5, <2>1, <2>2 DEF Holds
  <2>4. QED
    BY <1>2, <1>3, <1>5, <2>2, <2>3
<1>6. CASE len # Word - 1 /\ ~ended
  <2> DEFINE s == SubSeq(edited, 1, Len(edited) - 2)
  <2>1. len = Len(edited) /\ Holds(edited) /\ len >= 2
    BY <1>1, <1>2, <1>6 DEF IndInv
  <2>2. s \in Seq(Characters) /\ Len(s) = len - 2 /\ \A k \in 1 .. len - 2 : s[k] = edited[k]
    BY ONLY <1>2, <2>1
  <2> HIDE DEF s
  <2>3. Len(s) \in 0 .. LineSize /\ Stripped[Len(s)] = NUL
    BY ONLY <1>1, <1>2, <1>4, <1>6, <2>1, <2>2
  <2>4. \A k \in 0 .. Len(s) - 1 : Stripped[k] = s[k + 1]
    <3> TAKE k \in 0 .. Len(s) - 1
    <3>1. k \in 0 .. len - 3 /\ k \in 0 .. Len(edited) - 1 /\ k + 1 \in 1 .. len - 2
      BY ONLY <1>2, <2>1, <2>2
    <3>2. QED
      BY ONLY <1>4, <1>6, <2>1, <2>2, <3>1 DEF Holds
  <2>5. QED
    BY <1>3, <1>6, <2>2, <2>3, <2>4 DEF s
<1>7. QED
  BY <1>3, <1>5, <1>6

LEMMA ParseStep == ASSUME IndInv, Parse PROVE IndInv'
<1> DEFINE st == Tokenize(Stripped)
           words == IF st.error THEN <<>> ELSE ArgStrings(st)
<1>1. Stripped \in Lines /\ Stripped[LineSize] = NUL
  BY StrippedIs DEF Parse
<1>2. st \in TokenStates /\ st.line[LineSize] = NUL
  BY <1>1, TokenizedIs
<1>3. /\ len' = -1 /\ line' = st.line /\ j' = 0 /\ edited' = <<>>
      /\ packets' = packets /\ UARTinQ' = UARTinQ /\ ended' = ended
  BY DEF Parse
<1>4. PICK o \in IF st.error THEN {Result(255)} ELSE Dispatch(words) : cmdErr' = o.err /\ aux' = o.aux
  BY DEF Parse
<1> HIDE DEF st, words
<1>5. cmdErr' \in {0, 1, 254, 255} /\ aux' \in [0 .. 3 -> {0, 1}]
  <2>1. aux \in [0 .. 3 -> {0, 1}]
    BY DEF IndInv, TypeOK
  <2>2. o \in Dispatch(words) => o.err \in {0, 1, 254, 255} /\ o.aux \in [0 .. 3 -> {0, 1}]
    BY <2>1, DispatchIs
  <2>3. o = Result(255) => o.err \in {0, 1, 254, 255} /\ o.aux \in [0 .. 3 -> {0, 1}]
    BY <2>1 DEF Result
  <2>4. QED
    BY <1>4, <2>2, <2>3
<1>6. line' \in [0 .. LineSize -> Characters] /\ line'[LineSize] = NUL
  <2>1. st.line \in Lines
    BY ONLY <1>2 DEF TokenStates
  <2>2. QED
    BY ONLY <1>2, <1>3, <2>1, Zenon DEF Lines
<1>7. <<>> \in Seq(Characters) /\ Len(<<>>) = 0
  OBVIOUS
<1>8. /\ 0 \in 0 .. MaxLen - 1 /\ 0 <= MaxLen /\ -1 \in -1 .. LineSize - 1
  BY ShellAssumption DEF MaxLen
<1>9. TypeOK'
  BY <1>3, <1>5, <1>6, <1>7, <1>8 DEF IndInv, TypeOK
<1>10. Holds(edited)'
  BY <1>3, <1>7 DEF Holds
<1>11. QED
  BY <1>3, <1>7, <1>9, <1>10 DEF IndInv

LEMMA IndStep == ASSUME IndInv, [Next]_vars PROVE IndInv'
<1>1. CASE UNCHANGED vars
  BY <1>1 DEF vars, outcome, IndInv, TypeOK, Holds
<1>2. QED
  BY <1>1, RxStep, FullStep, ReturnStep, BackspaceStep, OtherStep, ParseStep DEF Next

\* The queue stays within its depth and the line within its buffer, whatever is
\* typed, but for the count below zero.
THEOREM ShellTypeCorrect == Spec => []TypeOK
<1>1. IndInv => TypeOK
  BY DEF IndInv
<1>2. QED
  BY <1>1, InitOK, IndStep, PTL DEF Spec

\* Only the parser takes a line that has been read.
LEMMA OnlyParse == ASSUME [Next]_vars, len # -1, len' = -1 PROVE Parse
<1>1. ~FullLine /\ ~ReadReturn /\ ~ReadBackspace /\ ~ReadOther
  BY DEF FullLine, ReadReturn, ReadBackspace, ReadOther
<1>2. ASSUME NEW p \in Packets, cdcacm_data_rx_cb(p) PROVE len' = len
  BY <1>2 DEF cdcacm_data_rx_cb
<1>3. UNCHANGED vars => len' = len
  BY DEF vars
<1>4. QED
  BY <1>1, <1>2, <1>3 DEF Next

\* What the parser is handed is the line as it was edited, up to the first NUL
\* in it, for every buffer, queue and sequence of keys.
THEOREM ShellParsesTheLine == Spec => ParsesTheLine
<1> DEFINE Handed == IF ended THEN edited ELSE SubSeq(edited, 1, Len(edited) - 2)
           A == len # -1 /\ len' = -1 /\ len # Word - 1 => parsed' = UpToNul(Handed)
<1>1. ASSUME IndInv, [Next]_vars PROVE [A]_vars
  <2> SUFFICES ASSUME len # -1, len' = -1, len # Word - 1 PROVE parsed' = UpToNul(Handed)
    OBVIOUS
  <2>0. Parse
    BY <1>1, OnlyParse
  <2>1. /\ Stripped \in Lines
        /\ Handed \in Seq(Characters) /\ Len(Handed) \in 0 .. LineSize /\ Stripped[Len(Handed)] = NUL
        /\ \A k \in 0 .. Len(Handed) - 1 : Stripped[k] = Handed[k + 1]
    BY <1>1, StrippedIs
  <2>2. parsed' = CString(Stripped, 0)
    BY <2>0 DEF Parse
  <2> HIDE DEF Handed
  <2>3. PICK e \in 0 .. Len(Handed) : /\ CString(Stripped, 0) = [k \in 1 .. e |-> Stripped[k - 1]]
                                      /\ Stripped[e] = NUL /\ \A k \in 0 .. e - 1 : Stripped[k] # NUL
    BY <2>1, CStringIs
  <2>4. Len(Handed) \in Nat /\ e \in Nat
    BY <2>1, <2>3
  <2>5. \A k \in 1 .. e : Stripped[k - 1] = Handed[k] /\ Handed[k] # NUL
    <3> TAKE k \in 1 .. e
    <3>1. k - 1 \in 0 .. e - 1 /\ k - 1 \in 0 .. Len(Handed) - 1 /\ k - 1 + 1 = k
      BY ONLY <2>3, <2>4
    <3>2. QED
      BY ONLY <2>1, <2>3, <3>1
  <2>6. e = Len(Handed) \/ Handed[e + 1] = NUL
    <3>1. e # Len(Handed) => e \in 0 .. Len(Handed) - 1
      BY ONLY <2>3, <2>4
    <3>2. QED
      BY ONLY <2>1, <2>3, <3>1
  <2>7. UpToNul(Handed) = [k \in 1 .. e |-> Handed[k]]
    BY ONLY <2>1, <2>3, <2>5, <2>6, UpToNulIs
  <2>8. [k \in 1 .. e |-> Handed[k]] = [k \in 1 .. e |-> Stripped[k - 1]]
    BY ONLY <2>5
  <2>9. QED
    BY ONLY <2>2, <2>3, <2>7, <2>8
<1>2. Spec => [][A]_vars
  BY <1>1, InitOK, IndStep, PTL DEF Spec
<1>3. QED
  BY <1>2 DEF ParsesTheLine

\* A line of which at most the first word is quoted is cut into its words, and runs
\* the command that they name, for every line, buffer and queue.
THEOREM ShellCutsIntoWords == Spec => CutsIntoWords
<1> DEFINE Looked == IF Len(parsed') = COMMAND_SIZE THEN Front(parsed') ELSE parsed'
           A == len # -1 /\ len' = -1 =>
                  (WellQuoted(Looked) /\ FirstWordQuoted(Looked) =>
                     /\ args' = Words(Looked)
                     /\ [err |-> cmdErr', aux |-> aux'] \in Dispatch(Words(Looked)))
<1>1. ASSUME IndInv, [Next]_vars PROVE [A]_vars
  <2> SUFFICES ASSUME len # -1, len' = -1, WellQuoted(Looked), FirstWordQuoted(Looked)
               PROVE  /\ args' = Words(Looked)
                      /\ [err |-> cmdErr', aux |-> aux'] \in Dispatch(Words(Looked))
    OBVIOUS
  <2>1. Parse
    BY <1>1, OnlyParse
  <2> DEFINE st == Tokenize(Stripped)
             words == IF st.error THEN <<>> ELSE ArgStrings(st)
  <2>2. parsed' = CString(Stripped, 0) /\ args' = words
    BY <2>1 DEF Parse
  <2>3. PICK o \in IF st.error THEN {Result(255)} ELSE Dispatch(words) : cmdErr' = o.err /\ aux' = o.aux
    BY <2>1 DEF Parse
  <2>4. Stripped \in Lines /\ Stripped[LineSize] = NUL
    BY <1>1, StrippedIs
  <2>5. Cuttable(Stripped, Looked)
    BY <2>2, <2>4 DEF Cuttable
  <2> HIDE DEF Looked
  <2>6. st.error = FALSE /\ ArgStrings(st) = Words(Looked)
    BY ONLY <2>5, CutsAre
  <2> HIDE DEF st
  <2>7. words = Words(Looked)
    BY ONLY <2>6
  <2>8. o \in Dispatch(words)
    BY ONLY <2>3, <2>6
  <2> HIDE DEF words
  <2>9. o = [err |-> o.err, aux |-> o.aux]
    BY ONLY <2>8, OutcomeIs
  <2>10. QED
    BY ONLY <2>2, <2>3, <2>7, <2>8, <2>9
<1>2. Spec => [][A]_vars
  BY <1>1, InitOK, IndStep, PTL DEF Spec
<1>3. QED
  BY <1>2 DEF CutsIntoWords
=============================================================================
