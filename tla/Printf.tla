-------------------------------- MODULE Printf --------------------------------
(***************************************************************************)
(* The formatter under myprintf (app/printf-stdarg.c): one conversion of a *)
(* format, from its flags to the characters written.  A character of a     *)
(* number is its digit, 0 .. 15; the letter case of x and X is left out.   *)
(***************************************************************************)
EXTENDS Integers, Sequences, FiniteSetsExt

CONSTANTS
  WordSize,       \* 2^32: int and unsigned int
  PRINT_BUF_LEN,  \* 12
  Widths,         \* field widths
  Values          \* what is printed by d, u and x: unsigned words

ASSUME PrintfAssumption ==
  /\ WordSize \in Nat /\ WordSize > 1 /\ PRINT_BUF_LEN \in Nat /\ PRINT_BUF_LEN > 2
  /\ Widths \subseteq Nat /\ Values \subseteq 0 .. WordSize - 1

\* What is left of print_buf without sign and NUL takes the decimal digits of
\* every word: 10^10 is more than 2^32.
Decimals[n \in 0 .. PRINT_BUF_LEN] == IF n = 0 THEN 1 ELSE 10 * Decimals[n - 1]
ASSUME BufferAssumption == WordSize <= Decimals[PRINT_BUF_LEN - 2]

Minus == 20
Space == 30

VARIABLES
  format,   \* the conversion: [conv, minus, zeros, width]
  arg,      \* its argument, a word
  out,      \* the characters written, or None
  pc,       \* what print returns
  room      \* unused bytes of print_buf; negative when it was overrun

printvars == <<format, arg, out, pc, room>>
None == <<-1>>

Formats == [conv : {"d", "u", "x"}, minus : BOOLEAN, zeros : BOOLEAN, width : Widths]

PrintInit ==
  /\ format \in Formats /\ arg \in Values
  /\ out = None /\ pc = 0 /\ room = PRINT_BUF_LEN

-----------------------------------------------------------------------------
Repeat(c, n) == [k \in 1 .. n |-> c]

\* Mutant: a string that fills its field loses a place.
Missing1(string, width) == IF Len(string) > width THEN 0 ELSE width - Len(string) + 1

\* The padding that string needs to be as wide as its field.
Missing(string, width) == IF Len(string) >= width THEN 0 ELSE width - Len(string)

\* prints: padding of blanks or zeros to the left or right; width 0 means no field.
prints(string, width, right, zeros) ==
  LET pad == Repeat(IF zeros /\ width > 0 THEN 0 ELSE Space,
                    IF width > 0 THEN Missing(string, width) ELSE 0)
  IN IF right THEN string \o pad ELSE pad \o string

\* u and what repeated division leaves of it, down to 0.
Quotients(u, b) ==
  LET q[n \in 0 .. PRINT_BUF_LEN] == IF n = 0 THEN u ELSE q[n - 1] \div b
  IN q
Divisions(u, b) == Min({n \in 0 .. PRINT_BUF_LEN : Quotients(u, b)[n] = 0})

\* Mutant: a division is made before the test, as in a do loop.
DigitsDo(u, b) ==
  [k \in 1 .. Divisions(u, b) + 1 |-> Quotients(u, b)[Divisions(u, b) - k + 1] % b]

\* The digits of u, from the end of print_buf backwards.
Digits(u, b) ==
  [k \in 1 .. Divisions(u, b) |-> Quotients(u, b)[Divisions(u, b) - k] % b]

\* Mutant: u is not negated.
Magnitude0(i) == i

\* u = (unsigned int) -i
Magnitude(i) == (WordSize - i) % WordSize

Base(conv) == IF conv = "x" THEN 16 ELSE 10
Negative(conv, i) == conv = "d" /\ i >= WordSize \div 2

\* printi: the text, and the bytes of print_buf it takes.  A minus sign goes
\* ahead of padding zeros, and then is not in print_buf.
printi(i, f) ==
  LET neg == Negative(f.conv, i)
      digits == Digits(IF neg THEN Magnitude(i) ELSE i, Base(f.conv))
      ahead == neg /\ f.width # 0 /\ f.zeros
      string == IF neg /\ ~ahead THEN <<Minus>> \o digits ELSE digits
  IN IF i = 0 THEN [text |-> prints(<<0>>, f.width, f.minus, f.zeros), taken |-> 2]
     ELSE [text |-> (IF ahead THEN <<Minus>> ELSE <<>>)
                      \o prints(string, IF ahead THEN f.width - 1 ELSE f.width, f.minus, f.zeros),
           taken |-> Len(string) + 1]

print ==
  /\ out = None
  /\ LET p == printi(arg, format)
     IN out' = p.text /\ pc' = Len(p.text) /\ room' = PRINT_BUF_LEN - p.taken
  /\ UNCHANGED <<format, arg>>

PrintNext == print
PrintSpec == PrintInit /\ [][PrintNext]_printvars

-----------------------------------------------------------------------------
\* What was printed, read back: the number that its digits make.
IsDigit(c) == c \in 0 .. 15
ReadBack(text, b) ==
  LET value[k \in 0 .. Len(text)] ==
        IF k = 0 THEN 0
        ELSE IF IsDigit(text[k]) THEN value[k - 1] * b + text[k] ELSE value[k - 1]
  IN value[Len(text)]
NumberMeant == IF Negative(format.conv, arg) THEN WordSize - arg ELSE arg

\* Every word, the least negative number among them, is printed as the number it
\* is, with its sign first.  Zeros on the right of a number, which only the flags
\* - and 0 together ask for, would be read as part of it.
NumberReadsBack ==
  out # None /\ ~(format.minus /\ format.zeros) =>
    /\ ReadBack(out, Base(format.conv)) = NumberMeant
    /\ \A k \in DOMAIN out :
         out[k] = Minus <=> /\ Negative(format.conv, arg)
                            /\ out[k] # Space /\ \A m \in 1 .. k - 1 : out[m] = Space

\* The text is as wide as its field, or as the number alone if that is wider.
FillsField ==
  out # None =>
    Len(out) = Max({format.width, Len(printi(arg, [format EXCEPT !.width = 0]).text)}) /\ pc = Len(out)

\* app/printf-stdarg.c:82, "the following should be enough for 32 bit int": no
\* conversion writes before print_buf.
BufferSuffices == room >= 0
=============================================================================
