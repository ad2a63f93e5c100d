-------------------------------- MODULE Shell --------------------------------
(***************************************************************************)
(* The input half of the debug console: packets of typed characters, the   *)
(* queue UARTinQ between the USB task and the shell (app/cdcacm.c,         *)
(* app/syscalls.c), the line editor, the parser and the dispatcher         *)
(* with its tables of commands (app/debug_shell.c, app/command.c).  What a *)
(* command does beyond its result and the auxiliary outputs is in the      *)
(* modules of the parts it acts on, or is only printed.                    *)
(***************************************************************************)
EXTENDS Tokenizer

CONSTANTS
  Packets,     \* what the user types: sequences of characters
  MaxPackets,  \* bound on the number of packets
  QueueLength, \* depth of UARTinQ: 256
  LineSize,    \* size of the shell's buffer: 1024; cmd_term_get is given one less
  Word         \* 2^32: the counter of cmd_term_get is a uint32_t

CR == "cr"
LF == "lf"
BS == "bs"
DEGREE == "0xb0"
MaxLen == LineSize - 1

ASSUME ShellAssumption ==
  /\ Packets \subseteq Seq(STRING)
  /\ MaxPackets \in Nat /\ QueueLength \in Nat \ {0}
  /\ LineSize \in Nat /\ LineSize > 3 /\ Word \in Nat /\ Word > LineSize + 3

VARIABLES
  packets,     \* packets typed
  UARTinQ,     \* characters the shell has not read
  line,        \* the shell's buffer
  j,           \* characters of the line being edited
  len,         \* what cmd_term_get returned; -1 while it reads
  edited,      \* the characters of this line, without those erased by backspaces
  ended,       \* whether carriage return ended the line
  parsed, args, cmdErr, \* the line handed to cmdParse last, its words, and the result
  aux          \* the four auxiliary outputs

outcome == <<parsed, args, cmdErr, aux>>
vars == <<packets, UARTinQ, line, j, len, edited, ended, outcome>>

\* The buffer comes from malloc and holds anything; two fillings stand for all.
\* The byte behind it, which no line reaches, is taken to be NUL.
Init ==
  /\ packets = 0 /\ UARTinQ = <<>>
  /\ line \in {[k \in 0 .. LineSize |-> IF k < LineSize THEN c ELSE NUL] : c \in {NUL, "h"}}
  /\ j = 0 /\ len = -1
  /\ edited = <<>> /\ ended = FALSE
  /\ parsed = <<>> /\ args = <<>> /\ cmdErr = 0
  /\ aux = [n \in 0 .. 3 |-> 0]

-----------------------------------------------------------------------------
\* Mutant: the queue takes everything.
RxWithoutDrop(p) ==
  /\ packets < MaxPackets /\ packets' = packets + 1
  /\ UARTinQ' = UARTinQ \o p
  /\ UNCHANGED <<line, j, len, edited, ended, outcome>>

\* cdcacm_data_rx_cb: characters that find the queue full are dropped.
cdcacm_data_rx_cb(p) ==
  /\ packets < MaxPackets /\ packets' = packets + 1
  /\ UARTinQ' = SubSeq(UARTinQ \o p, 1, Min({Len(UARTinQ \o p), QueueLength}))
  /\ UNCHANGED <<line, j, len, edited, ended, outcome>>

Read == UARTinQ' = Tail(UARTinQ)

\* cmd_term_get returns a full line before it reads on.
FullLine ==
  /\ len = -1 /\ j >= MaxLen - 1
  /\ len' = j /\ ended' = FALSE
  /\ UNCHANGED <<packets, UARTinQ, line, j, edited, outcome>>

\* Carriage return ends a line with CR, LF and NUL.
ReadReturn ==
  /\ len = -1 /\ j < MaxLen - 1
  /\ UARTinQ # <<>> /\ Head(UARTinQ) = CR /\ Read
  /\ line' = [line EXCEPT ![j] = CR, ![j + 1] = LF, ![j + 2] = NUL]
  /\ len' = j + 2 /\ ended' = TRUE
  /\ UNCHANGED <<packets, j, edited, outcome>>

\* Mutant: backspace erases on the screen only.
ScreenBackspace ==
  /\ len = -1 /\ j < MaxLen - 1
  /\ UARTinQ # <<>> /\ Head(UARTinQ) = BS /\ Read
  /\ edited' = IF edited = <<>> THEN <<>> ELSE Front(edited)
  /\ UNCHANGED <<packets, line, j, len, ended, outcome>>

\* Backspace and DEL take a character back; j is unsigned.
ReadBackspace ==
  /\ len = -1 /\ j < MaxLen - 1
  /\ UARTinQ # <<>> /\ Head(UARTinQ) = BS /\ Read
  /\ j' = (j - 1) % Word
  /\ edited' = IF edited = <<>> THEN <<>> ELSE Front(edited)
  /\ UNCHANGED <<packets, line, len, ended, outcome>>

ReadOther ==
  /\ len = -1 /\ j < MaxLen - 1
  /\ UARTinQ # <<>> /\ Head(UARTinQ) \notin {CR, BS} /\ Read
  /\ line' = [line EXCEPT ![j] = Head(UARTinQ)]
  /\ j' = j + 1
  /\ edited' = Append(edited, Head(UARTinQ))
  /\ UNCHANGED <<packets, len, ended, outcome>>

\* vDebugShell cuts off the last two characters and calls cmdParse.  A write
\* before the buffer is left without effect here.
Stripped ==
  IF len - 2 \in DOMAIN line THEN [line EXCEPT ![len - 2] = NUL] ELSE line

-----------------------------------------------------------------------------
(* The commands.  The name of a command is one character here.              *)

mainCommands == {"buildInfo", "build_sha1", "hardfault", "timer", "hv", "aux", "s1", "s2",
                 "testee", "eraseee"}
commonCommands == {"i", "r8", "r16", "r32", "w8", "w16", "w32", "stack", "tasks", "heap",
                   "reboot", "exit", "help", "h", "?"}
dispatchTableTable == <<mainCommands, commonCommands>>

\* The tables that know a word; each of them runs its command.  The context of
\* every entry matches: nothing ever enters another one.
Hits(w) == {i \in DOMAIN dispatchTableTable : \E c \in dispatchTableTable[i] : w = <<c>>}

\* help of all commands, or of one.
cmd_help(argv) == IF Len(argv) = 1 \/ Hits(argv[2]) # {} THEN 0 ELSE 1

\* strtoul with base 0, of which the digits 0 and 1 are enough here: blanks are
\* skipped, a leading 0 means octal, and what is no number is 0.
Number(w) ==
  LET from == Min({k \in 1 .. Len(w) + 1 : k > Len(w) \/ w[k] \notin Blanks})
      to == Min({k \in from .. Len(w) + 1 : k > Len(w) \/ w[k] \notin {"0", "1"}}) - 1
      base == IF from <= to /\ w[from] = "0" THEN 8 ELSE 10
  IN FoldLeft(LAMBDA n, d : base * n + (IF d = "1" THEN 1 ELSE 0), 0, SubSeq(w, from, to))

\* aux0 .. aux3
SetAux(n, on) == [aux EXCEPT ![n] = IF on = 0 THEN 0 ELSE 1]

\* A command leaves its result in cmdErr, and the auxiliary outputs.
Result(err) == [err |-> err, aux |-> aux]

cmd_aux(argv) ==
  IF Len(argv) = 3 /\ Number(argv[2]) \in DOMAIN aux
    THEN [err |-> 0, aux |-> SetAux(Number(argv[2]), Number(argv[3]))]
    ELSE Result(1)

cmd_hv(argv) == Result(IF Len(argv) \in {1, 2} THEN 0 ELSE 1)

\* s1 and s2
cmd_sw(argv) ==
  Result(IF Len(argv) = 2 /\ argv[2] # <<>> /\ argv[2][1] \in {"A", "a", "B", "b"} THEN 0 ELSE 1)

\* The outcomes of a command that is known.  hardfault and reboot do not return;
\* the device starts anew, at Init.  The others print, read or write memory, or
\* leave the context they are in, and return 0 whatever their arguments.
Run(argv) ==
  LET c == argv[1][1]
  IN CASE c \in {"help", "h", "?"} -> {Result(cmd_help(argv))}
       [] c = "aux" -> {cmd_aux(argv)}
       [] c = "hv" -> {cmd_hv(argv)}
       [] c \in {"s1", "s2"} -> {cmd_sw(argv)}
       [] c \in {"hardfault", "reboot"} -> {}
       [] OTHER -> {Result(0)}

\* What a line of words argv comes to.  A line without words passes strlen(NULL),
\* and address 0 holds the low byte, 0, of the initial stack pointer.
Dispatch(argv) ==
  IF argv = <<>> \/ argv[1] = <<>> \/ argv[1][1] = DEGREE THEN {Result(0)}
  ELSE IF Hits(argv[1]) = {} THEN {Result(254)}
  ELSE Run(argv)

Parse ==
  /\ len # -1 /\ len' = -1
  /\ parsed' = CString(Stripped, 0)
  /\ LET st == Tokenize(Stripped)
         words == IF st.error THEN <<>> ELSE ArgStrings(st)
     IN /\ line' = st.line
        /\ args' = words
        /\ \E o \in IF st.error THEN {Result(255)} ELSE Dispatch(words) :
             cmdErr' = o.err /\ aux' = o.aux
  /\ j' = 0 /\ edited' = <<>>
  /\ UNCHANGED <<packets, UARTinQ, ended>>

Next == (\E p \in Packets : cdcacm_data_rx_cb(p))
          \/ FullLine \/ ReadReturn \/ ReadBackspace \/ ReadOther \/ Parse
Spec == Init /\ [][Next]_vars

-----------------------------------------------------------------------------
\* What is typed, what the shell puts into the buffer, and what may be there.
Characters == {CR, LF, NUL, "h"} \cup UNION {Range(p) : p \in Packets}

\* Every variable stays in its range: the queue within its depth, the line
\* within its buffer but for the count below zero after a backspace on an empty
\* line.
TypeOK ==
  /\ packets \in 0 .. MaxPackets /\ UARTinQ \in Seq(Characters) /\ Len(UARTinQ) <= QueueLength
  /\ line \in [0 .. LineSize -> Characters] /\ line[LineSize] = NUL
  /\ j \in 0 .. MaxLen - 1 \cup {Word - 1} /\ len \in -1 .. LineSize - 1 \cup {Word - 1}
  /\ edited \in Seq(Characters) /\ Len(edited) <= MaxLen /\ ended \in BOOLEAN
  /\ cmdErr \in {0, 1, 254, 255} /\ aux \in [0 .. 3 -> {0, 1}]

UpToNul(s) == SubSeq(s, 1, Min({k \in 1 .. Len(s) + 1 : k > Len(s) \/ s[k] = NUL}) - 1)

\* A line that ends with carriage return reaches cmdParse as it was edited, and
\* of a line that filled the buffer all but its last two characters do, but for
\* what follows a NUL that was typed: nothing is parsed that was not typed for
\* this very line, whatever the buffer held.  A line whose count went below zero
\* is the one exception.
ParsesTheLine ==
  [][len # -1 /\ len' = -1 /\ len # Word - 1 =>
       parsed' = UpToNul(IF ended THEN edited ELSE SubSeq(edited, 1, Len(edited) - 2))]_vars

\* A line of which at most the first word is quoted is cut into its words, all
\* of them, in order, and with the right ends, and runs the command that its
\* first word names: an auxiliary output changes when a line asks for it.  A line
\* of just COMMAND_SIZE characters is taken without its last.
CutsIntoWords ==
  [][len # -1 /\ len' = -1 =>
       LET s == IF Len(parsed') = COMMAND_SIZE THEN Front(parsed') ELSE parsed'
       IN WellQuoted(s) /\ FirstWordQuoted(s) =>
            /\ args' = Words(s)
            /\ [err |-> cmdErr', aux |-> aux'] \in Dispatch(Words(s))]_vars
=============================================================================
