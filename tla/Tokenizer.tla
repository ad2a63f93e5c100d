------------------------------ MODULE Tokenizer ------------------------------
(***************************************************************************)
(* The tokenizer of cmdParse (app/debug_shell.c), which cuts a line into   *)
(* words in place, and the words that the line should be cut into.         *)
(*                                                                         *)
(* A line is an array of characters that ends at its first NUL; an         *)
(* argument is the index at which it begins.                               *)
(***************************************************************************)
EXTENDS Integers, SequencesExt

CONSTANT COMMAND_SIZE \* 127; a line of just this length loses its last character

ASSUME CommandSizeAssumption == COMMAND_SIZE \in Nat \ {0}

NUL   == "nul"
Quotes == {"'", "\""}
Blanks == {" ", "\t"}

\* The C string that begins at index i of array a; outside the array there is
\* none.
CString(a, i) ==
  LET nuls == {k \in DOMAIN a : k >= i /\ a[k] = NUL}
      end == IF nuls = {} THEN Cardinality(DOMAIN a) ELSE Min(nuls)
  IN [k \in 1 .. end - i |-> a[i + k - 1]]

-----------------------------------------------------------------------------
(* The loop of cmdParse, one turn at a time.                                *)

Start(a) ==
  LET len == Len(CString(a, 0))
  IN [line |-> a, jj |-> 0, argstart |-> -1, args |-> <<>>, error |-> FALSE,
      wholeLength |-> IF len = COMMAND_SIZE THEN len - 1 ELSE len]

\* The index at which the search for the closing quote stops. It ends at the
\* length of the line as strlen gives it now, after the NULs already set.
Closing(st) ==
  LET len == Len(CString(st.line, 0))
  IN Min({Max({st.jj + 1, len})} \cup
         {k \in st.jj + 1 .. len - 1 : st.line[k] = st.line[st.jj]})

\* The character after the closing quote is skipped along with it.
Quoted(st) ==
  LET kk == Closing(st)
  IN IF st.line[kk] # st.line[st.jj] THEN [st EXCEPT !.error = TRUE]
     ELSE [st EXCEPT !.line[kk] = NUL, !.args = Append(@, st.jj + 1), !.jj = kk + 2]

\* Mutant: the end of a word is not marked.
BlankUnmarked(st) ==
  IF st.argstart < 0 THEN [st EXCEPT !.jj = @ + 1]
  ELSE [st EXCEPT !.args = Append(@, st.argstart), !.argstart = -1, !.jj = @ + 1]

Blank(st) ==
  IF st.argstart < 0 THEN [st EXCEPT !.jj = @ + 1]
  ELSE [st EXCEPT !.line[st.jj] = NUL, !.args = Append(@, st.argstart),
                  !.argstart = -1, !.jj = @ + 1]

Other(st) == [st EXCEPT !.argstart = IF @ < 0 THEN st.jj ELSE @, !.jj = @ + 1]

Turn(st) ==
  IF st.error \/ st.jj >= st.wholeLength THEN st
  ELSE IF st.line[st.jj] \in Quotes THEN Quoted(st)
  ELSE IF st.line[st.jj] \in Blanks THEN Blank(st)
  ELSE Other(st)

\* The word still being accumulated when the loop ends.
Finish(st) ==
  IF st.error \/ st.argstart < 0 THEN st
  ELSE [st EXCEPT !.line[st.jj] = NUL, !.args = Append(@, st.argstart)]

\* The loop, with as many turns as the line has characters: more than it takes.
Turns(a) ==
  LET turns[n \in 0 .. Cardinality(DOMAIN a)] == IF n = 0 THEN Start(a) ELSE Turn(turns[n - 1])
  IN turns
Tokenize(a) == Finish(Turns(a)[Cardinality(DOMAIN a)])

ArgStrings(st) == [k \in DOMAIN st.args |-> CString(st.line, st.args[k])]

-----------------------------------------------------------------------------
(* What a reader expects of a line s: its words are the longest runs of     *)
(* characters that are not blank or stand between two quotes.               *)

QuotesBefore(s, i) == Cardinality({k \in 1 .. i - 1 : s[k] \in Quotes})
InWord(s, i) == i \in DOMAIN s /\ (s[i] \notin Blanks \/ QuotesBefore(s, i) % 2 = 1)

\* Quotes of one kind, each opening quote begins a word and each closing quote
\* ends one.
WellQuoted(s) ==
  LET q == {k \in DOMAIN s : s[k] \in Quotes}
  IN /\ Cardinality({s[k] : k \in q}) <= 1 /\ Cardinality(q) % 2 = 0
     /\ \A k \in q : IF QuotesBefore(s, k) % 2 = 0 THEN ~InWord(s, k - 1) ELSE ~InWord(s, k + 1)

\* Only the first word is quoted, if any is.
FirstWordQuoted(s) ==
  LET q == {k \in DOMAIN s : s[k] \in Quotes}
  IN Cardinality(q) <= 2 /\ (q # {} => \A k \in 1 .. Min(q) - 1 : s[k] \in Blanks)

Starts(s) == {i \in DOMAIN s : InWord(s, i) /\ ~InWord(s, i - 1)}
End(s, i) == Min({k \in i .. Len(s) : ~InWord(s, k + 1)})

\* The quotes around a word are no part of it.
WordAt(s, i) == IF s[i] \in Quotes THEN SubSeq(s, i + 1, End(s, i) - 1) ELSE SubSeq(s, i, End(s, i))

\* The k-th of a set of numbers, from the least.
Nth(S, k) == CHOOSE i \in S : Cardinality({m \in S : m <= i}) = k
Words(s) == [k \in 1 .. Cardinality(Starts(s)) |-> WordAt(s, Nth(Starts(s), k))]
=============================================================================
