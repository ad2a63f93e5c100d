------------------------------- MODULE MCShell -------------------------------
(* What the user types in the run of Shell, key by key.                      *)
EXTENDS Shell

Keys == {<<c>> : c \in {"h", "aux", "1", " ", "\"", CR, BS}}
=============================================================================
