---------------------------- MODULE MCCommandLink ----------------------------
(* The commands of the runs of Device: one answered with a copy, two    *)
(* acknowledged, one refused.                                               *)
EXTENDS Device

SomeKinds == {"ID", "SP8T", "BLINK0", "BLINK1"}
=============================================================================
