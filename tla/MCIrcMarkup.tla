---------------------------- MODULE MCIrcMarkup -----------------------------
(* Every string of at most MaxLen symbols over an alphabet that has each   *)
(* control code of the configuration, a digit that makes one- and two-    *)
(* digit colours both valid (1, 11, 12, 2) and invalid (21, 22), the ','  *)
(* of a background, and a plain character.                                *)
EXTENDS IrcMarkup

CONSTANTS MaxLen, Controls

MCInputs == SeqOf(Controls \cup {"1", "2", ",", "x"}, MaxLen)
====
