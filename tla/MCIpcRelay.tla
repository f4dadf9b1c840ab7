----------------------------- MODULE MCIpcRelay -----------------------------
(* Two WALLOPS texts: "a a", a text with an inner space, and "a ", a text  *)
(* whose only space is its last character.                                 *)
EXTENDS IpcRelay

MCTexts == {<<"a", SP, "a">>, <<"a", SP>>}
=============================================================================
