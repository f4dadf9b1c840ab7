---------------------------- MODULE MCIrcSession ----------------------------
(* Two nicknames, so that a later NICK can undo an earlier one, and two   *)
(* lines, so that one read() can return a line and a half.                *)
EXTENDS IrcSession

MCNicks == {<<"a">>, <<"b">>}
====
