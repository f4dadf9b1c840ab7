--------------------------- MODULE MCBuddyRouting ---------------------------
(* One buddy named b, a window of 2 ticks on a clock of 3, two messages    *)
(* each way.  The user offers a file named a or "a a" (a name with a       *)
(* space, which the client quotes), and sends a chat text and a CTCP line  *)
(* that is minbif's own zero-size offer, which has five words and so is    *)
(* not an offer to parseDCCSEND.                                           *)
EXTENDS BuddyRouting

MCNames == {<<"a">>, <<"a", SP, "a">>}
MCChats == {<<"a">>, OfferLine(<<"a">>, "1", "2", "0")}
=============================================================================
