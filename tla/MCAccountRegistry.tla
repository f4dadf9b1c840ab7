--------------------------- MODULE MCAccountRegistry ---------------------------
(* Model-checking instance of AccountRegistry: three accounts of one      *)
(* protocol, stored ids with suffixes 0 and 1.                            *)
EXTENDS AccountRegistry, TLC

CONSTANTS a1, a2, a3, jabber, u1, u2, u3, c1, c2, none

MCAccounts == {a1, a2, a3}
MCProto    == [a \in MCAccounts |-> jabber]
MCUser     == (a1 :> u1) @@ (a2 :> u2) @@ (a3 :> u3)
MCChanOf   == (a1 :> c1) @@ (a2 :> c2) @@ (a3 :> none)
=============================================================================
