---------------------------- MODULE MCGaAccount ----------------------------
(* One buddy list stands for the six of ga_buddylist_update: with the     *)
(* status check it makes two GETs that run beside each other and beside  *)
(* the login connection, which is still live while its callback runs.    *)
EXTENDS GaAccount

CONSTANTS c1, c2, c3, checklist
====
