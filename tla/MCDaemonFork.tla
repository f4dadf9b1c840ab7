---------------------------- MODULE MCDaemonFork ----------------------------
(* Model-checking instances of DaemonFork.  Three connections against     *)
(* maxcon 2 turn one away while two are tracked, and two users let two    *)
(* sessions share a user while a third has another.  The liveness runs    *)
(* use two connections and one user, so every pair of sessions collides.  *)
EXTENDS DaemonFork, TLC

CONSTANTS k1, k2, k3, u1, u2

MCClients == {k1, k2, k3}
MCUsers   == {u1, u2}
MCClients2 == {k1, k2}
MCUsers1  == {u1}

\* Connections and users are interchangeable.
MCSymmetry == Permutations(MCClients) \cup Permutations(MCUsers)
====
