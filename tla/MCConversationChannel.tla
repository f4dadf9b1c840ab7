----------------------- MODULE MCConversationChannel -----------------------
(* Model-checking instance of the conversation bridge.  Two buddy-list    *)
(* Nicks hold "a" and "a_", so a participant named a needs two turns of   *)
(* the '_' loop of addBuddy and renameBuddy.                              *)
EXTENDS ConversationChannel

CONSTANTS a, b, d, dx, me, b1, b2, u, c1, c2, q1, o1, v1

MCBuddyNick == (b1 :> <<a, 0>> @@ b2 :> <<a, 1>>)
MCHandles   == {u, b1, b2} \cup ({c1} \X (1..3))
MCHandles2  == {u, b1, b2} \cup ({c1, c2} \X (1..2))

\* Nicknames are bounded by the collision loop: MaxSuffix underscores.
MCBases == {a, b, d, u, q1}

\* Every participant name is already a valid nickname.
MCNickize == [n \in {a, b, d} |-> n]
(* A participant named dx ("d@host") whose nickized stem is d; dx itself *)
(* is not a valid nickname.                                               *)
MCBasesRaw   == MCBases \cup {dx}
MCNickizeRaw == (a :> a @@ b :> b @@ dx :> d)

(* b and d collide with nothing and are treated alike, and so are the two *)
(* mode bits: permuting either set maps behaviours to behaviours.          *)
MCSymmetry == Permutations({b, d}) \cup Permutations({o1, v1})
====
