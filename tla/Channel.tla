------------------------------ MODULE Channel ------------------------------
(***************************************************************************)
(* The IRC entity model of minbif (src/src/irc/channel.cpp): channels as   *)
(* ordered vectors of ChanUser memberships, the back-references a Nick     *)
(* keeps to its memberships, the server-wide nick registry, and the view   *)
(* the one real IRC client builds from the lines it is sent.               *)
(*                                                                         *)
(* The operators here are pure: they compute the next vector of a channel  *)
(* and the lines the local user receives, so that a handler of the         *)
(* conversation bridge can chain several of them inside one action.       *)
(***************************************************************************)
EXTENDS Naturals, Sequences, SequencesExt, FiniteSets, TLC

CONSTANTS
    Chans,      \* channel objects (one per bound IM conversation)
    Handles,    \* every Nick object the session may hold
    UserH,      \* the Nick of the local IRC user (class User)
    Roles,      \* ChanUser modes kept in the m2c table: "q","o","h","v"
    Bases,      \* nickname stems (already case-folded)
    MaxSuffix,  \* most underscores a collision loop may append
    None,       \* absent map entry
    NoView      \* the client is not on the channel

ASSUME UserH \in Handles /\ MaxSuffix \in Nat

\* A nickname is a stem followed by k underscores ("bob", "bob_", ...).
Nicknames == Bases \X (0..MaxSuffix)
AddUnderscore(n) == <<n[1], n[2] + 1>>

\* One ChanUser: the Nick it pairs with the channel and its mode bits.
ChanUserT == [nick : Handles, status : SUBSET Roles]

(* Lines the client receives.  Only the commands that change its picture  *)
(* of a channel are kept; "who" is the nickname in the line's prefix or   *)
(* its target, "list" is the NAMES listing.                               *)
Line(cmd, chan, who, add, roles, list) ==
    [cmd |-> cmd, chan |-> chan, who |-> who, add |-> add,
     roles |-> roles, list |-> list]
JoinLine(c, n)       == Line("JOIN", c, n, TRUE, {}, <<>>)
PartLine(c, n)       == Line("PART", c, n, TRUE, {}, <<>>)
ModeLine(c, n, a, r) == Line("MODE", c, n, a, r, <<>>)
NickLine(old, new)   == Line("NICK", None, old, TRUE, {}, <<new>>)
NoLine               == Line("", None, None, TRUE, {}, <<>>)

VARIABLES
    users,      \* users[c]: Channel::users, the vector of ChanUser
    nickChans,  \* nickChans[h]: Nick::channels, channels h holds a ChanUser in
    regKey,     \* regKey[h]: name h is registered under in the IRC nick map, or None
    nickname,   \* nickname[h]: Entity name of h
    view,       \* view[c]: the client's picture of c, nickname -> modes, or NoView
    clientNick  \* the nickname the client believes it has

chanVars == <<users, nickChans, regKey, nickname, view, clientNick>>

\* IRC::getNick: is a nickname taken in the server-wide map?
Taken(rk, n) == \E h \in Handles : rk[h] = n

(* Mutant: the collision test is an if, not a while.                     *)
UnusedOnce(rk, n) == IF Taken(rk, n) THEN AddUnderscore(n) ELSE n

(* The collision loop of addBuddy and renameBuddy:                         *)
(*   while(irc->getNick(n)) n += "_";                                      *)
RECURSIVE Unused(_, _)
Unused(rk, n) ==
    IF Taken(rk, n) /\ n[2] < MaxSuffix THEN Unused(rk, AddUnderscore(n)) ELSE n

\* Positions in a channel vector that hold a ChanUser of h.
Slots(us, h) == {i \in 1..Len(us) : us[i].nick = h}
IsOn(us, h)  == Slots(us, h) # {}
\* Channel::getChanUser(nick): the first ChanUser of h.
SlotOf(us, h) == SelectInSeq(us, LAMBDA u : u.nick = h)

(* Channel::sendNames: prefix glyphs + nickname of every member; the      *)
(* client reads it as nickname -> modes.                                  *)
NamesList(us, nk) == [i \in 1..Len(us) |-> <<nk[us[i].nick], us[i].status>>]

(* Channel::addUser: append the ChanUser, send JOIN to every member       *)
(* (the newcomer included) and the newcomer's modes to every other        *)
(* member, then the topic and NAMES to the newcomer.  Result: the new      *)
(* vector and the lines that reach the local user, in sending order.      *)
addUser(us, nk, c, h, status) ==
    LET us2  == Append(us, [nick |-> h, status |-> status])
        perMember(i) ==
            IF us2[i].nick # UserH THEN <<>>
            ELSE <<JoinLine(c, nk[h])>> \o
                 (IF status # {} /\ h # UserH
                  THEN <<ModeLine(c, nk[h], TRUE, status)>> ELSE <<>>)
        names == IF h = UserH
                 THEN <<Line("NAMES", c, None, TRUE, {}, NamesList(us2, nk))>>
                 ELSE <<>>
    IN  [users |-> us2,
         lines |-> FlattenSeq([i \in 1..Len(us2) |-> perMember(i)]) \o names]

(* Channel::delUser(nick, m): erase every ChanUser of h; a non-empty m is *)
(* sent to each remaining member.  The Nick side is left untouched.       *)
delUser(us, h, m) ==
    LET rest == SelectSeq(us, LAMBDA u : u.nick # h)
    IN  [users |-> rest,
         lines |-> IF m = NoLine THEN <<>>
                   ELSE FlattenSeq([i \in 1..Len(rest) |->
                                      IF rest[i].nick = UserH THEN <<m>> ELSE <<>>])]

\* Channel::broadcast(m): every member whose Nick is the user gets m.
BroadcastLines(us, m) ==
    FlattenSeq([i \in 1..Len(us) |-> IF us[i].nick = UserH THEN <<m>> ELSE <<>>])

(* Channel::setMode / delMode on the ChanUser at slot i: change the bits  *)
(* (ChanUser::setStatus / delStatus) and broadcast one MODE line built by *)
(* ChanUser::getModeMessage.  No-op when no bit is given.                 *)
setMode(us, nk, c, i, modes) ==
    IF modes = {} THEN [users |-> us, lines |-> <<>>]
    ELSE LET us2 == [us EXCEPT ![i].status = @ \cup modes]
         IN  [users |-> us2,
              lines |-> BroadcastLines(us2, ModeLine(c, nk[us[i].nick], TRUE, modes))]
delMode(us, nk, c, i, modes) ==
    IF modes = {} THEN [users |-> us, lines |-> <<>>]
    ELSE LET us2 == [us EXCEPT ![i].status = @ \ modes]
         IN  [users |-> us2,
              lines |-> BroadcastLines(us2, ModeLine(c, nk[us[i].nick], FALSE, modes))]

\* Nick::removeChanUser: drop the first back-reference to c.
removeChanUser(cs, c) == RemoveFirst(cs, c)

(* Channel::~Channel: each remaining member is sent its own PART and its  *)
(* Nick drops the back-reference to c.  Result: the back-references of    *)
(* every Nick and the lines that reach the local user.                    *)
Destroy(us, nc, nk, c) ==
    [nickChans |-> FoldLeft(LAMBDA x, u : [x EXCEPT ![u.nick] = removeChanUser(@, c)],
                            nc, us),
     lines     |-> FlattenSeq([i \in 1..Len(us) |->
                      IF us[i].nick = UserH THEN <<PartLine(c, nk[UserH])>> ELSE <<>>])]

-----------------------------------------------------------------------------
(* How an IRC client reads those lines (RFC 1459 client behaviour).       *)

DropKey(f, k) == [x \in DOMAIN f \ {k} |-> f[x]]
RenameKey(f, old, new) ==
    IF old \in DOMAIN f THEN DropKey(f, old) @@ (new :> f[old]) ELSE f

ReadLine(st, l) ==
    LET v == st.view  me == st.me  c == l.chan  IN
    CASE l.cmd = "JOIN" /\ l.who = me ->
            [st EXCEPT !.view[c] = (l.who :> {})]
      [] l.cmd = "JOIN" /\ v[c] # NoView ->
            [st EXCEPT !.view[c] = (l.who :> {}) @@ v[c]]
      [] l.cmd = "PART" /\ l.who = me ->
            [st EXCEPT !.view[c] = NoView]
      [] l.cmd = "PART" /\ v[c] # NoView ->
            [st EXCEPT !.view[c] = DropKey(v[c], l.who)]
      [] l.cmd = "MODE" /\ v[c] # NoView /\ l.who \in DOMAIN v[c] ->
            [st EXCEPT !.view[c][l.who] = IF l.add THEN @ \cup l.roles
                                                   ELSE @ \ l.roles]
      [] l.cmd = "NICK" ->
            [view |-> [d \in DOMAIN v |->
                         IF v[d] = NoView THEN NoView
                         ELSE RenameKey(v[d], l.who, l.list[1])],
             me   |-> IF l.who = me THEN l.list[1] ELSE me]
      [] l.cmd = "NAMES" ->
            [st EXCEPT !.view[c] =
                [n \in {l.list[i][1] : i \in DOMAIN l.list} |->
                   l.list[CHOOSE i \in DOMAIN l.list : l.list[i][1] = n][2]]]
      [] OTHER -> st

\* The client reads a batch of lines in order.
Deliver(lines) ==
    LET st == FoldLeft(ReadLine, [view |-> view, me |-> clientNick], lines)
    IN  /\ view' = st.view
        /\ clientNick' = st.me

=============================================================================
