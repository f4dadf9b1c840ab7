------------------------- MODULE ConversationChannel -------------------------
(***************************************************************************)
(* The conversation bridge (src/src/irc/conversation_channel.cpp): every   *)
(* open multi-user IM conversation is an IRC channel whose members mirror  *)
(* the conversation's participants.  IM-side events (a participant joins,  *)
(* leaves, is renamed, changes role; the conversation closes) and IRC-side *)
(* commands (the user parts the channel, changes nickname) interleave     *)
(* freely; each is one atomic handler of the single-threaded event loop.  *)
(***************************************************************************)
EXTENDS Channel

CONSTANTS
    Names,      \* participants of IM conversations (im::ChatBuddy), the user excepted
    Me,         \* the participant that is the local user (cbuddy.isMe())
    BuddyNick,  \* BuddyNick[b]: nickname of each Buddy nick on the buddy list
    UserStem,   \* the user's nickname at the start of the session
    UserNicks,  \* stems the user may pass to /NICK
    NoArg,      \* a NICK command without argument
    Nickize,    \* Nickize[p]: the stem nickize() makes of participant name p
    ValidStems, \* stems that are valid IRC nicknames
    MaxCb       \* ChatBuddy objects a channel may hold at once

Participants == Names \cup {Me}
BuddyH       == DOMAIN BuddyNick
CbHandles(c) == {c} \X (1..MaxCb)
AllCb        == UNION {CbHandles(c) : c \in Chans}

ASSUME /\ Me \notin Names
       /\ Nickize \in [Names -> ValidStems]
       /\ Handles = {UserH} \cup BuddyH \cup AllCb
       /\ MaxCb >= Cardinality(Names)

VARIABLES
    alive,      \* alive[c]: the ConversationChannel object exists
    imPresent,  \* imPresent[c]: participants of the IM conversation, as libpurple reports them
    imRole,     \* imRole[c][p]: the participant's chat flags (cbuddy.getChanStatus())
    cbuddies,   \* cbuddies[c][p]: ConversationChannel::cbuddies, participant -> Nick of its ChanUser
    binding     \* binding[h]: ChatBuddy::im_cbuddy of ChatBuddy object h

imVars  == <<alive, imPresent, imRole>>
vars    == <<chanVars, alive, imPresent, imRole, cbuddies, binding>>

-----------------------------------------------------------------------------
Init ==
    /\ users      = [c \in Chans |-> <<>>]
    /\ nickChans  = [h \in Handles |-> <<>>]
    /\ regKey     = [h \in Handles |-> CASE h = UserH  -> <<UserStem, 0>>
                                         [] h \in BuddyH -> BuddyNick[h]
                                         [] OTHER        -> None]
    /\ nickname   = regKey
    /\ view       = [c \in Chans |-> NoView]
    /\ clientNick = <<UserStem, 0>>
    /\ alive      = [c \in Chans |-> FALSE]
    /\ imPresent  = [c \in Chans |-> {}]
    /\ imRole     = [c \in Chans |-> [p \in Participants |-> {}]]
    /\ cbuddies   = [c \in Chans |-> [p \in Participants |-> None]]
    /\ binding    = [h \in AllCb |-> None]

\* A ChatBuddy object of c that is not allocated.
FreeCb(c) == {h \in CbHandles(c) : regKey[h] = None /\ nickChans[h] = <<>>}

(* IRC::removeNick(name): the Nick registered under that name leaves the  *)
(* map and is deleted (its channel list goes with it).                    *)
Victims(names) == {h \in Handles : regKey[h] \in names}

(* ChatBuddy::ChatBuddy: the nickname is nickize() of the participant's   *)
(* name, cut first at ' ' or '@' when it has one.                          *)
ChatBuddyNick(p) == Nickize[p]

-----------------------------------------------------------------------------
(* ConversationChannel::addBuddy.  The user joins through its own join     *)
(* path; another participant gets a new ChatBuddy, whose constructor      *)
(* nickizes the participant's name; the nickname is made unique by        *)
(* appending '_', registered, and then joins.                              *)
addBuddy(c, p, status) ==
    IF p = Me THEN
        LET r == addUser(users[c], nickname, c, UserH, status) IN
        /\ users'     = [users EXCEPT ![c] = r.users]
        /\ nickChans' = [nickChans EXCEPT ![UserH] = Append(@, c)]
        /\ cbuddies'  = [cbuddies EXCEPT ![c][p] = UserH]
        /\ Deliver(r.lines)
        /\ UNCHANGED <<regKey, nickname, binding>>
    ELSE IF cbuddies[c][p] # None THEN
        UNCHANGED <<chanVars, cbuddies, binding>>
    ELSE
        \E h \in FreeCb(c) :
            LET nk  == Unused(regKey, <<ChatBuddyNick(p), 0>>)
                nk2 == [nickname EXCEPT ![h] = nk]
                r   == addUser(users[c], nk2, c, h, status)
            IN  /\ regKey'    = [regKey EXCEPT ![h] = nk]
                /\ nickname'  = nk2
                /\ binding'   = [binding EXCEPT ![h] = p]
                /\ users'     = [users EXCEPT ![c] = r.users]
                /\ nickChans' = [nickChans EXCEPT ![h] = Append(@, c)]
                /\ cbuddies'  = [cbuddies EXCEPT ![c][p] = h]
                /\ Deliver(r.lines)

(* Mutant: only the added bits are applied (the del branch is lost).     *)
updateBuddyNoDel(c, p, mnew) ==
    LET i     == SlotOf(users[c], cbuddies[c][p])
        mlast == users[c][i].status
        r1    == setMode(users[c], nickname, c, i, mnew \ mlast)
    IN  /\ users' = [users EXCEPT ![c] = r1.users]
        /\ Deliver(r1.lines)
        /\ UNCHANGED <<nickChans, regKey, nickname, cbuddies, binding>>

(* ConversationChannel::updateBuddy: diff the ChanUser's bits against the *)
(* participant's new flags; set the new ones, then clear the old ones.    *)
updateBuddy(c, p, mnew) ==
    LET i     == SlotOf(users[c], cbuddies[c][p])
        mlast == users[c][i].status
        r1    == setMode(users[c], nickname, c, i, mnew \ mlast)
        r2    == delMode(r1.users, nickname, c, i, mlast \ mnew)
    IN  /\ users' = [users EXCEPT ![c] = r2.users]
        /\ Deliver(r1.lines \o r2.lines)
        /\ UNCHANGED <<nickChans, regKey, nickname, cbuddies, binding>>

(* Mutant: the NICK line to the user is not sent.                        *)
renameBuddyNoNick(c, h, q) ==
    LET new == Unused(regKey, <<q, 0>>) IN
    /\ UNCHANGED <<view, clientNick>>
    /\ regKey'   = [regKey EXCEPT ![h] = new]
    /\ nickname' = [nickname EXCEPT ![h] = new]
    /\ cbuddies' = [cbuddies EXCEPT ![c][binding[h]] = None, ![c][q] = h]
    /\ binding'  = [binding EXCEPT ![h] = q]
    /\ UNCHANGED <<users, nickChans>>

(* ConversationChannel::renameBuddy: pick a free nickname for the new     *)
(* name as libpurple gives it (not nickized), tell the user (NICK),      *)
(* re-key the nick map, rebind the ChatBuddy and move its reverse-index  *)
(* entry.                                                                 *)
renameBuddy(c, h, q) ==
    LET new == Unused(regKey, <<q, 0>>) IN
    /\ Deliver(<<NickLine(nickname[h], new)>>)
    /\ regKey'   = [regKey EXCEPT ![h] = new]
    /\ nickname' = [nickname EXCEPT ![h] = new]
    /\ cbuddies' = [cbuddies EXCEPT ![c][binding[h]] = None, ![c][q] = h]
    /\ binding'  = [binding EXCEPT ![h] = q]
    /\ UNCHANGED <<users, nickChans>>

(* ConversationChannel::delUser: drop the reverse-index entry, leave the  *)
(* base channel, then a ChatBuddy is removed from the nick map (by name)  *)
(* and deleted, while the user's leaving makes the conversation leave     *)
(* (Conversation::leave: the user is no longer a participant).            *)
(* Result: the new cbuddies, channel vector, the deleted Nicks, the lines *)
(* the user receives and whether the conversation was left.               *)
ConvDelUser(c, h, m) ==
    LET keys == {p \in Participants : cbuddies[c][p] = h}
        r    == delUser(users[c], h, m)
    IN  [cbuddies |-> IF keys = {} THEN cbuddies
                      ELSE [cbuddies EXCEPT ![c][CHOOSE p \in keys : TRUE] = None],
         users    |-> [users EXCEPT ![c] = r.users],
         gone     |-> IF h \in AllCb THEN Victims({nickname[h]}) ELSE {},
         lines    |-> r.lines,
         leave    |-> h = UserH]

\* Deleted Nick objects leave the map, lose their channel list and binding.
Forget(gone) ==
    /\ regKey'  = [k \in Handles |-> IF k \in gone THEN None ELSE regKey[k]]
    /\ binding' = [k \in AllCb |-> IF k \in gone THEN None ELSE binding[k]]

-----------------------------------------------------------------------------
(* Handlers.  The IM backend reports what happened in its conversation and *)
(* the bridge is called synchronously from that callback.                 *)

\* The IM backend opens a chat: a ConversationChannel is built for it.
OpenConv(c) ==
    /\ ~alive[c]
    /\ alive' = [alive EXCEPT ![c] = TRUE]
    /\ UNCHANGED <<chanVars, imPresent, imRole, cbuddies, binding>>

\* A participant joins the IM conversation (the user included).
ImJoin(c, p, status) ==
    /\ alive[c]
    /\ p \notin imPresent[c]
    /\ imPresent' = [imPresent EXCEPT ![c] = @ \cup {p}]
    /\ imRole'    = [imRole EXCEPT ![c][p] = status]
    /\ addBuddy(c, p, status)
    /\ UNCHANGED alive

\* A participant's flags change in the IM conversation.
ImUpdate(c, p, status) ==
    /\ alive[c]
    /\ p \in imPresent[c]
    /\ status # imRole[c][p]
    /\ cbuddies[c][p] # None
    /\ imRole' = [imRole EXCEPT ![c][p] = status]
    /\ updateBuddy(c, p, status)
    /\ UNCHANGED <<alive, imPresent>>

\* Another participant is renamed to a name not in the conversation.
ImRename(c, p, q) ==
    /\ alive[c]
    /\ p \in imPresent[c] \ {Me}
    /\ q \in Names \ imPresent[c]
    /\ cbuddies[c][p] # None
    /\ imPresent' = [imPresent EXCEPT ![c] = (@ \ {p}) \cup {q}]
    /\ imRole'    = [imRole EXCEPT ![c][q] = imRole[c][p], ![c][p] = {}]
    /\ renameBuddy(c, cbuddies[c][p], q)
    /\ UNCHANGED alive

\* Another participant leaves; its Nick leaves the channel with a PART.
ImLeave(c, p) ==
    /\ alive[c]
    /\ p \in imPresent[c] \ {Me}
    /\ cbuddies[c][p] # None
    /\ LET h == cbuddies[c][p]
           r == ConvDelUser(c, h, PartLine(c, nickname[h]))
       IN  /\ cbuddies'  = r.cbuddies
           /\ users'     = r.users
           /\ Forget(r.gone)
           /\ nickChans' = [k \in Handles |-> IF k \in r.gone THEN <<>> ELSE nickChans[k]]
           /\ Deliver(r.lines)
    /\ imPresent' = [imPresent EXCEPT ![c] = @ \ {p}]
    /\ imRole'    = [imRole EXCEPT ![c][p] = {}]
    /\ UNCHANGED <<alive, nickname>>

(* The user parts the channel (Nick::part): its back-reference goes, it   *)
(* sees its own PART, and the channel's delUser runs with the PART line,  *)
(* which makes the conversation leave.                                    *)
UserPart(c) ==
    /\ alive[c]
    /\ IsOn(users[c], UserH)
    /\ LET self == PartLine(c, nickname[UserH])
           r    == ConvDelUser(c, UserH, self)
       IN  /\ nickChans' = [nickChans EXCEPT ![UserH] = removeChanUser(@, c)]
           /\ cbuddies'  = r.cbuddies
           /\ users'     = r.users
           /\ Forget(r.gone)
           /\ Deliver(<<self>> \o r.lines)
           /\ imPresent' = IF r.leave THEN [imPresent EXCEPT ![c] = @ \ {Me}]
                           ELSE imPresent
           /\ imRole'    = IF r.leave THEN [imRole EXCEPT ![c][Me] = {}] ELSE imRole
    /\ UNCHANGED <<alive, nickname>>

(* Mutant: ~Channel does not drop the members' back-references.         *)
CloseConvKeepRefs(c) ==
    /\ alive[c]
    /\ LET cbs  == {cbuddies[c][p] : p \in Participants} \cap AllCb
           gone == Victims({nickname[h] : h \in cbs})
           rest == SelectSeq(users[c], LAMBDA u : u.nick \notin cbs)
           nc1  == [k \in Handles |-> IF k \in gone THEN <<>>
                                      ELSE IF k \in cbs THEN removeChanUser(nickChans[k], c)
                                      ELSE nickChans[k]]
       IN  /\ nickChans' = nc1
           /\ Forget(gone)
           /\ Deliver(Destroy(rest, nc1, nickname, c).lines)
    /\ users'     = [users EXCEPT ![c] = <<>>]
    /\ alive'     = [alive EXCEPT ![c] = FALSE]
    /\ imPresent' = [imPresent EXCEPT ![c] = {}]
    /\ imRole'    = [imRole EXCEPT ![c] = [p \in Participants |-> {}]]
    /\ cbuddies'  = [cbuddies EXCEPT ![c] = [p \in Participants |-> None]]
    /\ UNCHANGED nickname

(* The conversation closes: ~ConversationChannel removes every ChatBuddy  *)
(* of cbuddies silently (Channel::delUser without a line, removeChanUser, *)
(* removeNick), then ~Channel sends each remaining member its own PART    *)
(* and drops its back-reference.                                          *)
CloseConv(c) ==
    /\ alive[c]
    /\ LET cbs  == {cbuddies[c][p] : p \in Participants} \cap AllCb
           gone == Victims({nickname[h] : h \in cbs})
           rest == SelectSeq(users[c], LAMBDA u : u.nick \notin cbs)
           nc1  == [k \in Handles |-> IF k \in gone THEN <<>>
                                      ELSE IF k \in cbs THEN removeChanUser(nickChans[k], c)
                                      ELSE nickChans[k]]
           d    == Destroy(rest, nc1, nickname, c)
       IN  /\ nickChans' = d.nickChans
           /\ Forget(gone)
           /\ Deliver(d.lines)
    /\ users'     = [users EXCEPT ![c] = <<>>]
    /\ alive'     = [alive EXCEPT ![c] = FALSE]
    /\ imPresent' = [imPresent EXCEPT ![c] = {}]
    /\ imRole'    = [imRole EXCEPT ![c] = [p \in Participants |-> {}]]
    /\ cbuddies'  = [cbuddies EXCEPT ![c] = [p \in Participants |-> None]]
    /\ UNCHANGED nickname

(* Mutant: the empty-argument check of m_nick is missing.                *)
m_nickNoCheck(s) ==
    LET new == <<s, 0>> IN
    /\ Deliver(<<NickLine(nickname[UserH], new)>>)
    /\ nickname' = [nickname EXCEPT ![UserH] = new]
    /\ UNCHANGED <<users, nickChans, regKey, alive, imPresent, imRole, cbuddies, binding>>

(* IRC::m_nick: the user's NICK command.  Without an argument it is       *)
(* answered with ERR_NONICKNAMEGIVEN and changes nothing; otherwise the   *)
(* user is renamed and the change echoed (the session is registered in    *)
(* every state modelled here).  No lookup in the nick map is made.        *)
m_nick(s) ==
    IF s = NoArg THEN UNCHANGED vars
    ELSE LET new == <<s, 0>> IN
         /\ Deliver(<<NickLine(nickname[UserH], new)>>)
         /\ nickname' = [nickname EXCEPT ![UserH] = new]
         /\ UNCHANGED <<users, nickChans, regKey, alive, imPresent, imRole, cbuddies, binding>>

Next ==
    \/ \E c \in Chans : OpenConv(c) \/ CloseConv(c) \/ UserPart(c)
    \/ \E c \in Chans, p \in Participants, s \in SUBSET Roles :
          ImJoin(c, p, s) \/ ImUpdate(c, p, s)
    \/ \E c \in Chans, p, q \in Names : ImRename(c, p, q)
    \/ \E c \in Chans, p \in Names : ImLeave(c, p)
    \/ \E s \in UserNicks \cup {NoArg} : m_nick(s)

Spec == Init /\ [][Next]_vars

-----------------------------------------------------------------------------
(* Properties                                                              *)

TypeOK ==
    /\ users \in [Chans -> Seq(ChanUserT)]
    /\ nickChans \in [Handles -> Seq(Chans)]
    /\ regKey \in [Handles -> Nicknames \cup {None}]
    /\ nickname \in [Handles -> Nicknames \cup {None}]
    /\ alive \in [Chans -> BOOLEAN]
    /\ imPresent \in [Chans -> SUBSET Participants]
    /\ imRole \in [Chans -> [Participants -> SUBSET Roles]]
    /\ cbuddies \in [Chans -> [Participants -> Handles \cup {None}]]
    /\ binding \in [AllCb -> Names \cup {None}]
    /\ clientNick \in Nicknames

Registered == {h \in Handles : regKey[h] # None}

(* Nickname uniqueness (spec 3 and 8): no two Nicks registered in the     *)
(* server-wide map show the same nickname.  Collisions are meant to be    *)
(* prevented by the '_' loop of addBuddy/renameBuddy before insertion;    *)
(* m_nick renames the user as well.                                       *)
NickUnique ==
    \A h1, h2 \in Registered : h1 # h2 => nickname[h1] # nickname[h2]

(* Nicknames are valid (spec 3): every Nick in the map has a nickname an  *)
(* IRC client accepts.  The ChatBuddy constructor nickizes the name of a  *)
(* participant; renameBuddy takes the new name as it comes.               *)
NicknameValid ==
    \A h \in Registered : nickname[h][1] \in ValidStems

(* Membership back-references (spec 8): a Nick holds one back-reference   *)
(* to a channel for every ChanUser of it in that channel, and every member *)
(* is a live, registered Nick.  Channel::delUser erases only the channel  *)
(* side, so every caller must drop the Nick side itself.                  *)
MembershipBackRefs ==
    \A c \in Chans, h \in Handles :
        /\ Cardinality(Slots(users[c], h)) =
           Cardinality({i \in 1..Len(nickChans[h]) : nickChans[h][i] = c})
        /\ IsOn(users[c], h) => h \in Registered

(* The channel mirrors its conversation (spec 3): the reverse index holds *)
(* exactly the participants libpurple reports, each points at a distinct  *)
(* member bound to that participant whose mode bits are the participant's *)
(* flags, and no member is missing from the index.                        *)
BridgeMirrorsIM ==
    \A c \in Chans : alive[c] =>
        /\ {p \in Participants : cbuddies[c][p] # None} = imPresent[c]
        /\ \A p \in imPresent[c] :
              LET h == cbuddies[c][p] IN
              /\ Cardinality(Slots(users[c], h)) = 1
              /\ users[c][SlotOf(users[c], h)].status = imRole[c][p]
              /\ h \in AllCb => binding[h] = p
              /\ p = Me <=> h = UserH
        /\ \A i \in 1..Len(users[c]) :
              \E p \in imPresent[c] : cbuddies[c][p] = users[c][i].nick

(* What the client sees is what the server holds: on every channel the    *)
(* user is on, the lines it was sent (JOIN, PART, MODE, NICK, NAMES) give *)
(* exactly the members' nicknames and modes; on no other channel does it  *)
(* believe it is; and it knows its own nickname.                          *)
ClientViewExact ==
    /\ clientNick = nickname[UserH]
    /\ \A c \in Chans :
          IF IsOn(users[c], UserH)
          THEN view[c] = [n \in {nickname[u.nick] : u \in ToSet(users[c])} |->
                            users[c][CHOOSE i \in 1..Len(users[c]) :
                                       nickname[users[c][i].nick] = n].status]
          ELSE view[c] = NoView

=============================================================================
