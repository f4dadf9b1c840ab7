---------------------------- MODULE BuddyRouting ----------------------------
(***************************************************************************)
(* Public/private routing of one IM buddy (src/src/irc/buddy.cpp).         *)
(*                                                                         *)
(* The user's PRIVMSGs reach Buddy::send either addressed to the buddy's   *)
(* nick or through the status channel as "nick: text".  Buddy::send        *)
(* records which of the two was used and when, hands DCC SEND offers to    *)
(* process_dcc_get (which parses them with DCCGet::parseDCCSEND and so     *)
(* with the codec of IrcCodec) and queues everything else for the IM.  The *)
(* buddy's IM messages leave through Buddy::sendMessage, which answers in  *)
(* the status channel while the public window is open.                     *)
(***************************************************************************)
EXTENDS IrcCodec, Integers

CONSTANTS
  Nick,             \* the buddy's nickname, one atom
  Window,           \* Buddy::PUBLIC_MSGS_TIMEOUT (3600 s), scaled
  MaxTime,          \* bound on the clock
  MaxIn,            \* bound on the user's messages to the buddy
  MaxOut,           \* bound on the buddy's IM messages
  Names,            \* file names the user's client offers
  Chats,            \* other texts the user sends
  TransfersEnabled, \* conf file_transfers/enabled
  UploadWritable,   \* outcomes of check_write_file on the upload directory
  StatusChannels    \* whether the account has a status channel

VARIABLES
  public_msgs,      \* Buddy::public_msgs
  public_msgs_last, \* Buddy::public_msgs_last
  now,              \* time(NULL)
  conv,             \* getConversation().isValid()
  imQueue,          \* texts handed to enqueueMessage, in order
  gets,             \* createDCCGet calls: the file name and the message
  statusChan,       \* getAccount().getStatusChannel() != NULL
  shown,            \* where each IM message of the buddy was shown
  addressed,        \* history: the texts the user addressed to the buddy
  lastAddr          \* history: how and when the user last addressed it

vars == <<public_msgs, public_msgs_last, now, conv, imQueue, gets, statusChan,
          shown, addressed, lastAddr>>

Offers == {OfferLine(n, "1", "2", "3") : n \in Names}
Bodies == Chats \cup Offers
Prefix == <<Nick, COLON, SP>>

Init ==
  /\ public_msgs = FALSE /\ public_msgs_last = 0 /\ now = 0
  /\ conv = FALSE /\ imQueue = <<>> /\ gets = <<>>
  /\ statusChan \in StatusChannels
  /\ shown = <<>> /\ addressed = <<>>
  /\ lastAddr = [kind |-> "none", at |-> 0]

\* The condition of Buddy::send: sent to the buddy itself, or in the status
\* channel and starting with "nick: ".
IsAddressed(rcv, text) ==
  \/ rcv = "self"
  \/ rcv = "status" /\ statusChan /\ IsPrefix(Prefix, text)

StrippedNever(rcv, text) == text
\* In the status channel the first word ("nick:") and one space are cut.
Stripped(rcv, text) == IF rcv = "status" THEN stringtok(text).rest ELSE text

\* Buddy::process_dcc_get: TRUE when the text is not to be sent to the IM.
process_dcc_get(text, writable) ==
  LET p == parseDCCSEND(text)
  IN  IF ~TransfersEnabled THEN [done |-> TRUE, get |-> FALSE, file |-> <<>>]
      ELSE IF ~p.ok THEN [done |-> FALSE, get |-> FALSE, file |-> <<>>]
      ELSE [done |-> TRUE, get |-> writable, file |-> p.filename]

\* Buddy::check_conv: a conversation with the buddy is opened when there is
\* none (Buddy::setConversation also clears the back-pointer of the old one).
check_conv == conv' = TRUE

\* Buddy::send for a PRIVMSG, with check_conv and enqueueMessage.
Send(rcv, text, writable) ==
  LET body == Stripped(rcv, text)
      d    == process_dcc_get(body, writable)
  IN  /\ IsAddressed(rcv, text)
      /\ Len(addressed) < MaxIn
      /\ public_msgs' = (rcv = "status")
      /\ public_msgs_last' = now
      /\ IF d.done
         THEN /\ gets' = IF d.get
                         THEN Append(gets, [msg |-> Len(addressed) + 1,
                                            file |-> d.file])
                         ELSE gets
              /\ UNCHANGED <<conv, imQueue>>
         ELSE /\ check_conv
              /\ imQueue' = Append(imQueue, body)
              /\ UNCHANGED gets
      /\ addressed' = Append(addressed, IF rcv = "status"
                                        THEN SubSeq(text, 4, Len(text))
                                        ELSE text)
      /\ lastAddr' = [kind |-> IF rcv = "status" THEN "public" ELSE "private",
                      at |-> now]
      /\ UNCHANGED <<now, statusChan, shown>>

\* The inputs: a body, sent to the buddy, or in the status channel with or
\* without the "nick: " prefix, or in another channel.
UserSend ==
  \E rcv \in {"self", "status", "other"}, b \in Bodies, pre \in BOOLEAN,
     w \in UploadWritable :
    Send(rcv, IF pre THEN Prefix \o b ELSE b, w)

ExpiredEarly(last, t) == last + Window <= t
\* public_msgs_last + PUBLIC_MSGS_TIMEOUT < time(NULL)
Expired(last, t) == last + Window < t

\* Buddy::sendMessage: close the window if it has expired, then answer in
\* the status channel if the window is open and the channel exists.
ImMessage ==
  LET pub == public_msgs /\ ~Expired(public_msgs_last, now)
  IN  /\ Len(shown) < MaxOut
      /\ public_msgs' = pub
      /\ shown' = Append(shown, IF pub /\ statusChan THEN "status"
                                ELSE "private")
      /\ UNCHANGED <<public_msgs_last, now, conv, imQueue, gets, statusChan,
                     addressed, lastAddr>>

\* The clock advances; it stays at the bound MaxTime, the horizon of the
\* model, so that time can always pass.
Tick ==
  /\ now' = IF now < MaxTime THEN now + 1 ELSE now
  /\ UNCHANGED <<public_msgs, public_msgs_last, conv, imQueue, gets,
                 statusChan, shown, addressed, lastAddr>>

Next == UserSend \/ ImMessage \/ Tick

Spec == Init /\ [][Next]_vars

-----------------------------------------------------------------------------
(* Spec section 4.4 and 4.5: every text the user addressed to the buddy    *)
(* reaches the IM, in order, unless it is a DCC SEND offer, and no offer   *)
(* does.  This is about Buddy::send's prefix stripping and                 *)
(* process_dcc_get's classification through parseDCCSEND.                 *)
ChatReachesIM == imQueue = SelectSeq(addressed, LAMBDA b : b \notin Offers)

(* Each DCCGet that process_dcc_get creates is for exactly the file name   *)
(* the user's client quoted in the offer that caused it: the tokenising of *)
(* parseDCCSEND and the quote merging of rebuildWithQuotes give it back.   *)
OfferTargetsNamedFile ==
  \A k \in DOMAIN gets :
    addressed[gets[k].msg] = OfferLine(gets[k].file, "1", "2", "3")

(* Spec section 4.4: the buddy's IM message is shown in the status channel *)
(* exactly when the user last addressed it there, at most the window ago,  *)
(* and the channel exists; otherwise it is shown privately.  This is about *)
(* Buddy::sendMessage's expiry test and the state Buddy::send leaves.      *)
SpecRoute ==
  IF lastAddr.kind = "public" /\ now - lastAddr.at <= Window /\ statusChan
  THEN "status" ELSE "private"

RepliesFollowUser ==
  [][Len(shown') > Len(shown) => Last(shown') = SpecRoute]_vars
=============================================================================
