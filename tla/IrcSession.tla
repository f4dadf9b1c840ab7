----------------------------- MODULE IrcSession -----------------------------
(***************************************************************************)
(* The front end of one IRC session (src/src/irc/irc.cpp): the client's   *)
(* byte stream, IRC::readIO, which parses whatever one read() returns as  *)
(* one Message, and the dispatch to IRC::m_nick, the one command of this  *)
(* tree's command table.  Strings are those of IrcCodec.                  *)
(***************************************************************************)
EXTENDS IrcCodec

CONSTANTS
  Nicks,     \* nicknames the client asks for, each a string of one atom
  MaxLines,  \* bound on the NICK lines the client sends
  ReadMax    \* sizeof(line) - 1: the most one read() returns, in symbols

VARIABLES
  wire,      \* bytes the client wrote that the session has not read
  nickname,  \* userNick's nickname
  out,       \* commands of the lines sendmsg wrote to the client, in order
  asked,     \* history: the nicknames the client asked for, in order
  line,      \* readIO's static char line[1024], up to its terminator
  peer       \* the client's end: "open", "fin" (closed) or "rst" (reset)

vars == <<wire, nickname, out, asked, line, peer>>

NICK == <<"NICK">>
NOTICE == "NOTICE"
ERR_NONICKNAMEGIVEN == "431"

\* IRC::IRC: userNick is created as "AUTH" and the NOTICE greeting is sent.
\* A server hostname with a space throws and there is no session.
Init ==
  /\ wire = <<>>
  /\ nickname = <<"AUTH">>
  /\ out = <<NOTICE>>
  /\ asked = <<>>
  /\ line = <<>>
  /\ peer = "open"

\* The client writes one CRLF-terminated NICK line.
ClientNick ==
  \E n \in Nicks :
    /\ peer = "open" /\ Len(asked) < MaxLines
    /\ wire' = wire \o <<"NICK", SP>> \o n \o <<CR, LF>>
    /\ asked' = Append(asked, n)
    /\ UNCHANGED <<nickname, out, line, peer>>

\* The client closes the connection, after its data, or resets it.
ClientClose ==
  /\ peer = "open" /\ wire = <<>>
  /\ peer' \in {"fin", "rst"}
  /\ UNCHANGED <<wire, nickname, out, asked, line>>

(* IRC::m_nick: without an argument, ERR_NONICKNAMEGIVEN; otherwise the   *)
(* nickname becomes argument 0.  The NICK echo is for a REGISTERED user,  *)
(* a flag no code of this tree sets, so it is never sent.                 *)
m_nick(m) ==
  IF m.args = <<>>
  THEN /\ out' = Append(out, ERR_NONICKNAMEGIVEN)
       /\ UNCHANGED nickname
  ELSE /\ nickname' = m.args[1]
       /\ UNCHANGED out

(* IRC::readIO, called when fd 0 is readable or hung up.  read() returns  *)
(* st: the first k bytes available, 1 <= k <= ReadMax, however they fall *)
(* across the client's lines; 0 once the client has closed; -1 once on a  *)
(* reset, and 0 after it.  line[st] = 0 is written untested: at st = -1   *)
(* the byte before the static buffer, outside this model, is cleared and  *)
(* line keeps the previous read.  line is parsed as one Message and        *)
(* dispatched by its command.  The watch is never removed                  *)
(* (purple_glib_io_invoke returns TRUE), so at EOF readIO runs again and  *)
(* again.                                                                  *)
Dispatch(l) ==
  LET m == parse(l)
  IN  IF m.cmd = NICK THEN m_nick(m) ELSE UNCHANGED <<nickname, out>>

readIO ==
  /\ \/ \E k \in 1..Min({ReadMax, Len(wire)}) :
          /\ line' = SubSeq(wire, 1, k)
          /\ wire' = SubSeq(wire, k + 1, Len(wire))
          /\ UNCHANGED peer
     \/ /\ wire = <<>> /\ peer = "fin"
        /\ line' = <<>>
        /\ UNCHANGED <<wire, peer>>
     \/ /\ wire = <<>> /\ peer = "rst"
        /\ peer' = "fin"
        /\ UNCHANGED <<wire, line>>
  /\ Dispatch(line')
  /\ UNCHANGED asked

Next == ClientNick \/ ClientClose \/ readIO

Spec == Init /\ [][Next]_vars

-----------------------------------------------------------------------------
(* Spec scenario 1 and section 6's CRLF-terminated lines: once the session *)
(* has read everything the client sent, the user's nickname is the last    *)
(* one the client asked for.  It is about IRC::readIO's framing and        *)
(* Message::parse.                                                         *)
NickAsAsked == (asked # <<>> /\ wire = <<>>) => nickname = Last(asked)
=============================================================================
