------------------------------ MODULE IrcCodec ------------------------------
(***************************************************************************)
(* The IRC line codec of minbif as pure operators over strings.            *)
(*                                                                         *)
(* A string is a sequence of symbols.  The symbols that the code tests     *)
(* for are named below (space, colon, double quote, CTCP's \001, CR, LF);  *)
(* every other symbol is an atom standing for a run of ordinary            *)
(* characters, a letter or a whole word such as "DCC", which no code path  *)
(* looks inside.                                                           *)
(*                                                                         *)
(*   stringtok          util.cpp         stringtok(in, " ")                *)
(*   parse              message.cpp      Message::parse                    *)
(*   format             message.cpp      Message::format                   *)
(*   addArg             message.cpp      Message::addArg                   *)
(*   rebuildWithQuotes  message.cpp      Message::rebuildWithQuotes        *)
(*   parseDCCSEND       dcc.cpp          DCCGet::parseDCCSEND              *)
(*   OfferLine          dcc.cpp          DCCServer::listen_cb's CTCP line  *)
(***************************************************************************)
EXTENDS Naturals, Sequences, SequencesExt

SP    == " "
COLON == ":"
QUOTE == "\""
SOH   == "\\001"
CR    == "\\r"
LF    == "\\n"

HasSpace(s) == \E k \in DOMAIN s : s[k] = SP

\* (*s)[s->size()-1] == c.  On an empty string the index is npos, an
\* out-of-bounds read; with libstdc++ the byte before an empty short
\* string's buffer is the top byte of its length field, which is zero, so
\* the test is false.
LastIs(s, c) == s # <<>> /\ s[Len(s)] = c

\* s[0] == c is well defined on an empty string, where it reads '\0'.
FirstIs(s, c) == s # <<>> /\ s[1] = c

(***************************************************************************)
(* util.cpp stringtok(in, " "): skip leading spaces, cut the token at the  *)
(* next space, and leave in what follows that one space.                   *)
(***************************************************************************)
stringtok(in) ==
  LET NotSp == {k \in DOMAIN in : in[k] # SP}
      i     == IF NotSp = {} THEN Len(in) + 1 ELSE Min(NotSp)
      Sps   == {k \in i..Len(in) : in[k] = SP}
  IN  IF Sps = {}
      THEN [tok |-> SubSeq(in, i, Len(in)), rest |-> <<>>]
      ELSE [tok |-> SubSeq(in, i, Min(Sps) - 1),
            rest |-> SubSeq(in, Min(Sps) + 1, Len(in))]

\* while((word = stringtok(line, " ")).empty() == false) args.addArg(word);
RECURSIVE Words(_)
Words(line) ==
  LET t == stringtok(line)
  IN  IF t.tok = <<>> THEN <<>> ELSE <<t.tok>> \o Words(t.rest)

\* util.cpp strupper: toupper on each character.
LowerToUpper == [c \in {"a", "b", "n", "wallops"} |->
                   CASE c = "a" -> "A" [] c = "b" -> "B" [] c = "n" -> "N"
                     [] c = "wallops" -> "WALLOPS"]
strupper(s) ==
  [k \in DOMAIN s |-> IF s[k] \in DOMAIN LowerToUpper THEN LowerToUpper[s[k]]
                      ELSE s[k]]

NoName == <<>>
Msg(cmd, args) == [sender |-> NoName, cmd |-> cmd, receiver |-> NoName,
                   args |-> args]

(***************************************************************************)
(* Message::parse.  The first token, upper-cased, is the command; a later  *)
(* token starting with ':' opens the trailing argument, which takes the    *)
(* rest of the line after the one space stringtok consumed, and that       *)
(* space only when something follows it.                                   *)
(***************************************************************************)
RECURSIVE ParseArgs(_, _)
ParseArgs(line, args) ==
  LET t == stringtok(line)
  IN  IF t.tok = <<>> THEN args
      ELSE IF FirstIs(t.tok, COLON)
      THEN Append(args, Tail(t.tok) \o (IF t.rest = <<>> THEN <<>>
                                         ELSE <<SP>> \o t.rest))
      ELSE ParseArgs(t.rest, Append(args, t.tok))

parse(line) ==
  LET t == stringtok(line)
  IN  IF t.tok = <<>> THEN Msg(<<>>, <<>>)
      ELSE Msg(strupper(t.tok), ParseArgs(t.rest, <<>>))

(***************************************************************************)
(* Message::format: the optional ":sender " prefix, the command, the       *)
(* optional receiver, each argument after a space with ':' before one that *)
(* has a space or starts with ':', and CRLF.                               *)
(***************************************************************************)
FormatArg(a) ==
  <<SP>> \o (IF HasSpace(a) \/ FirstIs(a, COLON) THEN <<COLON>> ELSE <<>>) \o a

format(m) ==
  (IF m.sender # NoName THEN <<COLON>> \o m.sender \o <<SP>> ELSE <<>>)
  \o m.cmd
  \o (IF m.receiver # NoName THEN <<SP>> \o m.receiver ELSE <<>>)
  \o FlattenSeq([k \in DOMAIN m.args |-> FormatArg(m.args[k])])
  \o <<CR, LF>>

\* Message::addArg throws MalformedMessage after an argument with a space.
CanAddArg(m) == m.args = <<>> \/ ~HasSpace(Last(m.args))
addArg(m, s) == [m EXCEPT !.args = Append(@, s)]

(***************************************************************************)
(* Message::rebuildWithQuotes.  A token that starts with '"' and has no    *)
(* space loses the quote and absorbs the tokens after it, each after one   *)
(* space, until the text ends with '"' or the tokens run out; a final '"'  *)
(* is then cut.  Absorbed tokens are erased; running out ends the pass.    *)
(***************************************************************************)
RECURSIVE Absorb(_, _)
Absorb(s, rest) ==
  IF LastIs(s, QUOTE) \/ rest = <<>> THEN [text |-> s, rest |-> rest]
  ELSE Absorb(s \o <<SP>> \o Head(rest), Tail(rest))

UncloseKeep(s) == s
\* if((*s)[s->size()-1] == '"') *s = s->substr(0, s->size()-1);
Unclose(s) == IF LastIs(s, QUOTE) THEN SubSeq(s, 1, Len(s) - 1) ELSE s

RECURSIVE rebuildWithQuotes(_)
rebuildWithQuotes(args) ==
  IF args = <<>> THEN <<>>
  ELSE LET s == Head(args)
       IN  IF FirstIs(s, QUOTE) /\ ~HasSpace(s)
           THEN LET a == Absorb(Tail(s), Tail(args))
                IN  <<Unclose(a.text)>> \o rebuildWithQuotes(a.rest)
           ELSE <<s>> \o rebuildWithQuotes(Tail(args))

(***************************************************************************)
(* DCCGet::parseDCCSEND: \001-framed, split on spaces, quotes rebuilt,     *)
(* exactly six arguments of which the first two are DCC and SEND.  The     *)
(* numbers are atoms: their conversion by s2t is not modelled.             *)
(***************************************************************************)
parseDCCSEND(line) ==
  LET args == rebuildWithQuotes(Words(SubSeq(line, 2, Len(line) - 1)))
  IN  IF /\ FirstIs(line, SOH) /\ LastIs(line, SOH)
         /\ Len(args) = 6 /\ args[1] = <<"DCC">> /\ args[2] = <<"SEND">>
      THEN [ok |-> TRUE, filename |-> args[3]]
      ELSE [ok |-> FALSE, filename |-> <<>>]

(***************************************************************************)
(* The CTCP line DCCServer::listen_cb sends: the quotes of the name are    *)
(* replaced by apostrophes in a copy that is never used, so the line       *)
(* carries dcc->filename as it is.  The size is left out when it is 0.     *)
(***************************************************************************)
OfferLine(name, addr, port, size) ==
  <<SOH, "DCC", SP, "SEND", SP, QUOTE>> \o name \o <<QUOTE, SP, addr, SP, port>>
  \o (IF size = "0" THEN <<>> ELSE <<SP, size>>) \o <<SOH>>
=============================================================================
