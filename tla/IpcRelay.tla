------------------------------ MODULE IpcRelay ------------------------------
(***************************************************************************)
(* A WALLOPS line relayed over the IPC sockets of daemon_fork.cpp, at the  *)
(* level of the bytes: the origin child formats the message and writes it  *)
(* (ipc_child_send), the master frames it at CRLF, parses it and           *)
(* broadcasts the parsed message formatted again (ipc_read, m_wallops,     *)
(* ipc_master_send), and a receiving child frames and parses it and shows  *)
(* its text to its user (ipc_read, m_wallops).  The sockets are FIFO byte  *)
(* streams; their limits are DaemonFork's.                                 *)
(***************************************************************************)
EXTENDS IrcCodec

CONSTANTS
  Texts,    \* texts the origin's operator sends with WALLOPS
  MaxSend   \* bound on the WALLOPS the origin sends

VARIABLES
  up,       \* bytes written by the origin child, not yet read by the master
  down,     \* bytes written by the master, not yet read by the receiver
  sent,     \* history: the texts the origin sent
  shown     \* the texts the receiver's user was shown, in order

vars == <<up, down, sent, shown>>

Nick == <<"n">>
WALLOPS == <<"WALLOPS">>

\* ipc_cmds: the relayed command and its min_args.
MinArgs == 2

Init == up = <<>> /\ down = <<>> /\ sent = <<>> /\ shown = <<>>

\* The operator's WALLOPS: the child builds WALLOPS nick text (irc.cpp's
\* m_wallops is not in this tree) and ipc_child_send writes it formatted.
OperWallops ==
  \E t \in Texts :
    /\ Len(sent) < MaxSend
    /\ up' = up \o format(addArg(addArg(Msg(WALLOPS, <<>>), Nick), t))
    /\ sent' = Append(sent, t)
    /\ UNCHANGED <<down, shown>>

\* ipc_read's framing: the bytes before the first CRLF, and what follows it.
HasLine(buf) == \E k \in 1..(Len(buf) - 1) : buf[k] = CR /\ buf[k + 1] = LF
Eol(buf) == Min({k \in 1..(Len(buf) - 1) : buf[k] = CR /\ buf[k + 1] = LF})
Line(buf) == SubSeq(buf, 1, Eol(buf) - 1)
After(buf) == SubSeq(buf, Eol(buf) + 2, Len(buf))

\* A parsed message m_wallops is called for: a known command with enough
\* arguments; anything else is dropped with a warning.
Dispatched(m) == m.cmd = WALLOPS /\ Len(m.args) >= MinArgs

\* The master's ipc_read on the origin's socket; m_wallops with a child
\* broadcasts the parsed message, which ipc_master_send formats again.
MasterRead ==
  LET m == parse(Line(up))
  IN  /\ HasLine(up)
      /\ up' = After(up)
      /\ down' = IF Dispatched(m) THEN down \o format(m) ELSE down
      /\ UNCHANGED <<sent, shown>>

\* The receiving child's ipc_read; m_wallops without a child sends the user
\* WALLOPS from arg 0 with arg 1 as its text.
ChildRead ==
  LET m == parse(Line(down))
  IN  /\ HasLine(down)
      /\ down' = After(down)
      /\ shown' = IF Dispatched(m) THEN Append(shown, m.args[2]) ELSE shown
      /\ UNCHANGED <<up, sent>>

Next == OperWallops \/ MasterRead \/ ChildRead

Spec == Init /\ [][Next]_vars

-----------------------------------------------------------------------------
(* Spec section 4.1 and its round-trip requirement: parse(format(m)) gives *)
(* back m's arguments when only the last has a space.  Relayed over IPC,   *)
(* this means the receiving user is shown exactly the texts the operator   *)
(* sent, in order.  It is about Message::format, Message::parse and the    *)
(* CRLF framing of ipc_read.                                               *)
WallopsIntact == IsPrefix(shown, sent)
=============================================================================
