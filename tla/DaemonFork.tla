----------------------------- MODULE DaemonFork -----------------------------
(***************************************************************************)
(* The shared-daemon mode of minbif (src/src/server_poll/daemon_fork.cpp): *)
(* a master process accepts IRC connections and forks one child process   *)
(* per connection; each child holds one end of a socketpair whose other   *)
(* end the master keeps in its `childs` vector.  Over these IPC sockets   *)
(* the children report USER (who logged in), WALLOPS, OPER and DIE, and    *)
(* the master relays them: it evicts earlier sessions of the same user    *)
(* with a DIE, broadcasts WALLOPS and OPER, and on DIE tells every child  *)
(* to quit and quits itself.                                               *)
(*                                                                         *)
(* Each process runs one event loop, so each callback is one action.  The *)
(* IPC sockets are FIFO queues of lines with a bounded buffer: a write    *)
(* into a full nonblocking socket fails and the line is dropped.  A line  *)
(* is abstracted to its command, its first argument and whether it is too *)
(* long for the 511-byte peek of ipc_read.                                *)
(***************************************************************************)
EXTENDS Naturals, Sequences, FiniteSets

CONSTANTS
    Clients,       \* IRC connections that reach the listening socket
    Users,         \* usernames (already case-folded, as strcasecmp compares)
    NoUser,        \* child_t::username before USER, and a child not logged in
    MaxCon,        \* the maxcon setting (0: no limit)
    SocketpairOk,  \* outcomes of socketpair(): subset of BOOLEAN
    ForkOk,        \* outcomes of fork(): subset of BOOLEAN
    LongLines,     \* TRUE when a child may send a WALLOPS longer than the peek
    QCap,          \* lines an IPC socket buffer holds before write() fails
    MaxSend        \* lines of WALLOPS, OPER or DIE one session sends at most

ASSUME /\ MaxCon \in Nat /\ QCap \in Nat \ {0} /\ MaxSend \in Nat
       /\ SocketpairOk \subseteq BOOLEAN /\ ForkOk \subseteq BOOLEAN
       /\ NoUser \notin Users

\* The states of a connection: not yet accepted, turned away, a live child,
\* or a child that exited (evicted, told to shut down, or left on its own).
Exited == {"evicted", "shutdown", "quit"}
Procs  == {"none", "refused", "running"} \cup Exited

Line(cmd, arg, long) == [cmd |-> cmd, arg |-> arg, long |-> long]
LineT == [cmd : {"USER", "WALLOPS", "OPER", "DIE"},
          arg : Users \cup {"evict", "oper"}, long : BOOLEAN]

VARIABLES
    master,    \* "up" or "quit"
    childs,    \* the master's childs vector, as the set of connections it tracks
    username,  \* username[c]: child_t::username, what the master knows
    proc,      \* proc[c]: the process serving connection c
    ipc,       \* ipc[c]: the child's end of its IPC socket is open (sock >= 0)
    login,     \* login[c]: the user the session of c logged in as
    stamp,     \* stamp[c]: order of logins (0: not logged in)
    up,        \* up[c]: lines child c wrote and the master has not read
    down,      \* down[c]: lines the master wrote to c and c has not read
    nsent      \* nsent[c]: WALLOPS, OPER and DIE lines c has sent

vars == <<master, childs, username, proc, ipc, login, stamp, up, down, nsent>>

(* The state the constructor leaves when it returns: maxcon read, the     *)
(* process in the background, the socket bound, listening and watched by *)
(* new_client_cb, no child tracked.  A constructor that cannot listen     *)
(* throws and there is no master to model.                               *)
Init ==
    /\ master = "up"
    /\ childs = {}
    /\ username = [c \in Clients |-> NoUser]
    /\ proc = [c \in Clients |-> "none"]
    /\ ipc = [c \in Clients |-> FALSE]
    /\ login = [c \in Clients |-> NoUser]
    /\ stamp = [c \in Clients |-> 0]
    /\ up = [c \in Clients |-> <<>>]
    /\ down = [c \in Clients |-> <<>>]
    /\ nsent = [c \in Clients |-> 0]

(* Mutant: the socket buffer never fills.                                *)
WriteUnbounded(q, l) == Append(q, l)

\* write() on a nonblocking socket: the line is queued unless the buffer is full.
Write(q, l) == IF Len(q) < QCap THEN Append(q, l) ELSE q

(* Mutant: the maxcon test lets one connection too many through.        *)
FullLoose(n) == MaxCon > 0 /\ n > MaxCon

\* maxcon > 0 && childs.size() >= maxcon
Full(n) == MaxCon > 0 /\ n >= MaxCon

-----------------------------------------------------------------------------
(* The master.                                                            *)

(* new_client_cb: accept; refuse when maxcon children are tracked; create *)
(* the socketpair (on failure the child runs without IPC and is not       *)
(* tracked); fork (on failure the connection is closed).  The parent adds *)
(* the child to childs; the child drops the master's state and starts its *)
(* IRC session.                                                           *)
new_client_cb(c, sp, fk) ==
    /\ master = "up"
    /\ proc[c] = "none"
    /\ IF Full(Cardinality(childs)) \/ ~fk
       THEN /\ proc' = [proc EXCEPT ![c] = "refused"]
            /\ UNCHANGED <<childs, ipc>>
       ELSE /\ proc' = [proc EXCEPT ![c] = "running"]
            /\ ipc' = [ipc EXCEPT ![c] = sp]
            /\ childs' = IF sp THEN childs \cup {c} ELSE childs
    /\ UNCHANGED <<master, username, login, stamp, up, down, nsent>>

(* Mutant: the broadcast skips children that have not reported USER.    *)
BroadcastLoggedIn(dn, l, butone) ==
    [d \in Clients |-> IF d \in childs \ {butone} /\ username[d] # NoUser
                       THEN Write(dn[d], l) ELSE dn[d]]

(* ipc_master_broadcast(m, butone): write m to every tracked child but    *)
(* butone.                                                                *)
Broadcast(dn, l, butone) ==
    [d \in Clients |-> IF d \in childs \ {butone} THEN Write(dn[d], l) ELSE dn[d]]

(* Mutant: m_user records the username and evicts nobody.               *)
m_userNoEvict(dn, c, u) == dn

(* m_user: record the username, then send DIE to every other tracked      *)
(* child whose username is the same.                                      *)
m_user(dn, c, u) ==
    [d \in Clients |-> IF d \in childs /\ d # c /\ username[d] = u
                       THEN Write(dn[d], Line("DIE", "evict", FALSE)) ELSE dn[d]]

(* Mutant: a child is taken to have left as soon as it exits, before the *)
(* lines it wrote are read.                                               *)
ChildLeftEager(c) == proc[c] \in Exited

(* recv(MSG_PEEK) returns 0 only once the exited child's lines are read.  *)
ChildLeft(c) == up[c] = <<>> /\ proc[c] \in Exited

(* ipc_read(child) in the master.  EOF from a child that exited: erase it *)
(* from childs and close.  A line with no CRLF in the first 511 bytes is  *)
(* left in the socket (nothing happens until more arrives).  Otherwise    *)
(* the line is consumed and dispatched: USER to m_user, WALLOPS to every  *)
(* child, OPER to every child but the sender, DIE to every child and then *)
(* the master quits (irc is NULL in the master).                         *)
MasterRead(c) ==
    /\ master = "up"
    /\ c \in childs
    /\ \/ /\ ChildLeft(c)
          /\ childs' = childs \ {c}
          /\ UNCHANGED <<master, username, down>>
       \/ /\ up[c] # <<>>
          /\ ~Head(up[c]).long
          /\ LET l == Head(up[c]) IN
             CASE l.cmd = "USER" ->
                    /\ username' = [username EXCEPT ![c] = l.arg]
                    /\ down' = m_user(down, c, l.arg)
                    /\ UNCHANGED master
               [] l.cmd = "WALLOPS" ->
                    /\ down' = Broadcast(down, l, NoUser)
                    /\ UNCHANGED <<master, username>>
               [] l.cmd = "OPER" ->
                    /\ down' = Broadcast(down, l, c)
                    /\ UNCHANGED <<master, username>>
               [] l.cmd = "DIE" ->
                    /\ down' = Broadcast(down, l, NoUser)
                    /\ master' = "quit"
                    /\ UNCHANGED username
          /\ UNCHANGED childs
    /\ up' = IF up[c] = <<>> THEN up ELSE [up EXCEPT ![c] = Tail(@)]
    /\ UNCHANGED <<proc, ipc, login, stamp, nsent>>

-----------------------------------------------------------------------------
(* A child: its IRC session and its ipc_read(NULL).                       *)

(* The session logs in and reports USER to the master; without an IPC    *)
(* socket ipc_child_send does nothing.                                    *)
ChildLogin(c, u) ==
    /\ proc[c] = "running" /\ login[c] = NoUser
    /\ login' = [login EXCEPT ![c] = u]
    /\ stamp' = [stamp EXCEPT ![c] = 1 + Cardinality({d \in Clients : stamp[d] > 0})]
    /\ up' = IF ipc[c] THEN [up EXCEPT ![c] = Write(@, Line("USER", u, FALSE))] ELSE up
    /\ UNCHANGED <<master, childs, username, proc, ipc, down, nsent>>

(* An operator of the session sends WALLOPS, OPER or DIE to the master.   *)
ChildSend(c, l) ==
    /\ proc[c] = "running" /\ login[c] # NoUser /\ ipc[c]
    /\ nsent[c] < MaxSend
    /\ up' = [up EXCEPT ![c] = Write(@, l)]
    /\ nsent' = [nsent EXCEPT ![c] = @ + 1]
    /\ UNCHANGED <<master, childs, username, proc, ipc, login, stamp, down>>

(* ipc_read(NULL) in a child: DIE makes the session quit (the process     *)
(* exits); WALLOPS goes to the user and OPER is only logged.  When the    *)
(* master has exited and everything is read, the child closes its end.   *)
ChildRead(c) ==
    /\ proc[c] = "running" /\ ipc[c]
    /\ \/ /\ down[c] # <<>>
          /\ down' = [down EXCEPT ![c] = Tail(@)]
          /\ proc' = IF Head(down[c]).cmd = "DIE"
                     THEN [proc EXCEPT ![c] = IF Head(down[c]).arg = "evict"
                                              THEN "evicted" ELSE "shutdown"]
                     ELSE proc
          /\ UNCHANGED ipc
       \/ /\ down[c] = <<>> /\ master = "quit"
          /\ ipc' = [ipc EXCEPT ![c] = FALSE]
          /\ UNCHANGED <<proc, down>>
    /\ UNCHANGED <<master, childs, username, login, stamp, up, nsent>>

\* The user of a session disconnects; the child process exits.
ChildQuit(c) ==
    /\ proc[c] = "running"
    /\ proc' = [proc EXCEPT ![c] = "quit"]
    /\ UNCHANGED <<master, childs, username, ipc, login, stamp, up, down, nsent>>

\* The lines the operator of session c may send; they name its nickname.
Sends(c) == {Line("WALLOPS", login[c], lg) : lg \in {FALSE, LongLines}}
            \cup {Line("OPER", login[c], FALSE), Line("DIE", "oper", FALSE)}

Next ==
    \/ \E c \in Clients, sp \in SocketpairOk, fk \in ForkOk : new_client_cb(c, sp, fk)
    \/ \E c \in Clients : MasterRead(c)
    \/ \E c \in Clients, u \in Users : ChildLogin(c, u)
    \/ \E c \in Clients : \E l \in Sends(c) : ChildSend(c, l)
    \/ \E c \in Clients : ChildRead(c)
    \/ \E c \in Clients : ChildQuit(c)

Spec == Init /\ [][Next]_vars

(* Each process's event loop calls ipc_read while its socket is readable. *)
(* Connections, logins, operator commands and quits are the users' and   *)
(* get no fairness.                                                       *)
Fairness ==
    /\ \A c \in Clients : WF_vars(MasterRead(c))
    /\ \A c \in Clients : WF_vars(ChildRead(c))

FairSpec == Spec /\ Fairness

-----------------------------------------------------------------------------
(* Properties                                                              *)

Running == {c \in Clients : proc[c] = "running"}
SessionsOf(u) == {c \in Running : login[c] = u}

TypeOK ==
    /\ master \in {"up", "quit"}
    /\ childs \subseteq Clients
    /\ username \in [Clients -> Users \cup {NoUser}]
    /\ proc \in [Clients -> Procs]
    /\ ipc \in [Clients -> BOOLEAN]
    /\ login \in [Clients -> Users \cup {NoUser}]
    /\ stamp \in [Clients -> 0..Cardinality(Clients)]
    /\ up \in [Clients -> Seq(LineT)] /\ down \in [Clients -> Seq(LineT)]
    /\ \A c \in Clients : Len(up[c]) <= QCap /\ Len(down[c]) <= QCap
    /\ nsent \in [Clients -> 0..MaxSend]

(* maxcon bounds the sessions: never more child processes serve           *)
(* connections than the maxcon setting allows.                            *)
MaxConRespected == MaxCon > 0 => Cardinality(Running) <= MaxCon

(* Duplicate-login eviction (spec 5): a user with two live sessions ends  *)
(* up with at most one, through USER, m_user's DIE and the child's        *)
(* ipc_read, however the two sessions' lines interleave.                  *)
EvictionCompletes ==
    \A u \in Users : (Cardinality(SessionsOf(u)) > 1) ~> (Cardinality(SessionsOf(u)) <= 1)

(* Shutdown (spec 5): once the master has relayed a DIE and quit, every   *)
(* session eventually exits.                                              *)
ShutdownCompletes == (master = "quit") ~> (Running = {})

(* The master keeps up with its children: every line a child writes to   *)
(* the IPC socket is eventually consumed by ipc_read, unless the master   *)
(* has quit.                                                              *)
UpstreamDrains ==
    \A c \in Clients : (up[c] # <<>>) ~> (up[c] = <<>> \/ master = "quit")

(* The spec's eviction rule: the session evicted is the prior one, so a   *)
(* session killed by eviction logged in before another session of the     *)
(* same user.                                                             *)
EvictsPrior ==
    \A c \in Clients : proc[c] = "evicted" =>
        \E d \in Clients : login[d] = login[c] /\ stamp[d] > stamp[c]


=============================================================================
