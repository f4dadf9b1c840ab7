------------------------------- MODULE DCCSend -------------------------------
(***************************************************************************)
(* A DCC SEND from the gateway to the IRC client (src/src/irc/dcc.cpp,     *)
(* DCCServer and DCCSend).  The gateway forwards a file that libpurple is  *)
(* still receiving into a local file: it listens, offers the file in a     *)
(* CTCP line, accepts the client's connection, sends 512-byte chunks read  *)
(* from the local file and counts the client's 4-byte big-endian acks,     *)
(* which TCP may split across reads.                                       *)
(*                                                                         *)
(* Every callback (listen_cb, connected, dcc_read, and updated() from the  *)
(* IM transfer) runs to completion on the event loop, so each is one       *)
(* action.  The client, the IM transfer and the clock are the environment. *)
(* Byte counts are scaled: Chunk stands for the 512 bytes of one fread.    *)
(***************************************************************************)
EXTENDS Naturals, Sequences, SequencesExt

CONSTANTS
    Size,           \* total_size of the file
    Chunk,          \* bytes one fread() asks for (sizeof buf)
    SockBuf,        \* bytes the socket's send buffer holds before send() is short
    StickyEof,      \* TRUE when fread() at EOF keeps returning 0 (glibc >= 2.28)
    AcceptResults,  \* what accept() may return: subset of {"conn", "fail"}
    IpResults,      \* whether dcc_own_ip parses (inet_aton): subset of BOOLEAN
    PeerAborts,     \* TRUE when the client may close before the end
    PeerConnects,   \* TRUE when the client answers the offer
    ImCancels,      \* TRUE when the IM transfer may end before the file is whole
    EarlyProgress,  \* TRUE when libpurple may report progress while the offer is open
    AckBits         \* width of the ack word: 32 (uint32_t from ntohl)

ASSUME /\ Size \in Nat \ {0} /\ Chunk \in Nat \ {0} /\ SockBuf \in Nat \ {0}
       /\ Size < 128      \* one ack byte holds the count, the others are 0
       /\ AcceptResults \subseteq {"conn", "fail"} /\ IpResults \subseteq BOOLEAN
       /\ AckBits \in 1..32

\* The descriptors a transfer may own, and the watchers it may register.
NoFd == "none"
Fds  == {"listen", "conn"}
Watchers == {"none", "connected", "read", "bad"}

VARIABLES
    srv,      \* the DCCSend object: the fields deinit() and dcc_send() touch
    open,     \* descriptors of the transfer the kernel holds open
    written,  \* bytes libpurple has written to local_filename
    ftValid,  \* the im::FileTransfert is still valid (not destroyed)
    expired,  \* start_time + TIMEOUT < time(NULL)
    peer,     \* the IRC client: "idle", "offered", "pending", "conn", "closed"
    wire,     \* data bytes sent and not yet read by the client
    got,      \* data bytes the client has read
    ackWire   \* ack bytes the client has written and the gateway not yet read

vars == <<srv, open, written, ftValid, expired, peer, wire, got, ackWire>>

SrvT == [listen : BOOLEAN, fd : Fds \cup {NoFd}, watcher : Watchers,
         finished : BOOLEAN, fp : BOOLEAN, eof : BOOLEAN, pos : 0..Size,
         rxq : Seq(0..255)]

Init ==
    \* DCCServer::DCCServer: purple_network_listen_range is pending.
    /\ srv = [listen |-> TRUE, fd |-> NoFd, watcher |-> "none", finished |-> FALSE,
              fp |-> FALSE, eof |-> FALSE, pos |-> 0, rxq |-> <<>>]
    /\ open = {}
    /\ written = 0
    /\ ftValid = TRUE
    /\ expired = FALSE
    /\ peer = "idle"
    /\ wire = 0
    /\ got = 0
    /\ ackWire = <<>>

-----------------------------------------------------------------------------
(* Pure steps.  Each returns the next srv together with the descriptors   *)
(* and the bytes on the wire it changes.                                  *)

(* Mutant: teardown forgets to close the descriptor.                    *)
deinitNoClose(s, op) ==
    [srv  |-> [s EXCEPT !.listen = FALSE, !.fd = NoFd, !.watcher = "none",
                        !.finished = TRUE, !.fp = FALSE, !.eof = FALSE, !.rxq = <<>>],
     open |-> op]

\* DCCSend::deinit and DCCServer::deinit: close a live fd, drop the watcher,
\* cancel the listen, fclose, free rxqueue, and mark the transfer finished.
deinit(s, op) ==
    [srv  |-> [s EXCEPT !.listen = FALSE, !.fd = NoFd, !.watcher = "none",
                        !.finished = TRUE, !.fp = FALSE, !.eof = FALSE, !.rxq = <<>>],
     open |-> IF s.fd # NoFd THEN op \ {s.fd} ELSE op]

Min2(x, y) == IF x < y THEN x ELSE y

(* Mutant: bytes_sent advances by sizeof buf instead of the bytes read.  *)
dcc_sendWholeChunk(s, w, wr) ==
    IF s.finished \/ s.listen \/ s.fd = NoFd \/ (~s.fp /\ wr = 0)
    THEN [srv |-> s, wire |-> w]
    ELSE LET len  == IF StickyEof /\ s.eof THEN 0 ELSE Min2(Chunk, wr - s.pos)
             sent == IF s.fd = "conn" /\ peer # "closed" THEN Min2(len, SockBuf - w) ELSE 0
         IN  [srv  |-> [s EXCEPT !.fp = TRUE, !.pos = @ + Chunk, !.eof = len < Chunk],
              wire |-> w + sent]

(* DCCSend::dcc_send: nothing before a connection; open the local file if *)
(* it exists yet; fread up to Chunk bytes and send() them.  send() on the *)
(* nonblocking socket takes what fits in the buffer; bytes_sent and the   *)
(* file position advance by the whole read.  After listen_cb, fd is the   *)
(* listening socket and listen_data is NULL, so the guard lets a read    *)
(* through; send() on a listening socket fails and the chunk is lost.    *)
dcc_send(s, w, wr) ==
    IF s.finished \/ s.listen \/ s.fd = NoFd \/ (~s.fp /\ wr = 0)
    THEN [srv |-> s, wire |-> w]
    ELSE LET len  == IF StickyEof /\ s.eof THEN 0 ELSE Min2(Chunk, wr - s.pos)
             sent == IF s.fd = "conn" /\ peer # "closed" THEN Min2(len, SockBuf - w) ELSE 0
         IN  [srv  |-> [s EXCEPT !.fp = TRUE, !.pos = @ + len, !.eof = len < Chunk],
              wire |-> w + sent]

(* DCCSend::updated: a destroyed transfer invalidates ft; then the        *)
(* timeout, which applies only while not connected, or a send.            *)
updated(s, op, w, wr) ==
    IF (s.fd = NoFd \/ s.listen) /\ expired
    THEN LET d == deinit(s, op) IN [srv |-> d.srv, open |-> d.open, wire |-> w]
    ELSE LET r == dcc_send(s, w, wr) IN [srv |-> r.srv, open |-> op, wire |-> r.wire]

\* The 4 bytes of a big-endian count the client keeps in an AckBits-wide
\* word: a count of 2^AckBits bytes or more wraps.  Counts here stay below
\* 128, so a word of 8 bits or more never wraps (and 2^32 is out of TLC's
\* integer range).
AckBytes(v) ==
    LET w == IF AckBits >= 8 THEN v ELSE v % (2 ^ AckBits)
    IN  <<(w \div 16777216) % 256, (w \div 65536) % 256, (w \div 256) % 256, w % 256>>
Word(b)     == ((b[1] * 256 + b[2]) * 256 + b[3]) * 256 + b[4]

(* Mutant: the new bytes replace rxqueue, dropping a partial ack.         *)
EnqueueOverwrite(q, bytes) == bytes

\* The bytes read are appended to rxqueue (g_realloc + memcpy at rxlen).
Enqueue(q, bytes) == q \o bytes

(* The ack loop of DCCSend::dcc_read: take 4-byte words off the front of  *)
(* rxqueue while there are 4 bytes; stop as soon as one covers the file.  *)
RECURSIVE TakeAcks(_)
TakeAcks(q) ==
    IF Len(q) < 4 THEN [rxq |-> q, done |-> FALSE]
    ELSE IF Word(SubSeq(q, 1, 4)) >= Size
         THEN [rxq |-> SubSeq(q, 5, Len(q)), done |-> TRUE]
         ELSE TakeAcks(SubSeq(q, 5, Len(q)))

-----------------------------------------------------------------------------
(* The gateway's callbacks.                                               *)

(* DCCServer::listen_cb: the listening socket is ready.  It is kept as fd *)
(* and the watcher waits for a connection; if dcc_own_ip does not parse   *)
(* the transfer is torn down, otherwise the CTCP offer goes to the client.*)
listen_cb(ipOk) ==
    /\ srv.listen
    /\ LET s == [srv EXCEPT !.fd = "listen", !.listen = FALSE]
           op == open \cup {"listen"}
       IN  IF ipOk
           THEN /\ srv'  = [s EXCEPT !.watcher = "connected"]
                /\ open' = op
                /\ peer' = "offered"
           ELSE LET d == deinit(s, op) IN
                /\ srv' = d.srv /\ open' = d.open
                /\ UNCHANGED peer
    /\ UNCHANGED <<written, ftValid, expired, wire, got, ackWire>>

(* DCCServer::connected: accept() on the listening socket.  The result is *)
(* tested with !conn, so a failed accept (-1) takes the same path as a    *)
(* success: the listening socket is closed, fd becomes the result and a   *)
(* read watcher is added on it; then updated(false).                      *)
connected(res) ==
    /\ srv.watcher = "connected"
    /\ peer = "pending"
    /\ LET fd2 == IF res = "conn" THEN "conn" ELSE NoFd
           s   == [srv EXCEPT !.fd = fd2,
                              !.watcher = IF res = "conn" THEN "read" ELSE "bad"]
           op  == (open \ {"listen"}) \cup (IF res = "conn" THEN {"conn"} ELSE {})
           u   == updated(s, op, wire, written)
       IN  /\ peer' = IF res = "conn" THEN "conn" ELSE "closed"
           /\ srv' = u.srv /\ open' = u.open /\ wire' = u.wire
    /\ UNCHANGED <<written, ftValid, expired, got, ackWire>>

(* Mutant: dcc_read does not send the next chunk after the acks.        *)
dcc_readNoSend ==
    /\ srv.watcher = "read"
    /\ \/ /\ ackWire = <<>>
          /\ peer = "closed"
          /\ LET d == deinit([srv EXCEPT !.fd = NoFd], open) IN
             srv' = d.srv /\ open' = d.open
          /\ UNCHANGED <<wire, ackWire>>
       \/ \E r \in 1..Len(ackWire) :
             LET a == TakeAcks(Enqueue(srv.rxq, SubSeq(ackWire, 1, r)))
                 s == [srv EXCEPT !.rxq = a.rxq]
             IN  /\ ackWire' = SubSeq(ackWire, r + 1, Len(ackWire))
                 /\ IF a.done
                    THEN LET d == deinit(s, open) IN
                         srv' = d.srv /\ open' = d.open /\ UNCHANGED wire
                    ELSE srv' = s /\ UNCHANGED <<open, wire>>
    /\ UNCHANGED <<written, ftValid, expired, peer, got>>

(* DCCSend::dcc_read on the connected socket.  EOF: the client closed; fd *)
(* is set to -1 before deinit, so the socket is not closed.  Data: append *)
(* to rxqueue, consume whole acks, finish when one covers total_size,     *)
(* otherwise send the next chunk.                                         *)
dcc_read ==
    /\ srv.watcher = "read"
    /\ \/ /\ ackWire = <<>>
          /\ peer = "closed"
          /\ LET d == deinit([srv EXCEPT !.fd = NoFd], open) IN
             srv' = d.srv /\ open' = d.open
          /\ UNCHANGED <<wire, ackWire>>
       \/ \E r \in 1..Len(ackWire) :
             LET a == TakeAcks(Enqueue(srv.rxq, SubSeq(ackWire, 1, r)))
                 s == [srv EXCEPT !.rxq = a.rxq]
             IN  /\ ackWire' = SubSeq(ackWire, r + 1, Len(ackWire))
                 /\ IF a.done
                    THEN LET d == deinit(s, open) IN
                         srv' = d.srv /\ open' = d.open /\ UNCHANGED wire
                    ELSE LET x == dcc_send(s, wire, written) IN
                         srv' = x.srv /\ wire' = x.wire /\ UNCHANGED open
    /\ UNCHANGED <<written, ftValid, expired, peer, got>>

-----------------------------------------------------------------------------
(* The IM transfer: libpurple writes more of the file and reports it       *)
(* through updated(false); when the transfer ends it calls updated(true).  *)
(* Unless EarlyProgress, it reports nothing while the offer is open.       *)
MayReport == EarlyProgress \/ peer \notin {"offered", "pending"}

ImProgress(n) ==
    /\ ftValid
    /\ MayReport
    /\ written' = written + n
    /\ LET u == updated(srv, open, wire, written + n) IN
       srv' = u.srv /\ open' = u.open /\ wire' = u.wire
    /\ UNCHANGED <<ftValid, expired, peer, got, ackWire>>

ImEnd ==
    /\ ftValid
    /\ MayReport
    /\ written = Size \/ ImCancels
    /\ ftValid' = FALSE
    /\ LET u == updated(srv, open, wire, written) IN
       srv' = u.srv /\ open' = u.open /\ wire' = u.wire
    /\ UNCHANGED <<written, expired, peer, got, ackWire>>

\* The clock passes start_time + TIMEOUT.
Tick ==
    /\ ~expired
    /\ expired' = TRUE
    /\ UNCHANGED <<srv, open, written, ftValid, peer, wire, got, ackWire>>

-----------------------------------------------------------------------------
(* The IRC client.                                                        *)

\* It connects to the offered port while the listening socket is open.
PeerConnect ==
    /\ PeerConnects
    /\ peer = "offered"
    /\ "listen" \in open
    /\ peer' = "pending"
    /\ UNCHANGED <<srv, open, written, ftValid, expired, wire, got, ackWire>>

\* It reads some of the data and acknowledges the total it has read.
PeerRecv(r) ==
    /\ peer = "conn"
    /\ wire' = wire - r
    /\ got' = got + r
    /\ ackWire' = ackWire \o AckBytes(got + r)
    /\ UNCHANGED <<srv, open, written, ftValid, expired, peer>>

\* It closes the connection: after the whole file, or earlier if it aborts.
PeerClose ==
    /\ peer = "conn"
    /\ got = Size \/ PeerAborts
    /\ peer' = "closed"
    /\ wire' = 0
    /\ UNCHANGED <<srv, open, written, ftValid, expired, got, ackWire>>

Next ==
    \/ \E ok \in IpResults : listen_cb(ok)
    \/ \E res \in AcceptResults : connected(res)
    \/ dcc_read
    \/ \E n \in 1..(Size - written) : ImProgress(n)
    \/ ImEnd
    \/ Tick
    \/ PeerConnect
    \/ \E r \in 1..wire : PeerRecv(r)
    \/ PeerClose

Spec == Init /\ [][Next]_vars

(* The event loop runs every callback whose descriptor is ready; the      *)
(* client keeps connecting, reading and closing at the end; libpurple     *)
(* keeps writing the file until it is whole.                              *)
Fairness ==
    /\ WF_vars(\E ok \in IpResults : listen_cb(ok))
    /\ WF_vars(\E res \in AcceptResults : connected(res))
    /\ WF_vars(dcc_read)
    /\ WF_vars(\E n \in 1..(Size - written) : ImProgress(n))
    /\ WF_vars(PeerConnect)
    /\ WF_vars(\E r \in 1..wire : PeerRecv(r))
    /\ WF_vars(PeerClose /\ got = Size)

FairSpec == Spec /\ Fairness

-----------------------------------------------------------------------------
(* Properties                                                              *)

TypeOK ==
    /\ srv \in SrvT
    /\ open \subseteq Fds
    /\ written \in 0..Size /\ ftValid \in BOOLEAN /\ expired \in BOOLEAN
    /\ peer \in {"idle", "offered", "pending", "conn", "closed"}
    /\ wire \in 0..Size /\ got \in 0..Size
    /\ ackWire \in Seq(0..255)

(* Completion means delivery (spec 4.5): the transfer ends while the      *)
(* client is connected only when the client has read the whole file.     *)
(* This rests on dcc_read keeping a partial ack in rxqueue across reads   *)
(* and comparing whole big-endian words with total_size.                  *)
CompleteMeansDelivered ==
    srv.finished /\ peer = "conn" => got = Size

(* Byte accounting of dcc_send: while the client is connected, every byte *)
(* read from the file (bytes_sent) has reached the client or is on the    *)
(* wire.  send()'s result is ignored, so this needs send() never short.   *)
BytesAccounted ==
    peer = "conn" => srv.pos = got + wire

(* Teardown releases the socket (spec 4.5: close the live descriptor): a  *)
(* finished transfer holds no open descriptor.                            *)
DescriptorsReleased ==
    srv.finished => open = {}

(* The timeout (spec 2 and 4.5): an updated() call from the IM transfer   *)
(* after the timeout tears down a transfer whose client is not connected. *)
TimeoutHonoured ==
    [][expired /\ peer \in {"idle", "offered", "pending"} /\ ~srv.finished
       /\ (written' # written \/ ftValid' # ftValid)
       => srv'.finished]_vars

(* Every transfer ends: the client gets the file and the transfer is torn *)
(* down, through the chain listen_cb, connected, dcc_send, dcc_read.      *)
Terminates == <>srv.finished

=============================================================================
