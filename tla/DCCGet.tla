------------------------------- MODULE DCCGet -------------------------------
(***************************************************************************)
(* A DCC GET: the IRC client offers a file to an IM buddy, and the gateway *)
(* receives it (src/src/irc/dcc.cpp, DCCGet).  Buddy::process_dcc_get     *)
(* allocates the completion callback and constructs the DCCGet, whose     *)
(* constructor opens the local file and connects (blocking) to the        *)
(* client.  dcc_read appends what arrives to the file and, once           *)
(* total_size bytes are in, writes the acknowledgement, runs the callback *)
(* (Buddy::received_file hands the file to the IM) and tears down.        *)
(*                                                                         *)
(* Each callback runs to completion on the event loop and is one action;  *)
(* the client sending the file is the environment.                        *)
(***************************************************************************)
EXTENDS Naturals, Sequences

CONSTANTS
    Size,        \* total_size announced in the offer
    Buf,         \* bytes one read() takes at most (sizeof buffer)
    LongBytes,   \* sizeof(unsigned long) of the build: 4 (ILP32) or 8 (LP64)
    FopenOk,     \* outcomes of fopen(filename, "w"): subset of BOOLEAN
    ConnectOk,   \* outcomes of connect(): subset of BOOLEAN
    WriteOk,     \* outcomes of fwrite(): subset of BOOLEAN (FALSE: short write)
    PeerAborts   \* TRUE when the client may close before the acknowledgement

ASSUME /\ Size \in Nat /\ Size < 128 /\ Buf \in Nat \ {0}
       /\ LongBytes \in {4, 8}
       /\ FopenOk \subseteq BOOLEAN /\ ConnectOk \subseteq BOOLEAN
       /\ WriteOk \subseteq BOOLEAN

VARIABLES
    phase,     \* "idle" (offer not processed), "failed" (constructor threw), "live"
    get,       \* the DCCGet object: finished, sock, watcher, fp, callback, bytes_received
    open,      \* descriptors the process holds: subset of {"sock", "file"}
    cbAlloc,   \* the CallBack object is allocated and not deleted
    cbRan,     \* the callback has run (the file went to the IM)
    fileBytes, \* bytes fwrite() has put in the local file
    peer,      \* the IRC client: "offering", "sending", "closed"
    sent,      \* data bytes the client has sent
    wire,      \* data bytes sent and not yet read by the gateway
    ackWire    \* bytes the gateway has written back on the socket

vars == <<phase, get, open, cbAlloc, cbRan, fileBytes, peer, sent, wire, ackWire>>

GetT == [finished : BOOLEAN, sock : BOOLEAN, watcher : BOOLEAN, fp : BOOLEAN,
         cb : BOOLEAN, received : 0..Size]

Init ==
    /\ phase = "idle"
    /\ get = [finished |-> FALSE, sock |-> FALSE, watcher |-> FALSE, fp |-> FALSE,
              cb |-> FALSE, received |-> 0]
    /\ open = {}
    /\ cbAlloc = FALSE
    /\ cbRan = FALSE
    /\ fileBytes = 0
    /\ peer = "offering"
    /\ sent = 0
    /\ wire = 0
    /\ ackWire = <<>>

\* The 4 bytes of a big-endian 32-bit count.
AckBytes(v) == <<(v \div 16777216) % 256, (v \div 65536) % 256, (v \div 256) % 256, v % 256>>

(* unsigned long l = htonl(n); write(sock, &l, sizeof(l)): the 32-bit     *)
(* network-order value in an unsigned long.  On a little-endian LP64      *)
(* build its 8 bytes are the 4 network-order bytes and then 4 zeros.      *)
AckLong(v) == IF LongBytes = 4 THEN AckBytes(v) ELSE AckBytes(v) \o <<0, 0, 0, 0>>

(* Mutants: the completion test off by one either way.                  *)
CompleteEarly(n)  == n >= Size - 1
CompleteStrict(n) == n > Size

\* The completion test of dcc_read.
Complete(n) == n >= Size

(* Mutant: bytes_received advances by sizeof buffer, not by len.         *)
AdvanceWholeBuf(n, r) == n + Buf

\* bytes_received += len
Advance(n, r) == n + r

(* Mutant: deinit forgets to delete the callback.                        *)
deinitKeepCallback(g, op) ==
    [get  |-> [g EXCEPT !.finished = TRUE, !.sock = FALSE, !.watcher = FALSE,
                        !.fp = FALSE, !.cb = FALSE],
     open |-> (op \ (IF g.sock THEN {"sock"} ELSE {}))
                  \ (IF g.fp THEN {"file"} ELSE {}),
     freed |-> FALSE]

(* Mutant: deinit forgets to close the socket.                           *)
deinitNoClose(g, op) ==
    [get  |-> [g EXCEPT !.finished = TRUE, !.sock = FALSE, !.watcher = FALSE,
                        !.fp = FALSE, !.cb = FALSE],
     open |-> op \ (IF g.fp THEN {"file"} ELSE {}),
     freed |-> g.cb]

(* DCCGet::deinit: close the socket if sock >= 0, remove the watcher,     *)
(* fclose, delete the callback, and mark the transfer finished.  A second *)
(* call finds everything released and does nothing more.                  *)
deinit(g, op) ==
    [get  |-> [g EXCEPT !.finished = TRUE, !.sock = FALSE, !.watcher = FALSE,
                        !.fp = FALSE, !.cb = FALSE],
     open |-> (op \ (IF g.sock THEN {"sock"} ELSE {}))
                  \ (IF g.fp THEN {"file"} ELSE {}),
     freed |-> g.cb]

\* Apply a deinit result.
Teardown(d) ==
    /\ get' = d.get
    /\ open' = d.open
    /\ cbAlloc' = (cbAlloc /\ ~d.freed)

-----------------------------------------------------------------------------
(* Buddy::process_dcc_get and the DCCGet constructor: the callback is     *)
(* allocated as an argument; fopen failing throws (the callback is not    *)
(* deleted); connect failing deletes the callback and throws (fp and the  *)
(* socket stay open); otherwise the read watcher is added.  The caller    *)
(* swallows DCCGetError.                                                   *)
Create(fo, co) ==
    /\ phase = "idle"
    /\ IF ~fo
       THEN /\ phase' = "failed" /\ cbAlloc' = TRUE
            /\ UNCHANGED <<get, open, peer>>
       ELSE IF ~co
       THEN /\ phase' = "failed" /\ cbAlloc' = FALSE
            /\ open' = {"file", "sock"}
            /\ UNCHANGED <<get, peer>>
       ELSE /\ phase' = "live" /\ cbAlloc' = TRUE
            /\ get' = [get EXCEPT !.sock = TRUE, !.watcher = TRUE, !.fp = TRUE,
                                  !.cb = TRUE]
            /\ open' = {"file", "sock"}
            /\ peer' = "sending"
    /\ UNCHANGED <<cbRan, fileBytes, sent, wire, ackWire>>

(* Mutant: no return after a failed fwrite.                              *)
dcc_readNoReturn ==
    /\ phase = "live" /\ get.watcher
    /\ \/ /\ peer = "closed" /\ wire = 0
          /\ Teardown(deinit([get EXCEPT !.sock = FALSE], open))
          /\ UNCHANGED <<cbRan, fileBytes, wire, ackWire>>
       \/ \E r \in 1..wire, wok \in WriteOk :
            /\ wire' = wire - r
            /\ LET n == Advance(get.received, r) IN
               /\ fileBytes' = IF wok THEN fileBytes + r ELSE fileBytes
               /\ IF Complete(n)
                  THEN /\ ackWire' = ackWire \o AckLong(n)
                       /\ cbRan' = get.cb
                       /\ Teardown(deinit([get EXCEPT !.received = n], open))
                  ELSE /\ get' = [get EXCEPT !.received = n]
                       /\ UNCHANGED <<open, cbAlloc, cbRan, ackWire>>
    /\ UNCHANGED <<phase, peer, sent>>

(* DCCGet::dcc_read.  EOF: the client closed; sock is set to -1 before    *)
(* deinit, so the socket is not closed, and the callback is deleted       *)
(* without running.  Data: at most Buf bytes are read and fwritten; a     *)
(* short fwrite tears down; once bytes_received reaches total_size the    *)
(* ack is written, the file flushed, the callback run, and deinit.        *)
dcc_read ==
    /\ phase = "live" /\ get.watcher
    /\ \/ /\ peer = "closed" /\ wire = 0
          /\ Teardown(deinit([get EXCEPT !.sock = FALSE], open))
          /\ UNCHANGED <<cbRan, fileBytes, wire, ackWire>>
       \/ \E r \in 1..wire, wok \in WriteOk :
            /\ r <= Buf
            /\ wire' = wire - r
            /\ IF ~wok
               THEN /\ Teardown(deinit(get, open))
                    /\ UNCHANGED <<cbRan, fileBytes, ackWire>>
               ELSE LET n == Advance(get.received, r) IN
                    /\ fileBytes' = fileBytes + r
                    /\ IF Complete(n)
                       THEN /\ ackWire' = ackWire \o AckLong(n)
                            /\ cbRan' = get.cb
                            /\ Teardown(deinit([get EXCEPT !.received = n], open))
                       ELSE /\ get' = [get EXCEPT !.received = n]
                            /\ UNCHANGED <<open, cbAlloc, cbRan, ackWire>>
    /\ UNCHANGED <<phase, peer, sent>>

(* DCCGet::setPeer(NULL): the buddy left, so the transfer is dropped.     *)
setPeer ==
    /\ phase = "live"
    /\ Teardown(deinit(get, open))
    /\ UNCHANGED <<phase, cbRan, fileBytes, peer, sent, wire, ackWire>>

-----------------------------------------------------------------------------
(* The IRC client: it sends the file, then waits for an acknowledgement   *)
(* covering it before it closes, unless it aborts.                        *)

PeerSend(k) ==
    /\ peer = "sending"
    /\ sent' = sent + k
    /\ wire' = wire + k
    /\ UNCHANGED <<phase, get, open, cbAlloc, cbRan, fileBytes, peer, ackWire>>

\* The first 4-byte word the client reads back, if any.
AckSeen == Len(ackWire) >= 4 /\
           ((ackWire[1] * 256 + ackWire[2]) * 256 + ackWire[3]) * 256 + ackWire[4] >= Size

PeerClose ==
    /\ peer = "sending"
    /\ (sent = Size /\ AckSeen) \/ PeerAborts
    /\ peer' = "closed"
    /\ UNCHANGED <<phase, get, open, cbAlloc, cbRan, fileBytes, sent, wire, ackWire>>

Next ==
    \/ \E fo \in FopenOk, co \in ConnectOk : Create(fo, co)
    \/ dcc_read
    \/ setPeer
    \/ \E k \in 1..(Size - sent) : PeerSend(k)
    \/ PeerClose

Spec == Init /\ [][Next]_vars

(* The event loop delivers a readable socket; the client keeps sending    *)
(* and closes once acknowledged; the offer is processed.  setPeer needs   *)
(* the buddy to leave and gets no fairness.                               *)
Fairness ==
    /\ WF_vars(\E fo \in FopenOk, co \in ConnectOk : Create(fo, co))
    /\ WF_vars(dcc_read)
    /\ WF_vars(\E k \in 1..(Size - sent) : PeerSend(k))
    /\ WF_vars(PeerClose /\ AckSeen)

FairSpec == Spec /\ Fairness

-----------------------------------------------------------------------------
(* Properties                                                              *)

Over == phase = "failed" \/ get.finished

TypeOK ==
    /\ phase \in {"idle", "failed", "live"}
    /\ get \in GetT
    /\ open \subseteq {"sock", "file"}
    /\ cbAlloc \in BOOLEAN /\ cbRan \in BOOLEAN
    /\ fileBytes \in 0..Size
    /\ peer \in {"offering", "sending", "closed"}
    /\ sent \in 0..Size /\ wire \in 0..Size
    /\ ackWire \in Seq(0..255)

(* The acknowledgement (spec 4.5 and scenario 4): what the gateway writes *)
(* back is nothing, or one 4-byte big-endian word equal to total_size.   *)
AckExact == ackWire \in {<<>>, AckBytes(Size)}

(* The callback hands the file to the IM exactly when the transfer ended  *)
(* with the whole file written: a torn-down transfer ran the callback if  *)
(* and only if the local file holds total_size bytes.                     *)
CallbackIffWhole == get.finished => (cbRan <=> fileBytes = Size)

(* Teardown releases everything (spec 4.5, resource errors): once the     *)
(* transfer is over, by teardown or a failed constructor, no socket or    *)
(* file is left open ...                                                  *)
DescriptorsReleased == Over => open = {}

(* ... and the completion callback allocated by process_dcc_get is freed. *)
NoCallbackLeak == Over => ~cbAlloc

(* Every offered file is either received or given up: the DCCGet ends.    *)
Terminates == <>Over

=============================================================================
