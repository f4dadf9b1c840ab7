\* Model-checking instance of DCCSend: a 4-byte file sent in 2-byte
\* chunks (two freads, several acks, partial ack words).
CONSTANTS
    Size = 4
    Chunk = 2
    SockBuf = 4
    StickyEof = FALSE
    AcceptResults = {"conn"}
    IpResults = {TRUE, FALSE}
    PeerAborts = TRUE
    PeerConnects = TRUE
    ImCancels = FALSE
    EarlyProgress = FALSE
    AckBits = 32
SPECIFICATION FairSpec
CHECK_DEADLOCK FALSE
INVARIANTS TypeOK CompleteMeansDelivered BytesAccounted
PROPERTIES Terminates
