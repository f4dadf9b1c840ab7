CONSTANTS
    Size = 4
    Chunk = 2
    SockBuf = 1
    StickyEof = FALSE
    AcceptResults = {"conn"}
    IpResults = {TRUE, FALSE}
    PeerAborts = FALSE
    PeerConnects = TRUE
    ImCancels = FALSE
    EarlyProgress = FALSE
    AckBits = 32
SPECIFICATION FairSpec
CHECK_DEADLOCK FALSE
INVARIANT BytesAccounted
