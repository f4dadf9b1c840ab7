CONSTANTS
    Size = 4
    Chunk = 2
    SockBuf = 4
    StickyEof = FALSE
    AcceptResults = {"conn"}
    IpResults = {TRUE, FALSE}
    PeerAborts = FALSE
    PeerConnects = TRUE
    ImCancels = FALSE
    EarlyProgress = TRUE
    AckBits = 32
SPECIFICATION FairSpec
CHECK_DEADLOCK FALSE
PROPERTY TimeoutHonoured
