CONSTANTS
    Size = 8
    Buf = 3
    LongBytes = 8
    FopenOk = {TRUE}
    ConnectOk = {TRUE}
    WriteOk = {TRUE, FALSE}
    PeerAborts = FALSE
SPECIFICATION FairSpec
CHECK_DEADLOCK FALSE
INVARIANT AckExact
