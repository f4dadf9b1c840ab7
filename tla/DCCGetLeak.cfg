CONSTANTS
    Size = 8
    Buf = 3
    LongBytes = 4
    FopenOk = {TRUE}
    ConnectOk = {TRUE}
    WriteOk = {TRUE, FALSE}
    PeerAborts = TRUE
SPECIFICATION FairSpec
CHECK_DEADLOCK FALSE
INVARIANT DescriptorsReleased
