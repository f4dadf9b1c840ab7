CONSTANTS
    Size = 8
    Buf = 3
    LongBytes = 4
    FopenOk = {TRUE}
    ConnectOk = {TRUE, FALSE}
    WriteOk = {TRUE, FALSE}
    PeerAborts = FALSE
SPECIFICATION FairSpec
CHECK_DEADLOCK FALSE
INVARIANT DescriptorsReleased
