CONSTANTS
    Size = 0
    Buf = 3
    LongBytes = 4
    FopenOk = {TRUE}
    ConnectOk = {TRUE}
    WriteOk = {TRUE, FALSE}
    PeerAborts = FALSE
SPECIFICATION FairSpec
CHECK_DEADLOCK FALSE
PROPERTY Terminates
