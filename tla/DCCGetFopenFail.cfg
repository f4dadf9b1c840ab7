CONSTANTS
    Size = 8
    Buf = 3
    LongBytes = 4
    FopenOk = {TRUE, FALSE}
    ConnectOk = {TRUE}
    WriteOk = {TRUE, FALSE}
    PeerAborts = FALSE
SPECIFICATION FairSpec
CHECK_DEADLOCK FALSE
INVARIANT NoCallbackLeak
