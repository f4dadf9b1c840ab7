\* Model-checking instance of DCCGet: an 8-byte file read at most 3 bytes
\* at a time, so completion takes three reads or more, and a read may
\* find the client's bytes split over several sends.
CONSTANTS
    Size = 8
    Buf = 3
    LongBytes = 4
    FopenOk = {TRUE}
    ConnectOk = {TRUE}
    WriteOk = {TRUE, FALSE}
    PeerAborts = TRUE
SPECIFICATION FairSpec
CHECK_DEADLOCK FALSE
INVARIANTS TypeOK AckExact CallbackIffWhole
PROPERTIES Terminates
