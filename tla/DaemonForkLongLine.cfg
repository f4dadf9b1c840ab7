CONSTANTS
    k1 = k1
    k2 = k2
    k3 = k3
    u1 = u1
    u2 = u2
    Clients <- MCClients2
    Users <- MCUsers1
    NoUser = NoUser
    MaxCon = 0
    SocketpairOk = {TRUE}
    ForkOk = {TRUE, FALSE}
    LongLines = TRUE
    QCap = 3
    MaxSend = 1
SPECIFICATION FairSpec
CHECK_DEADLOCK FALSE
PROPERTY UpstreamDrains
