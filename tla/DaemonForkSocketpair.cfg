CONSTANTS
    k1 = k1
    k2 = k2
    k3 = k3
    u1 = u1
    u2 = u2
    Clients <- MCClients
    Users <- MCUsers
    NoUser = NoUser
    MaxCon = 2
    SocketpairOk = {TRUE, FALSE}
    ForkOk = {TRUE, FALSE}
    LongLines = FALSE
    QCap = 3
    MaxSend = 1
SPECIFICATION Spec
CHECK_DEADLOCK FALSE
SYMMETRY MCSymmetry
INVARIANT MaxConRespected
